--------------------------- MODULE RunStreamProofs ---------------------------
(***************************************************************************)
(* Theorems about a run followed over server-sent events, for every number *)
(* of connections, every length of the run, every cap, queue and socket,   *)
(* and both log adapters.                                                  *)
(***************************************************************************)
EXTENDS RunStream, SequenceLemmas

-----------------------------------------------------------------------------
(* The log                                                                 *)

LogFacts == INSTANCE EventLogProofs WITH Runs <- {Run}, Payloads <- {"data"}, Keys <- {},
                                         NoKey <- "none", MaxRuns <- 1

(* The lemmas speak of the same log as the stream.                         *)
LEMMA SameCardinality ==
  ASSUME NEW S
  PROVE  Log!Cardinality(S) = Cardinality(S) /\ LogFacts!Cardinality(S) = Cardinality(S)
BY DEF Log!Cardinality, LogFacts!Cardinality, Cardinality

LEMMA SameRemoveFirst ==
  ASSUME NEW s, NEW e
  PROVE  Log!RemoveFirst(s, e) = LogFacts!RemoveFirst(s, e)
<1>1. \A T : Log!Min(T) = LogFacts!Min(T)
  BY DEF Log!Min, LogFacts!Min
<1>2. \A t, i : Log!RemoveAt(t, i) = LogFacts!RemoveAt(t, i)
  BY DEF Log!RemoveAt, LogFacts!RemoveAt
<1> QED
  BY <1>1, <1>2 DEF Log!RemoveFirst, LogFacts!RemoveFirst, Log!SelectInSeq, LogFacts!SelectInSeq

LEMMA SameForget ==
  ASSUME NEW l, NEW gone
  PROVE  Log!Forget(l, gone) = LogFacts!Forget(l, gone)
BY DEF Log!Forget, LogFacts!Forget, Log!NoRunLog, LogFacts!NoRunLog

LEMMA SameRunCap ==
  ASSUME NEW l
  PROVE  Log!EnforceRunCap(l) = LogFacts!EnforceRunCap(l)
<1>1. Log!Cardinality(Log!Held(l)) = LogFacts!Cardinality(LogFacts!Held(l))
  BY SameCardinality DEF Log!Held, LogFacts!Held
<1> QED
  BY <1>1, SameForget DEF Log!EnforceRunCap, LogFacts!EnforceRunCap

LEMMA SameRecord ==
  ASSUME NEW rl, NEW entry
  PROVE  Log!Record(rl, entry) = LogFacts!Record(rl, entry)
BY DEF Log!Record, LogFacts!Record, Log!Newest, LogFacts!Newest, Log!EvidenceIn,
       LogFacts!EvidenceIn, Log!TerminalEvent, LogFacts!TerminalEvent

LEMMA SameAppend ==
  ASSUME NEW l, NEW r, NEW event, NEW data, NEW key
  PROVE  Log!AppendTo(l, r, event, data, key) = LogFacts!AppendTo(l, r, event, data, key)
<1>1. \A rl, entry : Log!Record(rl, entry) = LogFacts!Record(rl, entry)
  BY SameRecord
<1>2. \A ended : Log!NoteRunPhase(ended, r, event) = LogFacts!NoteRunPhase(ended, r, event)
  BY SameRemoveFirst DEF Log!NoteRunPhase, LogFacts!NoteRunPhase, Log!TerminalEvent,
                         LogFacts!TerminalEvent
<1> QED
  BY <1>1, <1>2, SameRunCap DEF Log!AppendTo, LogFacts!AppendTo, Log!IsDuplicate,
                                LogFacts!IsDuplicate, Log!NewEntry, LogFacts!NewEntry

LEMMA SameTypes ==
  /\ Log!LogType = LogFacts!LogType /\ Log!RunLog = LogFacts!RunLog
  /\ Log!Entry = LogFacts!Entry
BY DEF Log!LogType, LogFacts!LogType, Log!RunLog, LogFacts!RunLog, Log!Entry, LogFacts!Entry,
       Log!Events, LogFacts!Events, Log!TerminalEvent, LogFacts!TerminalEvent

LEMMA SameCompact ==
  ASSUME NEW l, NEW r
  PROVE  Log!CompactRun(l, r) = LogFacts!CompactRun(l, r)
BY DEF Log!CompactRun, LogFacts!CompactRun, Log!Newest, LogFacts!Newest, Log!EvidenceIn,
       LogFacts!EvidenceIn

LEMMA SameKept ==
  ASSUME NEW s, NEW P
  PROVE  Log!Kept(s, P) = LogFacts!Kept(s, P)
BY Zenon DEF Log!Kept, LogFacts!Kept, Log!Cardinality, LogFacts!Cardinality

LEMMA SameAfter ==
  ASSUME NEW s, NEW cursor
  PROVE  Log!After(s, cursor) = LogFacts!After(s, cursor)
BY SameKept DEF Log!After, LogFacts!After

LEMMA SameReplay ==
  ASSUME NEW l, NEW r, NEW cursor
  PROVE  Log!Replay(l, r, cursor) = LogFacts!Replay(l, r, cursor)
BY SameAfter DEF Log!Replay, LogFacts!Replay, Log!OldestRetainedId, LogFacts!OldestRetainedId,
                 Log!NullCursor, LogFacts!NullCursor

LEMMA SameEmptyLog == Log!EmptyLog = LogFacts!EmptyLog
BY DEF Log!EmptyLog, LogFacts!EmptyLog, Log!NoRunLog, LogFacts!NoRunLog

LEMMA LogFactsApply == LogFacts!IsFiniteSet({Run})
<1>1. IsFiniteSet({Run})
  BY FS_Singleton
<1> QED
  BY <1>1 DEF IsFiniteSet, LogFacts!IsFiniteSet

(***************************************************************************)
(* The log of the run: the history is numbered from 1 on and has the end   *)
(* of the run as its last entry, once that is recorded; the log retains    *)
(* the end of the history, and as much of it as its cap allows while the   *)
(* run goes on.                                                            *)
(***************************************************************************)
HistoryOK(h, ended) ==
  /\ h \in Seq(Log!Entry) /\ Len(h) > 0 /\ LogFacts!NumberedFrom(h, 0)
  /\ \A i \in 1 .. Len(h) : IsEnd(h[i]) <=> (ended /\ i = Len(h))

KeepsEnough(rl) ==
  ~rl.compaction /\ (Len(rl.entries) = Len(rl.history) \/ Len(rl.entries) = MaxEntries)

LogOK(l, ended) ==
  /\ l \in Log!LogType /\ l.runs[Run].held
  /\ LogFacts!RetainsEnd(l.runs[Run])
  /\ HistoryOK(l.runs[Run].history, ended)
  /\ ~ended => KeepsEnough(l.runs[Run])

LEMMA RunLogType ==
  ASSUME NEW l \in Log!LogType
  PROVE  l.runs[Run] \in Log!RunLog
BY DEF Log!LogType

(* The only run is never over the cap.                                     *)
LEMMA AppendRecords ==
  ASSUME NEW l \in Log!LogType, NEW event
  PROVE  Log!AppendTo(l, Run, event, "data", "none").runs[Run] =
           Log!Record(l.runs[Run], Log!NewEntry(l.runs[Run], event, "data", "none"))
<1>1. PICK rl2 : rl2 = Log!Record(l.runs[Run], Log!NewEntry(l.runs[Run], event, "data", "none"))
  OBVIOUS
<1>2. PICK m : m = [runs  |-> [l.runs EXCEPT ![Run] = rl2],
                    ended |-> Log!NoteRunPhase(l.ended, Run, event)]
  OBVIOUS
<1>3. m.runs = [r \in {Run} |-> rl2]
  BY <1>2 DEF Log!LogType
<1>4. ~Log!IsDuplicate(l, Run, "none")
  BY DEF Log!IsDuplicate
<1>5. Log!AppendTo(l, Run, event, "data", "none") =
        IF InMemory THEN Log!EnforceRunCap(m) ELSE [runs |-> m.runs, ended |-> << >>]
  BY <1>1, <1>2, <1>4 DEF Log!AppendTo
<1>6. Log!EnforceRunCap(m).runs[Run] = rl2
  <2>1. Cardinality(Log!Held(m)) \in Nat /\ Cardinality(Log!Held(m)) <= 1
    <3>1. Log!Held(m) \subseteq {Run}
      BY DEF Log!Held
    <3>2. IsFiniteSet({Run}) /\ Cardinality({Run}) = 1
      BY FS_Singleton
    <3>3. IsFiniteSet(Log!Held(m)) /\ Cardinality(Log!Held(m)) <= 1
      BY <3>1, <3>2, FS_Subset
    <3> QED
      BY <3>3, FS_CardinalityType
  <2>2. Cardinality(Log!Held(m)) - 1 <= 0
    BY <2>1
  <2>3. Log!EnforceRunCap(m) = [runs |-> Log!Forget(m, {m.ended[i] : i \in 1 .. 0}),
                                ended |-> SubSeq(m.ended, 0 + 1, Len(m.ended))]
    BY <2>2, SameCardinality DEF Log!EnforceRunCap
  <2>4. Run \notin {m.ended[i] : i \in 1 .. 0}
    OBVIOUS
  <2> QED
    BY <1>3, <2>3, <2>4 DEF Log!Forget
<1> QED
  BY <1>1, <1>3, <1>5, <1>6

(* What the later proofs need to know of the log.                          *)
LEMMA LogView ==
  ASSUME NEW l, NEW ended, LogOK(l, ended)
  PROVE  LET rl == l.runs[Run]
         IN  /\ rl.history \in Seq(Log!Entry) /\ rl.entries \in Seq(Log!Entry)
             /\ Len(rl.history) \in Nat /\ Len(rl.entries) \in Nat
             /\ rl.nextId = Len(rl.history) + 1
             /\ Log!OldestRetainedId(rl) \in Nat /\ Log!OldestRetainedId(rl) >= 1
             /\ Len(rl.history) + 1 = Len(rl.entries) + Log!OldestRetainedId(rl)
             /\ Log!OldestRetainedId(rl) <= Len(rl.history)
             /\ \A i \in 1 .. Len(rl.entries) :
                  rl.entries[i] = rl.history[(Log!OldestRetainedId(rl) - 1) + i]
<1>1. PICK rl, e, h : rl = l.runs[Run] /\ e = rl.entries /\ h = rl.history
  OBVIOUS
<1>2. rl \in LogFacts!RunLog /\ LogFacts!RetainsEnd(rl) /\ rl.held
  BY <1>1, RunLogType, SameTypes DEF LogOK
<1>3. e \in Seq(Log!Entry) /\ h \in Seq(Log!Entry) /\ Len(e) \in Nat /\ Len(h) \in Nat
  BY <1>1, RunLogType, LenProperties DEF LogOK, Log!RunLog
<1>4. PICK o \in Nat :
        /\ Len(rl.history) = Len(rl.entries) + o
        /\ \A i \in 1 .. Len(rl.entries) : rl.entries[i] = rl.history[o + i]
        /\ LogFacts!OldestRetainedId(rl) = o + 1 /\ rl.entries # << >>
  BY <1>2, LogFacts!RetainedEntries, LogFactsApply, StreamAssumptions
<1>5. Log!OldestRetainedId(rl) = o + 1
  BY <1>4 DEF Log!OldestRetainedId, LogFacts!OldestRetainedId
<1>6. Len(e) > 0
  BY <1>1, <1>3, <1>4, EmptySeq
<1>7. (o + 1) - 1 = o
  OBVIOUS
<1>8. rl.nextId = Len(h) + 1
  BY <1>1, <1>2 DEF LogFacts!RetainsEnd
<1>9. PICK old : old = Log!OldestRetainedId(rl)
  OBVIOUS
<1>10. old = o + 1 /\ old \in Nat /\ old >= 1 /\ old - 1 = o
  BY <1>5, <1>7, <1>9
<1>11. Len(h) = Len(e) + o /\ \A i \in 1 .. Len(e) : e[i] = h[(old - 1) + i]
  BY <1>1, <1>4, <1>10
<1>12. Len(h) + 1 = Len(e) + old /\ old <= Len(h)
  BY <1>3, <1>6, <1>10, <1>11
<1> QED
  BY <1>1, <1>3, <1>8, <1>9, <1>10, <1>11, <1>12

Ending(event, ended) == ended \in BOOLEAN /\ (ended <=> event = "end")

(* One more entry in the log, which may lose its oldest one for it.        *)
Grows(l, l2, event, ended, entry) ==
  /\ entry \in Log!Entry /\ entry.event = event
  /\ l2.runs[Run].history = Append(l.runs[Run].history, entry)
  /\ Last(l2.runs[Run].history) = entry
  /\ LogOK(l2, ended)
  /\ Log!OldestRetainedId(l.runs[Run]) <= Log!OldestRetainedId(l2.runs[Run])

(* What follows an entry to be recorded while the run goes on.             *)
LEMMA AppendGrows ==
  ASSUME NEW l, LogOK(l, FALSE), NEW event \in {"agent", "end"}, NEW l2,
         l2 = Log!AppendTo(l, Run, event, "data", "none"), NEW ended, Ending(event, ended)
  PROVE  \E entry : Grows(l, l2, event, ended, entry)
<1> DEFINE rl     == l.runs[Run]
           fresh  == Log!NewEntry(rl, event, "data", "none")
<1>1. PICK entry : entry = fresh
  OBVIOUS
<1>2. PICK rl2 : rl2 = l2.runs[Run]
  OBVIOUS
<1>3. event \in LogFacts!Events /\ event \in Log!Events
  BY DEF LogFacts!Events, LogFacts!TerminalEvent, Log!Events, Log!TerminalEvent
<1>4. rl \in Log!RunLog /\ l \in Log!LogType /\ LogFacts!RetainsEnd(rl) /\ rl.held
  BY RunLogType DEF LogOK
<1>5. entry \in Log!Entry /\ entry.event = event /\ entry.key = "none"
  BY <1>1, <1>3, <1>4 DEF Log!NewEntry, Log!Entry, Log!RunLog
<1>6. rl2 = Log!Record(rl, entry)
  BY <1>1, <1>2, <1>4, AppendRecords
<1>7. PICK all, kept : all = Append(rl.entries, entry) /\ kept = Log!Newest(all, MaxEntries)
  OBVIOUS
<1>8. /\ rl2.held /\ rl2.history = Append(rl.history, entry) /\ rl2.entries = kept
      /\ rl2.compaction = (InMemory /\ event = "end")
  BY <1>5, <1>6, <1>7 DEF Log!Record, Log!TerminalEvent
<1>9. l2 \in Log!LogType
  BY <1>3, <1>4, SameTypes, SameAppend, LogFacts!AppendToType, LogFactsApply, StreamAssumptions
<1>10. LogFacts!RetainsEnd(rl2)
  <2>1. LogFacts!Record(rl, LogFacts!NewEntry(rl, event, "data", "none")) = rl2
    BY <1>1, <1>6, SameRecord DEF Log!NewEntry, LogFacts!NewEntry
  <2>2. LogFacts!RetainsEnd(LogFacts!Record(rl, LogFacts!NewEntry(rl, event, "data", "none")))
    BY <1>3, <1>4, SameTypes, LogFacts!RecordRetainsEnd, LogFactsApply, StreamAssumptions
  <2> QED
    BY <2>1, <2>2
<1>11. PICK h, h2, e : h = rl.history /\ h2 = rl2.history /\ e = rl.entries
  OBVIOUS
<1>12. h \in Seq(Log!Entry) /\ e \in Seq(Log!Entry) /\ Len(h) \in Nat /\ Len(e) \in Nat
  BY <1>4, <1>11, LenProperties DEF Log!RunLog
<1>13. /\ h2 = Append(h, entry) /\ h2 \in Seq(Log!Entry) /\ Len(h2) = Len(h) + 1
       /\ h2[Len(h) + 1] = entry /\ \A i \in 1 .. Len(h) : h2[i] = h[i]
  BY <1>5, <1>8, <1>11, <1>12, AppendProperties
<1>14. /\ all \in Seq(Log!Entry) /\ Len(all) = Len(e) + 1
  BY <1>5, <1>7, <1>11, <1>12, AppendProperties
<1>15. HistoryOK(h2, ended)
  <2>1. LogFacts!NumberedFrom(h2, 0)
    BY <1>10, <1>11 DEF LogFacts!RetainsEnd
  <2>2. \A i \in 1 .. Len(h) : ~IsEnd(h[i])
    BY <1>11 DEF LogOK, HistoryOK
  <2>3. ASSUME NEW i \in 1 .. Len(h2) PROVE IsEnd(h2[i]) <=> (ended /\ i = Len(h2))
    <3>1. CASE i \in 1 .. Len(h)
      BY <1>12, <1>13, <2>2, <3>1
    <3>2. CASE i = Len(h) + 1
      BY <1>5, <1>12, <1>13, <3>2 DEF IsEnd, Ending
    <3> QED
      BY <1>12, <1>13, <3>1, <3>2
  <2> QED
    BY <1>12, <1>13, <2>1, <2>3 DEF HistoryOK
<1>16. MaxEntries \in Nat /\ MaxEntries > 0
  BY StreamAssumptions
<1>17. Len(kept) = IF Len(all) > MaxEntries THEN MaxEntries ELSE Len(all)
  <2>1. CASE Len(all) > MaxEntries
    <3>1. PICK d \in Nat : Len(all) = MaxEntries + d
      <4>1. Len(all) - MaxEntries \in Nat /\ Len(all) = MaxEntries + (Len(all) - MaxEntries)
        BY <1>12, <1>14, <1>16, <2>1
      <4> QED
        BY <4>1
    <3>2. Len(all) - MaxEntries + 1 = d + 1
      BY <1>16, <3>1
    <3>3. kept = SubSeq(all, d + 1, Len(all))
      BY <1>7, <2>1, <3>2 DEF Log!Newest
    <3>4. \A i \in d + 1 .. Len(all) : all[i] \in Log!Entry
      BY <1>12, <1>14, ElementOfSeq
    <3>5. Len(kept) = Len(all) - (d + 1) + 1
      BY <1>12, <1>14, <1>16, <3>1, <3>3, <3>4, SubSeqProperties
    <3> QED
      BY <1>16, <2>1, <3>1, <3>5
  <2>2. CASE ~(Len(all) > MaxEntries)
    BY <1>7, <2>2 DEF Log!Newest
  <2> QED
    BY <2>1, <2>2
<1>18. Len(e) = Len(h) \/ Len(e) = MaxEntries
  BY <1>11 DEF LogOK, KeepsEnough
<1>19. event # "end" => KeepsEnough(rl2)
  <2>1. Len(kept) = Len(h2) \/ Len(kept) = MaxEntries
    BY <1>12, <1>13, <1>14, <1>16, <1>17, <1>18
  <2>2. event # "end" => ~rl2.compaction
    BY <1>8, Zenon
  <2>3. rl2.entries = kept /\ rl2.history = h2
    BY <1>8, <1>11
  <2> QED
    BY <2>1, <2>2, <2>3, Zenon DEF KeepsEnough
<1>20. LogOK(l2, ended)
  BY <1>2, <1>8, <1>9, <1>10, <1>11, <1>15, <1>19 DEF LogOK, Ending
<1>21. Last(h2) = entry
  BY <1>12, <1>13 DEF Last
<1>22. PICK o, o2 : o = Log!OldestRetainedId(rl) /\ o2 = Log!OldestRetainedId(rl2)
  OBVIOUS
<1>23. o \in Nat /\ o2 \in Nat /\ Len(h) + 1 = Len(e) + o /\ Len(h2) + 1 = Len(kept) + o2
  BY <1>2, <1>8, <1>11, <1>20, <1>22, LogView
<1>24. o <= o2
  BY <1>12, <1>13, <1>14, <1>16, <1>17, <1>23
<1> QED
  BY <1>2, <1>5, <1>11, <1>13, <1>20, <1>21, <1>22, <1>24 DEF Grows

(* Compaction keeps the newest entry.                                      *)
Shrinks(l, l2, ended) ==
  /\ LogOK(l2, ended) /\ ended
  /\ l2.runs[Run].history = l.runs[Run].history
  /\ Log!OldestRetainedId(l2.runs[Run]) = Len(l.runs[Run].history)

LEMMA CompactShrinks ==
  ASSUME NEW l, NEW ended, LogOK(l, ended), l.runs[Run].compaction, NEW l2,
         l2 = Log!CompactRun(l, Run)
  PROVE  Shrinks(l, l2, ended)
<1>1. PICK rl, rl2, kept :
        rl = l.runs[Run] /\ rl2 = l2.runs[Run] /\ kept = Log!Newest(rl.entries, 1)
  OBVIOUS
<1>2. rl \in Log!RunLog /\ l \in Log!LogType
  BY <1>1, RunLogType DEF LogOK
<1>3. PICK x : x = [rl EXCEPT !.entries    = kept,
                              !.dedupe     = Log!EvidenceIn(rl.dedupe, kept),
                              !.compaction = FALSE]
  OBVIOUS
<1>4. rl2 = x
  BY <1>1, <1>2, <1>3 DEF Log!LogType, Log!CompactRun
<1>5. rl2.held = rl.held /\ rl2.history = rl.history /\ rl2.entries = kept
  BY <1>2, <1>3, <1>4 DEF Log!RunLog
<1>6. ended
  BY <1>1 DEF LogOK, KeepsEnough
<1>7. l2 \in Log!LogType
  BY <1>2, SameTypes, SameCompact, LogFacts!CompactRunType, LogFactsApply, StreamAssumptions
<1>8. LogFacts!RetainsEnd(rl2)
  <2>1. LogFacts!AllRetainEnd(l)
    BY DEF LogFacts!AllRetainEnd, LogOK
  <2>2. LogFacts!AllRetainEnd(l2)
    BY <1>2, <2>1, SameTypes, SameCompact, LogFacts!CompactRetainsEnd, LogFactsApply,
       StreamAssumptions
  <2> QED
    BY <1>1, <2>2 DEF LogFacts!AllRetainEnd
<1>9. LogOK(l2, ended)
  BY <1>1, <1>5, <1>6, <1>7, <1>8 DEF LogOK
<1>10. rl.entries \in Seq(Log!Entry) /\ Len(rl.entries) \in Nat /\ Len(rl.entries) > 0
  <2>1. PICK e, h, o : e = rl.entries /\ h = rl.history /\ o = Log!OldestRetainedId(rl)
    OBVIOUS
  <2>2. /\ e \in Seq(Log!Entry) /\ Len(e) \in Nat /\ o \in Nat /\ Len(h) \in Nat
        /\ Len(h) + 1 = Len(e) + o /\ o <= Len(h)
    BY <1>1, <2>1, LogView
  <2> QED
    BY <2>1, <2>2
<1>11. Len(kept) = 1
  <2>1. CASE Len(rl.entries) > 1
    <3>1. PICK e, n : e = rl.entries /\ n = Len(e)
      OBVIOUS
    <3>2. n \in Nat /\ n > 1 /\ n - 1 + 1 = n
      BY <1>10, <2>1, <3>1
    <3>3. kept = SubSeq(e, n, n)
      BY <1>1, <2>1, <3>1, <3>2 DEF Log!Newest
    <3>4. \A i \in n .. n : e[i] \in Log!Entry
      BY <1>10, <3>1, <3>2, ElementOfSeq
    <3>5. Len(kept) = n - n + 1
      BY <1>10, <3>1, <3>2, <3>3, <3>4, SubSeqProperties
    <3> QED
      BY <3>2, <3>5
  <2>2. CASE ~(Len(rl.entries) > 1)
    <3>1. PICK e : e = rl.entries
      OBVIOUS
    <3>2. Len(e) \in Nat /\ Len(e) > 0 /\ ~(Len(e) > 1)
      BY <1>10, <2>2, <3>1
    <3>3. kept = e
      BY <1>1, <3>1, <3>2, Zenon DEF Log!Newest
    <3>4. PICK n : n = Len(e)
      OBVIOUS
    <3>5. n = 1
      BY <3>2, <3>4
    <3> QED
      BY <3>3, <3>4, <3>5, Zenon
  <2> QED
    BY <2>1, <2>2
<1>12. PICK o2, n : o2 = Log!OldestRetainedId(rl2) /\ n = Len(rl2.history)
  OBVIOUS
<1>13. o2 \in Nat /\ n \in Nat /\ n + 1 = 1 + o2
  BY <1>1, <1>5, <1>9, <1>11, <1>12, LogView
<1>14. o2 = n
  BY <1>13
<1> QED
  BY <1>1, <1>5, <1>6, <1>9, <1>12, <1>14 DEF Shrinks

(***************************************************************************)
(* An answer of the log: what was recorded after the cursor, or the report *)
(* that some of it is gone.                                                *)
(***************************************************************************)
AnswersFrom(answer, h, a) ==
  /\ a + Len(answer.entries) = Len(h)
  /\ \A i \in 1 .. Len(answer.entries) : answer.entries[i] = h[a + i]

LEMMA ReplayAnswers ==
  ASSUME NEW l, NEW ended, LogOK(l, ended), NEW cursor \in Nat \cup {Log!NullCursor},
         cursor <= Len(l.runs[Run].history), NEW answer, answer = Log!Replay(l, Run, cursor)
  PROVE  /\ answer \in Answers /\ answer.kind \in {"ok", "replay-gap"}
         /\ answer.kind = "ok" =>
              \E a \in Nat :
                /\ AnswersFrom(answer, l.runs[Run].history, a)
                /\ IF cursor = Log!NullCursor
                     THEN a + 1 = Log!OldestRetainedId(l.runs[Run])
                     ELSE a = cursor
         /\ answer.kind = "replay-gap" =>
              cursor # Log!NullCursor /\ cursor + 1 < Log!OldestRetainedId(l.runs[Run])
<1>1. PICK rl, e, h, o :
        rl = l.runs[Run] /\ e = rl.entries /\ h = rl.history /\ o = Log!OldestRetainedId(rl)
  OBVIOUS
<1>2. /\ h \in Seq(Log!Entry) /\ e \in Seq(Log!Entry) /\ Len(h) \in Nat /\ Len(e) \in Nat
      /\ o \in Nat /\ o >= 1 /\ Len(h) + 1 = Len(e) + o /\ o <= Len(h)
      /\ \A i \in 1 .. Len(e) : e[i] = h[(o - 1) + i]
  BY <1>1, LogView
<1>3. rl.held /\ LogFacts!NumberedFrom(h, 0)
  BY <1>1 DEF LogOK, HistoryOK
<1>4. CASE cursor = Log!NullCursor
  <2>1. answer.entries = e /\ answer.kind = "ok"
        /\ answer = [kind |-> "ok", entries |-> e,
                      truncated |-> rl.entries # << >> /\ rl.entries[1].id > 1]
    BY <1>1, <1>3, <1>4 DEF Log!Replay
  <2>2. o - 1 \in Nat /\ (o - 1) + Len(e) = Len(h) /\ (o - 1) + 1 = o
    BY <1>2
  <2>3. AnswersFrom(answer, h, o - 1)
    BY <1>2, <2>1, <2>2 DEF AnswersFrom
  <2>4. answer \in Answers
    BY <1>2, <2>1 DEF Answers, Entries
  <2> QED
    BY <1>1, <1>4, <2>1, <2>2, <2>3, <2>4
<1>5. CASE cursor # Log!NullCursor /\ cursor < o - 1
  <2>1. answer = [kind |-> "replay-gap", entries |-> << >>, truncated |-> FALSE]
    BY <1>1, <1>3, <1>5 DEF Log!Replay
  <2>2. << >> \in Entries
    BY DEF Entries
  <2>3. answer \in Answers
    BY <2>1, <2>2 DEF Answers
  <2>4. cursor + 1 < o
    BY <1>2, <1>5 DEF Log!NullCursor
  <2> QED
    BY <1>1, <1>5, <2>1, <2>3, <2>4
<1>6. CASE cursor # Log!NullCursor /\ ~(cursor < o - 1)
  <2>1. answer = [kind |-> "ok", entries |-> Log!After(e, cursor), truncated |-> FALSE]
    BY <1>1, <1>3, <1>6 DEF Log!Replay
  <2>2. cursor \in Nat /\ cursor <= Len(h)
    BY <1>1, <1>6
  <2>3. PICK p \in Nat : p = o - 1
    BY <1>2
  <2>4. PICK k \in Nat : cursor = p + k
    <3>1. cursor - p \in Nat /\ cursor = p + (cursor - p)
      BY <1>2, <1>6, <2>2, <2>3
    <3> QED
      BY <3>1
  <2>5. Len(h) = Len(e) + p /\ k <= Len(e)
    BY <1>2, <2>2, <2>3, <2>4
  <2>6. PICK m \in Nat : Len(e) = k + m
    <3>1. Len(e) - k \in Nat /\ Len(e) = k + (Len(e) - k)
      BY <1>2, <2>5
    <3> QED
      BY <3>1
  <2>7. PICK t : t = [n \in 1 .. m |-> e[k + n]]
    OBVIOUS
  <2>8. /\ t \in Seq(Log!Entry) /\ Len(t) = m /\ \A n \in 1 .. m : t[n] = e[k + n]
        /\ t = [n \in 1 .. m |-> t[n]]
    <3>1. \A n \in 1 .. m : e[k + n] \in Log!Entry
      BY <1>2, <2>6, ElementOfSeq
    <3> QED
      BY <2>7, <3>1
  <2>9. LogFacts!Remainder(e, k, t)
    BY <2>6, <2>8 DEF LogFacts!Remainder
  <2>10. LogFacts!NumberedFrom(e, p)
    <3>1. ASSUME NEW i \in 1 .. Len(e) PROVE e[i].id = p + i
      <4>1. p + i \in 1 .. Len(h) /\ e[i] = h[p + i]
        BY <1>2, <2>3, <2>5
      <4>2. h[p + i].id = 0 + (p + i)
        BY <1>3, <4>1 DEF LogFacts!NumberedFrom
      <4> QED
        BY <2>3, <4>1, <4>2
    <3> QED
      BY <3>1 DEF LogFacts!NumberedFrom
  <2>11. LogFacts!After(e, cursor) = t
    <3>1. 1 \in Nat /\ Len(e) \in Nat /\ "none" \notin {}
      BY <1>2
    <3> QED
      BY <2>4, <2>9, <2>10, <3>1, LogFacts!AfterNumbered, LogFactsApply,
         StreamAssumptions
  <2>12. answer = [kind |-> "ok", entries |-> t, truncated |-> FALSE]
    BY <2>1, <2>11, SameAfter
  <2>13. cursor + m = Len(h)
    BY <1>2, <2>4, <2>5, <2>6
  <2>14. ASSUME NEW i \in 1 .. m PROVE t[i] = h[cursor + i]
    <3>1. k + i \in 1 .. Len(e) /\ t[i] = e[k + i]
      <4>1. k + i \in 1 .. Len(e)
        BY <1>2, <2>6
      <4>2. t[i] = e[k + i]
        BY <2>8, Zenon
      <4> QED
        BY <4>1, <4>2
    <3>2. e[k + i] = h[p + (k + i)]
      BY <1>2, <2>3, <3>1
    <3>3. p + (k + i) = cursor + i
      BY <2>4
    <3> QED
      BY <3>1, <3>2, <3>3
  <2>15. AnswersFrom(answer, h, cursor)
    BY <2>8, <2>12, <2>13, <2>14 DEF AnswersFrom
  <2>16. answer \in Answers
    BY <2>8, <2>12 DEF Answers, Entries
  <2> QED
    <3>1. answer.kind = "ok" /\ "ok" # "replay-gap"
      BY <2>12
    <3> QED
      BY <1>1, <1>6, <2>2, <2>15, <2>16, <3>1
<1> QED
  BY <1>4, <1>5, <1>6

-----------------------------------------------------------------------------
(* Positions in a sequence                                                 *)

(* P are positions in a sequence of length L.                              *)
Within(P, L) == L \in Nat /\ P \subseteq 1 .. L

(* How many of the positions P come up to p.                               *)
Below(P, p) == Cardinality({j \in P : j <= p})

LEMMA WithinType ==
  ASSUME NEW P, NEW L, Within(P, L)
  PROVE  L \in Nat /\ \A j \in P : j \in Nat /\ 1 <= j /\ j <= L
BY DEF Within

LEMMA BelowType ==
  ASSUME NEW P, NEW L, Within(P, L), NEW p
  PROVE  IsFiniteSet({j \in P : j <= p}) /\ Below(P, p) \in Nat
<1>1. IsFiniteSet(1 .. L)
  BY FS_Interval DEF Within
<1>2. {j \in P : j <= p} \in SUBSET (1 .. L)
  BY DEF Within
<1>3. IsFiniteSet({j \in P : j <= p})
  BY <1>1, <1>2, FS_Subset
<1> QED
  BY <1>3, FS_CardinalityType DEF Below

LEMMA BelowZero ==
  ASSUME NEW P, NEW L, Within(P, L)
  PROVE  Below(P, 0) = 0
<1>1. {j \in P : j <= 0} = {}
  BY WithinType
<1> QED
  BY <1>1, FS_EmptySet DEF Below

LEMMA BelowAll ==
  ASSUME NEW P, NEW L, Within(P, L)
  PROVE  Below(P, L) = Cardinality(P)
<1>1. {j \in P : j <= L} = P
  BY WithinType
<1> QED
  BY <1>1 DEF Below

LEMMA BelowStep ==
  ASSUME NEW P, NEW L, Within(P, L), NEW p \in Nat
  PROVE  Below(P, p + 1) = IF p + 1 \in P THEN Below(P, p) + 1 ELSE Below(P, p)
<1> DEFINE A == {j \in P : j <= p}
           B == {j \in P : j <= p + 1}
<1>1. IsFiniteSet(A) /\ p + 1 \notin A
  BY BelowType
<1>2. CASE p + 1 \in P
  <2>1. B = A \cup {p + 1}
    BY <1>2, WithinType
  <2>2. Cardinality(B) = Cardinality(A) + 1
    <3> HIDE DEF A, B
    <3> QED
      BY <1>1, <2>1, FS_AddElement
  <2> QED
    BY <1>2, <2>2 DEF Below
<1>3. CASE p + 1 \notin P
  <2>1. B = A
    BY <1>3, WithinType
  <2> QED
    BY <1>3, <2>1 DEF Below
<1> QED
  BY <1>2, <1>3

LEMMA BelowMonotone ==
  ASSUME NEW P, NEW L, Within(P, L), NEW p \in Nat, NEW q \in Nat, p <= q
  PROVE  Below(P, p) <= Below(P, q)
<1> DEFINE A == {j \in P : j <= p}
           B == {j \in P : j <= q}
<1>1. A \in SUBSET B
  BY WithinType
<1>2. IsFiniteSet(B)
  BY BelowType
<1>3. Cardinality(A) <= Cardinality(B)
  BY <1>1, <1>2, FS_Subset
<1> QED
  BY <1>3 DEF Below

(* Positions are told apart by how many come up to them.                   *)
LEMMA BelowTellsApart ==
  ASSUME NEW P, NEW L, Within(P, L), NEW i \in P, NEW k \in P,
         Below(P, i) = Below(P, k)
  PROVE  i = k
<1>1. ASSUME NEW a \in P, NEW b \in P, a < b PROVE Below(P, a) < Below(P, b)
  <2>1. PICK c : c + 1 = b /\ c \in Nat /\ a <= c
    <3>1. b - 1 \in Nat /\ (b - 1) + 1 = b /\ a <= b - 1
      BY <1>1 DEF Within
    <3> QED
      BY <3>1
  <2>2. Below(P, b) = Below(P, c) + 1
    BY <2>1, BelowStep
  <2>3. a \in Nat /\ Below(P, a) \in Nat /\ Below(P, c) \in Nat
    BY <2>1, BelowType, WithinType
  <2>4. Below(P, a) <= Below(P, c)
    BY <2>1, <2>3, BelowMonotone
  <2> QED
    BY <2>2, <2>3, <2>4
<1>2. i \in Nat /\ k \in Nat /\ Below(P, i) \in Nat /\ Below(P, k) \in Nat
  BY BelowType, WithinType
<1>3. ~(i < k)
  BY <1>1, <1>2
<1>4. ~(k < i)
  BY <1>1, <1>2
<1> QED
  BY <1>2, <1>3, <1>4

(* There is an n-th position.                                              *)
LEMMA BelowReaches ==
  ASSUME NEW P, NEW L, Within(P, L), NEW n \in 1 .. Cardinality(P)
  PROVE  \E i \in P : Below(P, i) = n
<1> DEFINE T == {p \in Nat : Below(P, p) >= n}
<1>1. L \in T
  <2>1. L \in Nat /\ Below(P, L) = Cardinality(P) /\ Below(P, L) \in Nat
    BY BelowAll, BelowType DEF Within
  <2> QED
    BY <2>1
<1>2. PICK p \in T : \A q \in T : p <= q
  <2>1. T \in SUBSET Nat /\ T # {}
    BY <1>1
  <2> QED
    BY <2>1, LeastNat
<1>3. p # 0
  BY <1>2, BelowZero
<1>4. PICK c \in Nat : p = c + 1
  <2>1. p - 1 \in Nat /\ p = (p - 1) + 1
    BY <1>2, <1>3
  <2> QED
    BY <2>1
<1>5. c \notin T
  BY <1>2, <1>4
<1>6. Below(P, c) \in Nat /\ Below(P, p) \in Nat /\ n \in Int
  <2>1. n \in Int
    OBVIOUS
  <2> QED
    BY <2>1, BelowType
<1>7. Below(P, c) < n /\ Below(P, p) >= n
  BY <1>2, <1>5, <1>6
<1>8. Below(P, p) = IF p \in P THEN Below(P, c) + 1 ELSE Below(P, c)
  BY <1>4, BelowStep
<1>9. p \in P
  BY <1>6, <1>7, <1>8
<1>10. Below(P, p) = n
  BY <1>6, <1>7, <1>8, <1>9
<1> QED
  BY <1>9, <1>10

(* What filter keeps: the n-th position's element comes n-th.              *)
LEMMA KeptElements ==
  ASSUME NEW P, NEW L, Within(P, L), NEW s, NEW t, t = Log!Kept(s, P)
  PROVE  /\ Cardinality(P) \in Nat /\ t = [n \in 1 .. Cardinality(P) |-> t[n]]
         /\ \A i \in P : Below(P, i) \in 1 .. Cardinality(P) /\ t[Below(P, i)] = s[i]
         /\ \A n \in 1 .. Cardinality(P) : \E i \in P : Below(P, i) = n /\ t[n] = s[i]
<1> DEFINE At(n) == CHOOSE i \in P : Below(P, i) = n
           m     == Cardinality(P)
<1>1. m \in Nat
  BY BelowType, BelowAll
<1>2. t = [n \in 1 .. m |-> s[At(n)]]
  BY Zenon DEF Log!Kept, Log!Cardinality, Cardinality, Below
<1>3. ASSUME NEW i \in P PROVE Below(P, i) \in 1 .. m /\ At(Below(P, i)) = i
  <2>1. Below(P, i) \in Nat /\ Below(P, i) <= m
    <3>1. i \in Nat /\ L \in Nat /\ i <= L
      BY DEF Within
    <3> QED
      BY <3>1, BelowMonotone, BelowAll, BelowType
  <2>2. Below(P, i) # 0
    <3>1. PICK c \in Nat : i = c + 1
      <4>1. i - 1 \in Nat /\ i = (i - 1) + 1
        BY DEF Within
      <4> QED
        BY <4>1
    <3>2. Below(P, i) = Below(P, c) + 1 /\ Below(P, c) \in Nat
      BY <3>1, BelowStep, BelowType
    <3> QED
      BY <3>2
  <2>3. Below(P, i) \in 1 .. m
    BY <1>1, <2>1, <2>2
  <2>4. At(Below(P, i)) \in P /\ Below(P, At(Below(P, i))) = Below(P, i)
    OBVIOUS
  <2>5. At(Below(P, i)) = i
    BY <2>4, BelowTellsApart
  <2> QED
    BY <2>3, <2>5
<1> HIDE DEF m
<1>4. ASSUME NEW n \in 1 .. m PROVE \E i \in P : Below(P, i) = n /\ At(n) = i
  <2>1. PICK i \in P : Below(P, i) = n
    BY <1>4, BelowReaches DEF m
  <2> QED
    BY <1>3, <2>1
<1> HIDE DEF At
<1>5. \A n \in 1 .. m : t[n] = s[At(n)]
  BY <1>2
<1>6. t = [n \in 1 .. m |-> t[n]]
  BY <1>2
<1>7. \A i \in P : Below(P, i) \in 1 .. m /\ t[Below(P, i)] = s[i]
  BY <1>3, <1>5
<1>8. \A n \in 1 .. m : \E i \in P : Below(P, i) = n /\ t[n] = s[i]
  BY <1>4, <1>5
<1> QED
  BY <1>1, <1>6, <1>7, <1>8 DEF m

(* Filtering keeps a part of the sequence.                                 *)
LEMMA KeptType ==
  ASSUME NEW S, NEW s \in Seq(S), NEW P \in SUBSET (1 .. Len(s))
  PROVE  /\ Log!Kept(s, P) \in Seq(S) /\ Len(Log!Kept(s, P)) = Cardinality(P)
         /\ Cardinality(P) \in Nat
<1>1. PICK t : t = Log!Kept(s, P)
  OBVIOUS
<1>2. Len(s) \in Nat
  BY LenProperties
<1>3. Within(P, Len(s))
  BY <1>2 DEF Within
<1>4. /\ Cardinality(P) \in Nat /\ t = [n \in 1 .. Cardinality(P) |-> t[n]]
      /\ \A n \in 1 .. Cardinality(P) : \E i \in P : Below(P, i) = n /\ t[n] = s[i]
  BY <1>1, <1>3, KeptElements
<1>5. ASSUME NEW n \in 1 .. Cardinality(P) PROVE t[n] \in S
  BY <1>4, <1>5, ElementOfSeq
<1> QED
  BY <1>1, <1>4, <1>5

(* Filtering for the m positions behind the k-th leaves the rest.          *)
Rest(s, P, k, m) ==
  k \in Nat /\ m \in Nat /\ Len(s) \in Nat /\ Len(s) = k + m /\ P = k + 1 .. Len(s)

LEMMA KeptRest ==
  ASSUME NEW s, NEW P, NEW k, NEW m, Rest(s, P, k, m), NEW t, t = Log!Kept(s, P)
  PROVE  t = [n \in 1 .. m |-> t[n]] /\ \A n \in 1 .. m : t[n] = s[k + n]
<1> USE DEF Rest
<1>1. Within(P, Len(s))
  BY DEF Within
<1>2. Cardinality(P) = m
  <2>1. k + 1 \in Int /\ Len(s) \in Int
    OBVIOUS
  <2>2. Cardinality(k + 1 .. Len(s)) = IF k + 1 > Len(s) THEN 0 ELSE Len(s) - (k + 1) + 1
    BY <2>1, FS_Interval
  <2>3. (IF k + 1 > Len(s) THEN 0 ELSE Len(s) - (k + 1) + 1) = m
    OBVIOUS
  <2> QED
    BY <2>2, <2>3
<1>3. ASSUME NEW n \in 1 .. m PROVE k + n \in P /\ Below(P, k + n) = n
  <2>1. {j \in P : j <= k + n} = k + 1 .. k + n
    OBVIOUS
  <2>2. k + 1 \in Int /\ k + n \in Int
    OBVIOUS
  <2>3. Cardinality(k + 1 .. k + n) = IF k + 1 > k + n THEN 0 ELSE k + n - (k + 1) + 1
    BY <2>2, FS_Interval
  <2>4. (IF k + 1 > k + n THEN 0 ELSE k + n - (k + 1) + 1) = n
    OBVIOUS
  <2> QED
    <3>1. k + n \in P
      OBVIOUS
    <3>2. Below(P, k + n) = Cardinality(k + 1 .. k + n)
      BY <2>1 DEF Below
    <3> QED
      BY <2>3, <2>4, <3>1, <3>2
<1>4. t = [n \in 1 .. Cardinality(P) |-> t[n]]
  BY <1>1, KeptElements
<1>5. \A i \in P : t[Below(P, i)] = s[i]
  BY <1>1, KeptElements
<1>6. t = [n \in 1 .. m |-> t[n]]
  BY <1>2, <1>4, Zenon
<1> QED
  BY <1>3, <1>6, <1>5

-----------------------------------------------------------------------------
(* Continuations                                                           *)

(* The appends among continuations, and how many of them come up to p.     *)
AppendsIn(t) == {p \in 1 .. Len(t) : t[p].op # "replay"}
Place(t, p)  == Below(AppendsIn(t), p)

LEMMA AppendsWithin ==
  ASSUME NEW t \in Seq(Tasks)
  PROVE  Within(AppendsIn(t), Len(t)) /\ Cardinality(AppendsIn(t)) \in Nat
<1>1. Within(AppendsIn(t), Len(t))
  BY LenProperties DEF Within, AppendsIn
<1> QED
  BY <1>1, BelowAll, BelowType

(* Positions in what follows the head are one less.                        *)
LEMMA BelowShifted ==
  ASSUME NEW P, NEW L, Within(P, L), NEW Q, NEW M, Within(Q, M),
         \A q \in Nat \ {0} : q \in Q <=> q + 1 \in P, NEW p \in Nat
  PROVE  Below(P, p + 1) = IF 1 \in P THEN Below(Q, p) + 1 ELSE Below(Q, p)
<1> DEFINE A == {j \in Q : j <= p}
           B == {j \in P : j <= p + 1} \ {1}
           f == [j \in A |-> j + 1]
<1>1. \A j \in Q : j \in Nat /\ j # 0 /\ j + 1 \in P /\ j + 1 # 1
  BY WithinType
<1>2. \A j \in P : j \in Nat /\ j # 0
  BY WithinType
<1>3. \A j \in P : j # 1 => j - 1 \in Nat \ {0} /\ (j - 1) + 1 = j
  BY <1>2
<1>4. \A j \in P : j # 1 => j - 1 \in Q
  BY <1>3
<1>5. f \in Bijection(A, B)
  <2>1. \A j \in A : j + 1 \in B
    BY <1>1
  <2>2. \A j \in B : j - 1 \in A /\ (j - 1) + 1 = j
    BY <1>2, <1>3, <1>4
  <2>3. \A i, j \in A : i + 1 = j + 1 => i = j
    BY <1>1
  <2>4. f \in [A -> B]
    BY <2>1
  <2>5. f \in Injection(A, B)
    <3> HIDE DEF A, B
    <3> QED
      BY <2>3, <2>4 DEF Injection, IsInjective
  <2>6. f \in Surjection(A, B)
    <3>1. \A j \in B : \E i \in A : f[i] = j
      <4> HIDE DEF A, B
      <4> QED
        BY <2>2
    <3> QED
      BY <2>4, <3>1 DEF Surjection
  <2> QED
    BY <2>5, <2>6 DEF Bijection
<1>6. IsFiniteSet(A) /\ IsFiniteSet({j \in P : j <= p + 1})
  BY BelowType
<1>7. Cardinality(B) = Cardinality(A) /\ IsFiniteSet(B)
  <2> HIDE DEF A, B, f
  <2>1. ExistsBijection(A, B)
    BY <1>5 DEF ExistsBijection
  <2> QED
    BY <1>6, <2>1, FS_Bijection
<1>8. Cardinality(B) = Below(Q, p)
  BY <1>7 DEF Below
<1>9. CASE 1 \in P
  <2>1. {j \in P : j <= p + 1} = B \cup {1} /\ 1 \notin B
    BY <1>2, <1>9
  <2>2. Cardinality(B \cup {1}) = Cardinality(B) + 1
    <3> HIDE DEF B
    <3> QED
      BY <1>7, <2>1, FS_AddElement
  <2> QED
    BY <1>8, <1>9, <2>1, <2>2 DEF Below
<1>10. CASE 1 \notin P
  <2>1. {j \in P : j <= p + 1} = B
    BY <1>10
  <2> QED
    BY <1>8, <1>10, <2>1 DEF Below
<1> QED
  BY <1>9, <1>10

LEMMA TailPlaces ==
  ASSUME NEW t \in Seq(Tasks), t # << >>
  PROVE  /\ Tail(t) \in Seq(Tasks) /\ Len(t) = Len(Tail(t)) + 1 /\ Len(Tail(t)) \in Nat
         /\ \A p \in 1 .. Len(Tail(t)) : Tail(t)[p] = t[p + 1]
         /\ Head(t) = t[1] /\ t[1] \in Tasks
         /\ \A p \in Nat : Place(t, p + 1) = IF Head(t).op # "replay" THEN Place(Tail(t), p) + 1
                                             ELSE Place(Tail(t), p)
<1>1. PICK u : u = Tail(t)
  OBVIOUS
<1>2. /\ Len(t) \in Nat /\ Len(t) > 0 /\ u \in Seq(Tasks) /\ Len(u) = Len(t) - 1
      /\ Head(t) = t[1] /\ t[1] \in Tasks
  BY <1>1, LenProperties, EmptySeq, HeadTailProperties, ElementOfSeq
<1>3. \A p \in 1 .. Len(u) : u[p] = t[p + 1]
  BY <1>1, <1>2, HeadTailProperties
<1>4. Len(u) \in Nat /\ Len(t) = Len(u) + 1
  BY <1>2
<1>5. ASSUME NEW q \in Nat \ {0} PROVE q \in AppendsIn(u) <=> q + 1 \in AppendsIn(t)
  BY <1>3, <1>4 DEF AppendsIn
<1>6. 1 \in AppendsIn(t) <=> Head(t).op # "replay"
  BY <1>2 DEF AppendsIn
<1>7. ASSUME NEW p \in Nat
      PROVE  Place(t, p + 1) = IF Head(t).op # "replay" THEN Place(u, p) + 1 ELSE Place(u, p)
  <2>1. Within(AppendsIn(t), Len(t)) /\ Within(AppendsIn(u), Len(u))
    BY <1>2, AppendsWithin
  <2>2. \A q \in Nat \ {0} : q \in AppendsIn(u) <=> q + 1 \in AppendsIn(t)
    BY <1>5
  <2>3. Below(AppendsIn(t), p + 1) =
          IF 1 \in AppendsIn(t) THEN Below(AppendsIn(u), p) + 1 ELSE Below(AppendsIn(u), p)
    BY <2>1, <2>2, BelowShifted
  <2> QED
    BY <1>6, <2>3 DEF Place
<1> QED
  BY <1>1, <1>2, <1>3, <1>4, <1>7

(***************************************************************************)
(* The appends in flight are the end of the history h, in its order: the   *)
(* first n entries of h have been notified.                                *)
(***************************************************************************)
TasksOK(t, h, n) ==
  /\ t \in Seq(Tasks) /\ n \in Nat /\ n + Cardinality(AppendsIn(t)) = Len(h)
  /\ \A p \in 1 .. Len(t) :
       t[p].op # "replay" => /\ t[p].entry = h[n + Place(t, p)]
                             /\ t[p].op = "end" <=> IsEnd(t[p].entry)

LEMMA PlaceBound ==
  ASSUME NEW t \in Seq(Tasks), NEW p \in 1 .. Len(t)
  PROVE  Place(t, p) \in Nat /\ Place(t, p) <= Cardinality(AppendsIn(t))
<1>1. Within(AppendsIn(t), Len(t)) /\ Len(t) \in Nat /\ p \in Nat /\ p <= Len(t)
  BY AppendsWithin, LenProperties
<1>2. /\ Below(AppendsIn(t), p) \in Nat
      /\ Below(AppendsIn(t), p) <= Below(AppendsIn(t), Len(t))
      /\ Below(AppendsIn(t), Len(t)) = Cardinality(AppendsIn(t))
  BY <1>1, BelowType, BelowMonotone, BelowAll
<1> QED
  BY <1>2 DEF Place

(* One more continuation changes no place.                                 *)
Appended(u, t, task) == t \in Seq(Tasks) /\ task \in Tasks /\ u = Append(t, task)

OneMore(u, t, task) ==
  /\ u \in Seq(Tasks) /\ Len(u) = Len(t) + 1 /\ Len(t) \in Nat
  /\ u[Len(t) + 1] = task /\ \A p \in 1 .. Len(t) : u[p] = t[p]
  /\ \A p \in 1 .. Len(t) : Place(u, p) = Place(t, p)
  /\ Place(u, Len(t) + 1) = Cardinality(AppendsIn(u))
  /\ task.op # "replay" => Cardinality(AppendsIn(u)) = Cardinality(AppendsIn(t)) + 1
  /\ task.op = "replay" => Cardinality(AppendsIn(u)) = Cardinality(AppendsIn(t))

LEMMA AppendPlaces ==
  ASSUME NEW t, NEW task, NEW u, Appended(u, t, task)
  PROVE  OneMore(u, t, task)
<1>1. /\ u \in Seq(Tasks) /\ Len(u) = Len(t) + 1 /\ Len(t) \in Nat
      /\ u[Len(t) + 1] = task /\ \A p \in 1 .. Len(t) : u[p] = t[p]
      /\ t \in Seq(Tasks)
  BY AppendProperties, LenProperties DEF Appended
<1>2. ASSUME NEW p \in 0 .. Len(t)
      PROVE  {j \in AppendsIn(u) : j <= p} = {j \in AppendsIn(t) : j <= p}
  BY <1>1 DEF AppendsIn
<1>3. ASSUME NEW p \in 0 .. Len(t) PROVE Place(u, p) = Place(t, p)
  BY <1>2 DEF Place, Below
<1>4. Within(AppendsIn(u), Len(u)) /\ Within(AppendsIn(t), Len(t))
  BY <1>1, AppendsWithin
<1>5. Below(AppendsIn(u), Len(u)) = Cardinality(AppendsIn(u))
  BY <1>4, BelowAll
<1>6. Below(AppendsIn(t), Len(t)) = Cardinality(AppendsIn(t))
  BY <1>4, BelowAll
<1>7. Below(AppendsIn(u), Len(t) + 1) =
        IF Len(t) + 1 \in AppendsIn(u) THEN Below(AppendsIn(u), Len(t)) + 1
                                       ELSE Below(AppendsIn(u), Len(t))
  BY <1>1, <1>4, BelowStep
<1>8. Len(t) + 1 \in AppendsIn(u) <=> task.op # "replay"
  BY <1>1 DEF AppendsIn
<1>9. Below(AppendsIn(u), Len(t)) = Below(AppendsIn(t), Len(t))
  <2>1. Len(t) \in 0 .. Len(t)
    BY <1>1
  <2> QED
    BY <1>3, <2>1 DEF Place
<1>10. /\ task.op # "replay" => Cardinality(AppendsIn(u)) = Cardinality(AppendsIn(t)) + 1
       /\ task.op = "replay" => Cardinality(AppendsIn(u)) = Cardinality(AppendsIn(t))
  BY <1>1, <1>5, <1>6, <1>7, <1>8, <1>9
<1>11. Place(u, Len(t) + 1) = Cardinality(AppendsIn(u))
  BY <1>1, <1>5 DEF Place
<1>12. \A p \in 1 .. Len(t) : Place(u, p) = Place(t, p)
  BY <1>1, <1>3
<1> QED
  BY <1>1, <1>10, <1>11, <1>12 DEF OneMore

(* An append joins the history and the continuations.                      *)
LEMMA AppendTask ==
  ASSUME NEW t, NEW n, NEW h \in Seq(Log!Entry), TasksOK(t, h, n), NEW entry \in Log!Entry,
         NEW op \in {"emit", "end"}, op = "end" <=> IsEnd(entry),
         NEW u, u = Append(t, [op |-> op, entry |-> entry])
  PROVE  TasksOK(u, Append(h, entry), n)
<1>1. PICK task, h2 : task = [op |-> op, entry |-> entry] /\ h2 = Append(h, entry)
  OBVIOUS
<1>2. task \in Tasks /\ task.op = op /\ task.entry = entry /\ task.op # "replay"
  BY <1>1 DEF Tasks
<1>3. t \in Seq(Tasks) /\ n \in Nat /\ n + Cardinality(AppendsIn(t)) = Len(h)
  BY DEF TasksOK
<1>4. /\ h2 \in Seq(Log!Entry) /\ Len(h2) = Len(h) + 1 /\ Len(h) \in Nat
      /\ h2[Len(h) + 1] = entry /\ \A i \in 1 .. Len(h) : h2[i] = h[i]
  BY <1>1, AppendProperties, LenProperties
<1>5. /\ u \in Seq(Tasks) /\ Len(u) = Len(t) + 1 /\ Len(t) \in Nat
      /\ u[Len(t) + 1] = task /\ \A p \in 1 .. Len(t) : u[p] = t[p]
      /\ \A p \in 1 .. Len(t) : Place(u, p) = Place(t, p)
      /\ Place(u, Len(t) + 1) = Cardinality(AppendsIn(u))
      /\ Cardinality(AppendsIn(u)) = Cardinality(AppendsIn(t)) + 1
  <2>1. Appended(u, t, task)
    BY <1>1, <1>2, <1>3 DEF Appended
  <2>2. OneMore(u, t, task)
    BY <2>1, AppendPlaces
  <2> QED
    BY <1>2, <2>2 DEF OneMore
<1>6. PICK a \in Nat : Cardinality(AppendsIn(t)) = a
  BY <1>3, AppendsWithin
<1>7. /\ n + Cardinality(AppendsIn(u)) = Len(h2) /\ Cardinality(AppendsIn(u)) = a + 1
      /\ n + a = Len(h)
  BY <1>3, <1>4, <1>5, <1>6
<1>8. ASSUME NEW p \in 1 .. Len(u), u[p].op # "replay"
      PROVE  /\ u[p].entry = h2[n + Place(u, p)]
             /\ u[p].op = "end" <=> IsEnd(u[p].entry)
  <2>1. CASE p \in 1 .. Len(t)
    <3>1. /\ t[p].entry = h[n + Place(t, p)]
          /\ t[p].op = "end" <=> IsEnd(t[p].entry)
      BY <1>5, <1>8, <2>1 DEF TasksOK
    <3>2. Place(t, p) \in Nat /\ Place(t, p) <= Cardinality(AppendsIn(t))
      BY <1>3, <2>1, PlaceBound
    <3>3. Place(t, p) # 0
      <4>1. Within(AppendsIn(t), Len(t)) /\ p \in AppendsIn(t)
        BY <1>3, <1>5, <1>8, <2>1, AppendsWithin DEF AppendsIn
      <4>2. Below(AppendsIn(t), p) \in 1 .. Cardinality(AppendsIn(t))
        BY <4>1, KeptElements
      <4> QED
        BY <4>2 DEF Place
    <3>4. n + Place(t, p) \in 1 .. Len(h)
      BY <1>3, <1>4, <1>6, <3>2, <3>3
    <3> QED
      BY <1>4, <1>5, <2>1, <3>1, <3>4
  <2>2. CASE p = Len(t) + 1
    <3>1. u[p].entry = entry /\ u[p].op = op
      BY <1>2, <1>5, <2>2
    <3>2. n + Place(u, p) = Len(h) + 1
      BY <1>3, <1>5, <1>7, <2>2
    <3> QED
      BY <1>4, <3>1, <3>2
  <2> QED
    BY <1>5, <2>1, <2>2
<1> QED
  BY <1>1, <1>3, <1>5, <1>7, <1>8 DEF TasksOK

(* A replay joins the continuations, behind every append recorded so far.  *)
LEMMA ReplayTask ==
  ASSUME NEW t, NEW n, NEW h, TasksOK(t, h, n), NEW c \in Conns,
         NEW u, u = Append(t, [op |-> "replay", conn |-> c])
  PROVE  TasksOK(u, h, n) /\ n + Place(u, Len(t) + 1) = Len(h)
<1>1. PICK task : task = [op |-> "replay", conn |-> c]
  OBVIOUS
<1>2. task \in Tasks /\ task.op = "replay"
  BY <1>1 DEF Tasks
<1>3. t \in Seq(Tasks) /\ n \in Nat /\ n + Cardinality(AppendsIn(t)) = Len(h)
  BY DEF TasksOK
<1>4. /\ u \in Seq(Tasks) /\ Len(u) = Len(t) + 1 /\ Len(t) \in Nat
      /\ u[Len(t) + 1] = task /\ \A p \in 1 .. Len(t) : u[p] = t[p]
      /\ \A p \in 1 .. Len(t) : Place(u, p) = Place(t, p)
      /\ Place(u, Len(t) + 1) = Cardinality(AppendsIn(u))
      /\ Cardinality(AppendsIn(u)) = Cardinality(AppendsIn(t))
  <2>1. Appended(u, t, task)
    BY <1>1, <1>2, <1>3 DEF Appended
  <2>2. OneMore(u, t, task)
    BY <2>1, AppendPlaces
  <2> QED
    BY <1>2, <2>2 DEF OneMore
<1>5. ASSUME NEW p \in 1 .. Len(u), u[p].op # "replay"
      PROVE  /\ u[p].entry = h[n + Place(u, p)]
             /\ u[p].op = "end" <=> IsEnd(u[p].entry)
  <2>1. p \in 1 .. Len(t)
    BY <1>2, <1>4, <1>5
  <2> QED
    BY <1>4, <1>5, <2>1 DEF TasksOK
<1> QED
  BY <1>3, <1>4, <1>5 DEF TasksOK

(* The head is an append: the next entry of the history is notified.       *)
LEMMA AppendSettles ==
  ASSUME NEW t, NEW n, NEW h \in Seq(Log!Entry), TasksOK(t, h, n), t # << >>,
         Head(t).op # "replay"
  PROVE  /\ TasksOK(Tail(t), h, n + 1)
         /\ n + 1 <= Len(h) /\ Head(t).entry = h[n + 1] /\ h[n + 1] \in Log!Entry
         /\ Head(t).op = "end" <=> IsEnd(Head(t).entry)
<1>1. PICK u : u = Tail(t)
  OBVIOUS
<1>2. t \in Seq(Tasks) /\ n \in Nat /\ n + Cardinality(AppendsIn(t)) = Len(h) /\ Len(h) \in Nat
  BY LenProperties DEF TasksOK
<1>3. /\ u \in Seq(Tasks) /\ Len(t) = Len(u) + 1 /\ Len(u) \in Nat
      /\ \A p \in 1 .. Len(u) : u[p] = t[p + 1]
      /\ Head(t) = t[1]
      /\ \A p \in Nat : Place(t, p + 1) = Place(u, p) + 1
  BY <1>1, <1>2, TailPlaces
<1>4. Place(t, 1) = 1
  <2>1. Within(AppendsIn(u), Len(u))
    BY <1>3, AppendsWithin
  <2>2. Place(u, 0) = 0
    BY <2>1, BelowZero DEF Place
  <2>3. Place(t, 0 + 1) = 0 + 1
    BY <1>3, <2>2
  <2> QED
    BY <2>3
<1>5. Cardinality(AppendsIn(t)) = Cardinality(AppendsIn(u)) + 1 /\ Cardinality(AppendsIn(u)) \in Nat
  <2>1. Within(AppendsIn(u), Len(u)) /\ Within(AppendsIn(t), Len(t))
        /\ Cardinality(AppendsIn(u)) \in Nat
    BY <1>2, <1>3, AppendsWithin
  <2>2. /\ Below(AppendsIn(u), Len(u)) = Cardinality(AppendsIn(u))
        /\ Below(AppendsIn(t), Len(t)) = Cardinality(AppendsIn(t))
    BY <2>1, BelowAll
  <2> QED
    BY <1>3, <2>1, <2>2 DEF Place
<1>6. n + 1 \in 1 .. Len(h) /\ (n + 1) + Cardinality(AppendsIn(u)) = Len(h)
  BY <1>2, <1>5
<1>7. /\ t[1].entry = h[n + Place(t, 1)]
      /\ t[1].op = "end" <=> IsEnd(t[1].entry)
  <2>1. 1 \in 1 .. Len(t)
    BY <1>3
  <2>2. t[1].op # "replay"
    BY <1>3
  <2> QED
    BY <2>1, <2>2 DEF TasksOK
<1>8. ASSUME NEW p \in 1 .. Len(u), u[p].op # "replay"
      PROVE  /\ u[p].entry = h[(n + 1) + Place(u, p)]
             /\ u[p].op = "end" <=> IsEnd(u[p].entry)
  <2>1. p + 1 \in 1 .. Len(t) /\ u[p] = t[p + 1]
    BY <1>3
  <2>2. /\ t[p + 1].entry = h[n + Place(t, p + 1)]
        /\ t[p + 1].op = "end" <=> IsEnd(t[p + 1].entry)
    BY <1>8, <2>1 DEF TasksOK
  <2>3. Place(t, p + 1) = Place(u, p) + 1 /\ Place(u, p) \in Nat
    BY <1>3, PlaceBound
  <2>4. n + Place(t, p + 1) = (n + 1) + Place(u, p)
    BY <1>2, <2>3
  <2> QED
    BY <2>1, <2>2, <2>4
<1>9. TasksOK(u, h, n + 1)
  BY <1>2, <1>3, <1>6, <1>8 DEF TasksOK
<1>10. h[n + 1] \in Log!Entry
  BY <1>6, ElementOfSeq
<1> QED
  BY <1>1, <1>3, <1>4, <1>6, <1>7, <1>9, <1>10

(* The head is a replay: nothing is notified.                              *)
LEMMA ReplayTaskSettles ==
  ASSUME NEW t, NEW n, NEW h, TasksOK(t, h, n), t # << >>, Head(t).op = "replay"
  PROVE  TasksOK(Tail(t), h, n) /\ Place(t, 1) = 0
<1>1. PICK u : u = Tail(t)
  OBVIOUS
<1>2. t \in Seq(Tasks) /\ n \in Nat /\ n + Cardinality(AppendsIn(t)) = Len(h)
  BY DEF TasksOK
<1>3. /\ u \in Seq(Tasks) /\ Len(t) = Len(u) + 1 /\ Len(u) \in Nat
      /\ \A p \in 1 .. Len(u) : u[p] = t[p + 1]
      /\ \A p \in Nat : Place(t, p + 1) = Place(u, p)
  BY <1>1, <1>2, TailPlaces
<1>4. Within(AppendsIn(u), Len(u)) /\ Within(AppendsIn(t), Len(t))
  BY <1>2, <1>3, AppendsWithin
<1>5. Place(t, 1) = 0
  <2>1. Place(u, 0) = 0
    BY <1>4, BelowZero DEF Place
  <2>2. Place(t, 0 + 1) = 0
    BY <1>3, <2>1
  <2> QED
    BY <2>2
<1>6. Cardinality(AppendsIn(t)) = Cardinality(AppendsIn(u))
  <2>1. /\ Below(AppendsIn(u), Len(u)) = Cardinality(AppendsIn(u))
        /\ Below(AppendsIn(t), Len(t)) = Cardinality(AppendsIn(t))
    BY <1>4, BelowAll
  <2> QED
    BY <1>3, <2>1 DEF Place
<1>7. ASSUME NEW p \in 1 .. Len(u), u[p].op # "replay"
      PROVE  /\ u[p].entry = h[n + Place(u, p)]
             /\ u[p].op = "end" <=> IsEnd(u[p].entry)
  <2>1. p + 1 \in 1 .. Len(t) /\ u[p] = t[p + 1] /\ Place(t, p + 1) = Place(u, p)
    BY <1>3
  <2> QED
    BY <1>7, <2>1 DEF TasksOK
<1> QED
  BY <1>1, <1>2, <1>3, <1>5, <1>6, <1>7 DEF TasksOK

-----------------------------------------------------------------------------
(* The channel                                                             *)

LEMMA PumpCounts ==
  ASSUME NEW ch \in Channels, Len(ch.wire) <= HighWater
  PROVE  \E j \in Nat :
           /\ Sse!PumpCount(ch) = j /\ j <= Len(ch.queue) /\ Len(ch.wire) + j <= HighWater
           /\ \A i \in 1 .. j : IsEnd(ch.queue[i]) => i = j
<1>1. PICK q, w : q = ch.queue /\ w = ch.wire
  OBVIOUS
<1>2. Len(q) \in Nat /\ Len(w) \in Nat /\ HighWater \in Nat /\ Len(w) <= HighWater
  BY <1>1, LenProperties, StreamAssumptions DEF Channels, Entries
<1>3. PICK room : room = HighWater - Len(w)
  OBVIOUS
<1>4. room \in Nat /\ Len(w) + room = HighWater
  BY <1>2, <1>3
<1>5. PICK most : most = IF Len(q) < room THEN Len(q) ELSE room
  OBVIOUS
<1>6. most \in Nat /\ most <= Len(q) /\ Len(w) + most <= HighWater
  BY <1>2, <1>4, <1>5
<1>7. PICK ends : ends = {i \in 1 .. most : IsEnd(q[i])}
  OBVIOUS
<1>8. Sse!PumpCount(ch) = IF ends = {} THEN most ELSE CHOOSE i \in ends : \A j \in ends : i <= j
  BY <1>1, <1>3, <1>5, <1>7 DEF Sse!PumpCount
<1>9. CASE ends = {}
  BY <1>1, <1>6, <1>7, <1>8, <1>9
<1>10. CASE ends # {}
  <2>1. ends \in SUBSET Nat
    BY <1>7
  <2>2. PICK j \in ends : \A i \in ends : j <= i
    BY <1>10, <2>1, LeastNat
  <2>3. PICK k : k = Sse!PumpCount(ch)
    OBVIOUS
  <2>4. k \in ends /\ \A i \in ends : k <= i
    BY <1>8, <1>10, <2>2, <2>3
  <2>5. k \in Nat /\ k <= most
    BY <1>7, <2>4
  <2>6. ASSUME NEW i \in 1 .. k, IsEnd(q[i]) PROVE i = k
    <3>1. i \in ends
      BY <1>6, <1>7, <2>5, <2>6
    <3> QED
      BY <2>4, <2>5, <3>1
  <2> QED
    BY <1>1, <1>2, <1>6, <2>3, <2>5, <2>6
<1> QED
  BY <1>9, <1>10

(***************************************************************************)
(* What the pump does: it moves the first j queued events to the wire, no  *)
(* more than the socket takes and none behind the end of the run.  With    *)
(* the end on the wire the channel is closed.                              *)
(***************************************************************************)
Moves(ch, ch2, j) ==
  /\ ch2 \in Channels /\ Len(ch2.wire) <= HighWater /\ Len(ch2.queue) <= Len(ch.queue)
  /\ j <= Len(ch.queue) /\ Len(ch2.wire) = Len(ch.wire) + j
  /\ \A i \in 1 .. Len(ch.wire) : ch2.wire[i] = ch.wire[i]
  /\ \A i \in 1 .. j : ch2.wire[Len(ch.wire) + i] = ch.queue[i]
  /\ \A i \in 1 .. j : IsEnd(ch.queue[i]) => i = j /\ ch2.closed /\ ch2.queue = << >>
  /\ \/ ch2.closed /\ ch2.queue = << >>
     \/ /\ ch2.closed = ch.closed /\ Len(ch.queue) = j + Len(ch2.queue)
        /\ \A i \in 1 .. Len(ch2.queue) : ch2.queue[i] = ch.queue[j + i]

LEMMA PumpMoves ==
  ASSUME NEW ch \in Channels, Len(ch.wire) <= HighWater
  PROVE  \E j \in Nat : Moves(ch, Sse!Pump(ch), j)
<1>1. PICK q, w : q = ch.queue /\ w = ch.wire
  OBVIOUS
<1>2. /\ q \in Seq(Log!Entry) /\ w \in Seq(Log!Entry) /\ Len(q) \in Nat /\ Len(w) \in Nat
      /\ Len(w) <= HighWater
  BY <1>1, LenProperties DEF Channels, Entries
<1>3. CASE ~ch.flowing \/ ch.closed \/ ~ch.writable
  <2>1. Sse!Pump(ch) = ch
    BY <1>3 DEF Sse!Pump
  <2>2. Moves(ch, ch, 0)
    BY <1>1, <1>2 DEF Moves
  <2> QED
    BY <2>1, <2>2
<1>4. CASE ~(~ch.flowing \/ ch.closed \/ ~ch.writable)
  <2>1. PICK j \in Nat :
          /\ Sse!PumpCount(ch) = j /\ j <= Len(q) /\ Len(w) + j <= HighWater
          /\ \A i \in 1 .. j : IsEnd(q[i]) => i = j
    BY <1>1, PumpCounts
  <2>2. PICK m \in Nat : Len(q) = j + m
    <3>1. Len(q) - j \in Nat /\ Len(q) = j + (Len(q) - j)
      BY <1>2, <2>1
    <3> QED
      BY <3>1
  <2>3. PICK front, rest : front = SubSeq(q, 1, j) /\ rest = SubSeq(q, j + 1, Len(q))
    OBVIOUS
  <2>4. \A i \in 1 .. Len(q) : q[i] \in Log!Entry
    BY <1>2, ElementOfSeq
  <2>5. front \in Seq(Log!Entry) /\ Len(front) = j /\ \A i \in 1 .. j : front[i] = q[i]
    <3>1. \A i \in 1 .. j : q[i] \in Log!Entry
      BY <1>2, <2>1, <2>4
    <3>2. /\ front \in Seq(Log!Entry)
          /\ Len(front) = IF 1 <= j THEN j - 1 + 1 ELSE 0
          /\ \A i \in 1 .. j - 1 + 1 : front[i] = q[1 + i - 1]
      BY <2>3, <3>1, SubSeqProperties
    <3> QED
      BY <3>2
  <2>6. rest \in Seq(Log!Entry) /\ Len(rest) = m /\ \A i \in 1 .. m : rest[i] = q[j + i]
    <3>1. \A i \in j + 1 .. Len(q) : q[i] \in Log!Entry
      BY <1>2, <2>1, <2>4
    <3>2. /\ rest \in Seq(Log!Entry)
          /\ Len(rest) = IF j + 1 <= Len(q) THEN Len(q) - (j + 1) + 1 ELSE 0
          /\ \A i \in 1 .. Len(q) - (j + 1) + 1 : rest[i] = q[(j + 1) + i - 1]
      BY <1>2, <2>1, <2>3, <3>1, SubSeqProperties
    <3> QED
      BY <2>2, <3>2
  <2>7. PICK wire : wire = w \o front
    OBVIOUS
  <2>8. /\ wire \in Seq(Log!Entry) /\ Len(wire) = Len(w) + j
        /\ \A i \in 1 .. Len(w) : wire[i] = w[i]
        /\ \A i \in 1 .. j : wire[Len(w) + i] = q[i]
    <3>1. /\ wire \in Seq(Log!Entry) /\ Len(wire) = Len(w) + Len(front)
          /\ \A i \in 1 .. Len(w) + Len(front) :
               wire[i] = IF i <= Len(w) THEN w[i] ELSE front[i - Len(w)]
      BY <1>2, <2>5, <2>7, ConcatProperties
    <3>2. ASSUME NEW i \in 1 .. j PROVE wire[Len(w) + i] = q[i]
      <4>1. Len(w) + i \in 1 .. Len(w) + Len(front) /\ ~(Len(w) + i <= Len(w))
            /\ Len(w) + i - Len(w) = i
        BY <1>2, <2>5
      <4> QED
        BY <2>5, <3>1, <4>1
    <3> QED
      BY <1>2, <2>5, <3>1, <3>2
  <2>9. PICK fits \in BOOLEAN : fits <=> Len(wire) < HighWater
    <3>1. CASE Len(wire) < HighWater
      BY <3>1
    <3>2. CASE ~(Len(wire) < HighWater)
      BY <3>2
    <3> QED
      BY <3>1, <3>2
  <2>10. PICK sent : sent = [ch EXCEPT !.queue = rest, !.wire = wire, !.writable = fits]
    OBVIOUS
  <2>11. /\ sent \in Channels /\ sent.queue = rest /\ sent.wire = wire
         /\ sent.closed = ch.closed
    BY <2>6, <2>8, <2>10 DEF Channels, Entries
  <2>12. Sse!Pump(ch) = IF j > 0 /\ IsEnd(q[j]) THEN Sse!MarkClosed(sent) ELSE sent
    <3>1. sent = [ch EXCEPT !.queue = rest, !.wire = wire, !.writable = Len(wire) < HighWater]
      <4>1. (Len(wire) < HighWater) = fits
        BY <2>9
      <4> QED
        BY <2>10, <4>1
    <3> QED
      BY <1>1, <1>4, <2>1, <2>3, <2>7, <3>1 DEF Sse!Pump
  <2>13. CASE j > 0 /\ IsEnd(q[j])
    <3>1. PICK ch2 : ch2 = [sent EXCEPT !.closed = TRUE, !.queue = << >>]
      OBVIOUS
    <3>2. ch2 \in Channels /\ ch2.closed /\ ch2.queue = << >> /\ ch2.wire = wire
      <4>1. << >> \in Entries
        BY DEF Entries
      <4> QED
        BY <2>11, <3>1, <4>1 DEF Channels
    <3>3. Sse!Pump(ch) = ch2
      BY <2>12, <2>13, <3>1 DEF Sse!MarkClosed
    <3>4. Moves(ch, ch2, j)
      BY <1>1, <1>2, <2>1, <2>8, <3>2 DEF Moves
    <3> QED
      BY <3>3, <3>4
  <2>14. CASE ~(j > 0 /\ IsEnd(q[j]))
    <3>1. Sse!Pump(ch) = sent
      BY <2>12, <2>14
    <3>2. \A i \in 1 .. j : ~IsEnd(q[i])
      BY <2>1, <2>14
    <3>3. m <= Len(q) /\ Len(wire) <= HighWater
      BY <1>2, <2>1, <2>2, <2>8
    <3>4. Moves(ch, sent, j)
      <4>1. sent.wire = wire /\ sent.queue = rest /\ sent \in Channels /\ sent.closed = ch.closed
        BY <2>11
      <4>2. Len(rest) <= Len(q) /\ Len(q) = j + Len(rest)
            /\ \A i \in 1 .. Len(rest) : rest[i] = q[j + i]
        BY <2>2, <2>6, <3>3
      <4>3. /\ \A i \in 1 .. Len(w) : sent.wire[i] = w[i]
            /\ \A i \in 1 .. j : sent.wire[Len(w) + i] = q[i]
        BY <2>8, <4>1
      <4> QED
        BY <1>1, <2>1, <2>8, <3>2, <3>3, <4>1, <4>2, <4>3 DEF Moves
    <3> QED
      BY <3>1, <3>4
  <2> QED
    BY <2>13, <2>14
<1> QED
  BY <1>3, <1>4

(* A channel within the limits of its queue and its socket.                *)
ChannelOK(ch) ==
  ch \in Channels /\ Len(ch.queue) <= MaxQueued /\ Len(ch.wire) <= HighWater

LEMMA CloseMoves ==
  ASSUME NEW ch \in Channels, Len(ch.wire) <= HighWater
  PROVE  /\ Moves(ch, Sse!MarkClosed(ch), 0) /\ ChannelOK(Sse!MarkClosed(ch))
         /\ Sse!MarkClosed(ch).closed /\ Sse!MarkClosed(ch).queue = << >>
         /\ Sse!MarkClosed(ch).wire = ch.wire
<1>1. PICK ch2 : ch2 = [ch EXCEPT !.closed = TRUE, !.queue = << >>]
  OBVIOUS
<1>2. << >> \in Entries /\ Len(<< >>) = 0
  BY DEF Entries
<1>3. ch2 \in Channels /\ ch2.closed /\ ch2.queue = << >> /\ ch2.wire = ch.wire
  BY <1>1, <1>2 DEF Channels
<1>4. Len(ch.queue) \in Nat /\ Len(ch.wire) \in Nat
  BY LenProperties DEF Channels, Entries
<1>5. Moves(ch, ch2, 0)
  BY <1>2, <1>3, <1>4 DEF Moves
<1>6. ChannelOK(ch2)
  BY <1>2, <1>3, StreamAssumptions DEF ChannelOK
<1>7. Sse!MarkClosed(ch) = ch2
  BY <1>1 DEF Sse!MarkClosed
<1> QED
  BY <1>3, <1>5, <1>6, <1>7

(* Opening and draining pump what is queued.                               *)
LEMMA OpenMoves ==
  ASSUME NEW ch, ChannelOK(ch)
  PROVE  ChannelOK(Sse!Open(ch)) /\ \E j \in Nat : Moves(ch, Sse!Open(ch), j)
<1>1. ch \in Channels /\ Len(ch.queue) <= MaxQueued /\ Len(ch.wire) <= HighWater
      /\ Len(ch.queue) \in Nat /\ Len(ch.wire) \in Nat
  BY LenProperties DEF ChannelOK, Channels, Entries
<1>2. CASE ch.closed
  <2>1. Sse!Open(ch) = ch
    BY <1>2 DEF Sse!Open
  <2>2. Moves(ch, ch, 0)
    BY <1>1 DEF Moves
  <2> QED
    BY <2>1, <2>2
<1>3. CASE ~ch.closed
  <2>1. PICK c1 : c1 = [ch EXCEPT !.flowing = TRUE]
    OBVIOUS
  <2>2. c1 \in Channels /\ c1.queue = ch.queue /\ c1.wire = ch.wire /\ c1.closed = ch.closed
    BY <1>1, <2>1 DEF Channels
  <2>3. Sse!Open(ch) = Sse!Pump(c1)
    BY <1>3, <2>1 DEF Sse!Open
  <2>4. PICK j \in Nat : Moves(c1, Sse!Pump(c1), j)
    BY <1>1, <2>2, PumpMoves
  <2>5. PICK c2 : c2 = Sse!Pump(c1)
    OBVIOUS
  <2>6. Moves(ch, c2, j)
    BY <2>2, <2>4, <2>5 DEF Moves
  <2>7. ChannelOK(c2)
    <3>1. c2 \in Channels /\ Len(c2.wire) <= HighWater /\ Len(c2.queue) <= Len(ch.queue)
      BY <2>6 DEF Moves
    <3>2. Len(c2.queue) \in Nat /\ MaxQueued \in Nat
      BY <3>1, LenProperties, StreamAssumptions DEF Channels, Entries
    <3> QED
      BY <1>1, <3>1, <3>2 DEF ChannelOK
  <2> QED
    BY <2>3, <2>5, <2>6, <2>7
<1> QED
  BY <1>2, <1>3

LEMMA DrainMoves ==
  ASSUME NEW ch, ChannelOK(ch)
  PROVE  ChannelOK(Sse!Drained(ch)) /\ \E j \in Nat : Moves(ch, Sse!Drained(ch), j)
<1>1. ch \in Channels /\ Len(ch.queue) <= MaxQueued /\ Len(ch.wire) <= HighWater
      /\ Len(ch.queue) \in Nat /\ Len(ch.wire) \in Nat
  BY LenProperties DEF ChannelOK, Channels, Entries
<1>2. PICK c1 : c1 = [ch EXCEPT !.writable = TRUE]
  OBVIOUS
<1>3. c1 \in Channels /\ c1.queue = ch.queue /\ c1.wire = ch.wire /\ c1.closed = ch.closed
  BY <1>1, <1>2 DEF Channels
<1>4. PICK c2 : c2 = Sse!Pump(c1)
  OBVIOUS
<1>5. Sse!Drained(ch) = c2
  BY <1>2, <1>4 DEF Sse!Drained
<1>6. PICK j \in Nat : Moves(c1, c2, j)
  BY <1>1, <1>3, <1>4, PumpMoves
<1>7. Moves(ch, c2, j)
  BY <1>3, <1>6 DEF Moves
<1>8. c2 \in Channels /\ Len(c2.wire) <= HighWater /\ Len(c2.queue) <= Len(ch.queue)
  BY <1>7 DEF Moves
<1>9. Len(c2.queue) \in Nat /\ MaxQueued \in Nat
  BY <1>8, LenProperties, StreamAssumptions DEF Channels, Entries
<1>10. ChannelOK(c2)
  BY <1>1, <1>8, <1>9 DEF ChannelOK
<1> QED
  BY <1>5, <1>7, <1>10

(* Events passed on to a channel that takes them join its queue.           *)
LEMMA SendMoves ==
  ASSUME NEW ch, ChannelOK(ch), ~ch.closed, NEW events \in Entries, events # << >>,
         NEW filled, filled = [ch EXCEPT !.queue = ch.queue \o events]
  PROVE  /\ ChannelOK(Sse!OnEvents(ch, events))
         /\ \E j \in Nat : Moves(filled, Sse!OnEvents(ch, events), j)
<1>1. ch \in Channels /\ Len(ch.queue) <= MaxQueued /\ Len(ch.wire) <= HighWater
  BY DEF ChannelOK
<1>2. PICK q : q = ch.queue \o events
  OBVIOUS
<1>3. q \in Entries
  BY <1>1, <1>2, ConcatProperties DEF Channels, Entries
<1>4. PICK c1 : c1 = [ch EXCEPT !.flowing = TRUE, !.queue = q]
  OBVIOUS
<1>5. c1 \in Channels /\ c1.queue = q /\ c1.wire = ch.wire /\ c1.closed = ch.closed
  BY <1>1, <1>3, <1>4 DEF Channels
<1>6. filled.queue = q /\ filled.wire = ch.wire /\ filled.closed = ch.closed
  BY <1>1, <1>2 DEF Channels
<1>7. PICK c2 : c2 = Sse!Pump(c1)
  OBVIOUS
<1>8. PICK j \in Nat : Moves(c1, c2, j)
  BY <1>1, <1>5, <1>7, PumpMoves
<1>9. Moves(filled, c2, j)
  <2>1. filled.queue = c1.queue /\ filled.wire = c1.wire /\ filled.closed = c1.closed
    BY <1>5, <1>6
  <2> QED
    BY <1>8, <2>1 DEF Moves
<1>10. c2 \in Channels /\ Len(c2.wire) <= HighWater /\ Len(c2.queue) \in Nat /\ MaxQueued \in Nat
       /\ Len(c2.wire) \in Nat
  BY <1>8, LenProperties, StreamAssumptions DEF Moves, Channels, Entries
<1>11. Sse!OnEvents(ch, events) = IF Len(c2.queue) > MaxQueued THEN Sse!MarkClosed(c2) ELSE c2
  <2>1. PICK c0 : c0 = [ch EXCEPT !.flowing = TRUE]
    OBVIOUS
  <2>2. c0.queue = ch.queue /\ ~c0.closed /\ [c0 EXCEPT !.queue = @ \o events] = c1
    BY <1>1, <1>2, <1>4, <2>1 DEF Channels
  <2>3. Sse!OnEvents(ch, events) = Sse!EnqueueAll(c0, events)
    BY <2>1 DEF Sse!OnEvents
  <2> QED
    BY <1>7, <2>2, <2>3 DEF Sse!EnqueueAll
<1>12. CASE Len(c2.queue) > MaxQueued
  <2>1. PICK c3 : c3 = Sse!MarkClosed(c2)
    OBVIOUS
  <2>2. ChannelOK(c3) /\ c3.closed /\ c3.queue = << >> /\ c3.wire = c2.wire /\ c3 \in Channels
    BY <1>10, <2>1, CloseMoves DEF ChannelOK
  <2>3. Moves(filled, c3, j)
    <3>1. Len(c3.queue) = 0 /\ Len(filled.queue) \in Nat
      BY <1>3, <1>6, <2>2, LenProperties DEF Entries
    <3>2. /\ j <= Len(filled.queue) /\ Len(c2.wire) = Len(filled.wire) + j
          /\ \A i \in 1 .. Len(filled.wire) : c2.wire[i] = filled.wire[i]
          /\ \A i \in 1 .. j : c2.wire[Len(filled.wire) + i] = filled.queue[i]
          /\ \A i \in 1 .. j : IsEnd(filled.queue[i]) => i = j
      BY <1>9 DEF Moves
    <3>3. Len(c3.queue) <= Len(filled.queue) /\ Len(c3.wire) <= HighWater
      BY <1>10, <2>2, <3>1
    <3> QED
      BY <2>2, <3>2, <3>3 DEF Moves
  <2> QED
    BY <1>11, <1>12, <2>1, <2>2, <2>3
<1>13. CASE ~(Len(c2.queue) > MaxQueued)
  <2>1. ChannelOK(c2)
    BY <1>10, <1>13 DEF ChannelOK
  <2> QED
    BY <1>9, <1>11, <1>13, <2>1
<1> QED
  BY <1>12, <1>13

(***************************************************************************)
(* What a channel carries: from x on, the history h, as far as n at most.  *)
(* Behind the end of the run anything may be queued; the pump does not get *)
(* there.                                                                  *)
(***************************************************************************)
Carries(ch, h, n, ended, x) ==
  /\ \A i \in 1 .. Len(ch.wire) : ch.wire[i] = h[x + i]
  /\ x + Len(ch.wire) <= n
  /\ \A i \in 1 .. Len(ch.queue) :
       (x + Len(ch.wire)) + i <= Len(h) => ch.queue[i] = h[(x + Len(ch.wire)) + i]
  /\ \/ (x + Len(ch.wire)) + Len(ch.queue) <= n
     \/ ended /\ n = Len(h) /\ x + Len(ch.wire) < n

(* A channel that stays open loses nothing.                                *)
LEMMA MovesAll ==
  ASSUME NEW ch, Len(ch.wire) \in Nat, Len(ch.queue) \in Nat, NEW j \in Nat, NEW ch2,
         Moves(ch, ch2, j)
  PROVE  /\ ch.closed => ch2.closed
         /\ ~ch2.closed => Len(ch2.wire) + Len(ch2.queue) = Len(ch.wire) + Len(ch.queue)
<1>1. Len(ch2.queue) \in Nat
  BY LenProperties DEF Moves, Channels, Entries
<1>2. /\ Len(ch2.wire) = Len(ch.wire) + j
      /\ ch2.closed \/ (ch2.closed = ch.closed /\ Len(ch.queue) = j + Len(ch2.queue))
  BY DEF Moves
<1>3. ch.closed => ch2.closed
  BY <1>2, Zenon
<1>4. ASSUME ~ch2.closed PROVE Len(ch.queue) = j + Len(ch2.queue)
  BY <1>2, <1>4, Zenon
<1>5. ASSUME ~ch2.closed PROVE Len(ch2.wire) + Len(ch2.queue) = Len(ch.wire) + Len(ch.queue)
  <2>1. PICK w \in Nat, q \in Nat : w = Len(ch.wire) /\ q = Len(ch.queue)
    OBVIOUS
  <2>2. PICK q2 \in Nat : q2 = Len(ch2.queue)
    BY <1>1
  <2>3. Len(ch2.wire) = w + j
    BY <1>2, <2>1
  <2>4. q = j + q2
    BY <1>4, <1>5, <2>1, <2>2, Zenon
  <2>5. (w + j) + q2 = w + q
    BY <2>4
  <2> QED
    BY <2>1, <2>2, <2>3, <2>5
<1> QED
  BY <1>3, <1>5

LEMMA MovesCarries ==
  ASSUME NEW h, NEW ended, HistoryOK(h, ended), NEW n \in Nat, n <= Len(h), NEW x \in Nat,
         NEW ch, Len(ch.wire) \in Nat, Len(ch.queue) \in Nat, Carries(ch, h, n, ended, x),
         NEW j \in Nat, NEW ch2, Moves(ch, ch2, j)
  PROVE  Carries(ch2, h, n, ended, x)
<1>1. PICK w, q, w2, q2 : w = ch.wire /\ q = ch.queue /\ w2 = ch2.wire /\ q2 = ch2.queue
  OBVIOUS
<1>2. PICK lw \in Nat : lw = Len(w)
  BY <1>1
<1>3. PICK lq \in Nat : lq = Len(q)
  BY <1>1
<1>4. /\ ch2 \in Channels /\ j <= lq /\ Len(w2) = lw + j
      /\ \A i \in 1 .. lw : w2[i] = w[i]
      /\ \A i \in 1 .. j : w2[lw + i] = q[i]
      /\ \A i \in 1 .. j : IsEnd(q[i]) => i = j /\ ch2.closed /\ q2 = << >>
  BY <1>1, <1>2, <1>3 DEF Moves
<1>5. Len(h) \in Nat /\ Len(q2) \in Nat /\ n <= Len(h)
  BY <1>1, <1>4, LenProperties DEF HistoryOK, Channels, Entries
<1>6. /\ \A i \in 1 .. lw : w[i] = h[x + i]
      /\ x + lw <= n
      /\ \A i \in 1 .. lq : (x + lw) + i <= Len(h) => q[i] = h[(x + lw) + i]
      /\ (x + lw) + lq <= n \/ (ended /\ n = Len(h) /\ x + lw < n)
  BY <1>1, <1>2, <1>3 DEF Carries
<1>7. (x + lw) + j <= n
  <2>1. CASE (x + lw) + lq <= n
    BY <1>4, <1>5, <2>1
  <2>2. CASE ended /\ n = Len(h) /\ x + lw < n
    <3>1. PICK d \in Nat : (x + lw) + d = n
      <4>1. n - (x + lw) \in Nat /\ (x + lw) + (n - (x + lw)) = n
        BY <2>2
      <4> QED
        BY <4>1
    <3>2. SUFFICES ASSUME d < j PROVE FALSE
      BY <1>5, <3>1
    <3>3. d \in 1 .. j /\ d \in 1 .. lq /\ d # j
      BY <1>4, <2>2, <3>1, <3>2
    <3>4. q[d] = h[Len(h)]
      BY <1>6, <2>2, <3>1, <3>3
    <3>5. IsEnd(h[Len(h)])
      <4>1. Len(h) \in 1 .. Len(h)
        BY <1>5 DEF HistoryOK
      <4> QED
        BY <2>2, <4>1 DEF HistoryOK
    <3> QED
      BY <1>4, <3>3, <3>4, <3>5
  <2> QED
    BY <1>6, <2>1, <2>2
<1>8. ASSUME NEW i \in 1 .. Len(w2) PROVE w2[i] = h[x + i]
  <2>1. CASE i <= lw
    BY <1>4, <1>6, <2>1
  <2>2. CASE ~(i <= lw)
    <3>1. PICK k \in Nat : i = lw + k
      <4>1. i - lw \in Nat /\ i = lw + (i - lw)
        BY <1>4, <2>2
      <4> QED
        BY <4>1
    <3>2. k \in 1 .. j /\ k \in 1 .. lq
      BY <1>4, <2>2, <3>1
    <3>3. (x + lw) + k <= Len(h) /\ x + i = (x + lw) + k
      BY <1>5, <1>7, <3>1, <3>2
    <3> QED
      BY <1>4, <1>6, <3>1, <3>2, <3>3
  <2> QED
    BY <2>1, <2>2
<1>9. x + Len(w2) <= n
  BY <1>4, <1>7
<1>10. CASE ch2.closed /\ q2 = << >>
  <2>1. Len(q2) = 0
    BY <1>10
  <2>2. (x + Len(w2)) + Len(q2) <= n
    BY <1>4, <1>9, <2>1
  <2>3. \A i \in 1 .. Len(q2) : (x + Len(w2)) + i <= Len(h) => q2[i] = h[(x + Len(w2)) + i]
    BY <2>1
  <2> QED
    BY <1>1, <1>8, <1>9, <1>10, <2>2, <2>3 DEF Carries
<1>11. CASE lq = j + Len(q2) /\ \A i \in 1 .. Len(q2) : q2[i] = q[j + i]
  <2>1. ASSUME NEW i \in 1 .. Len(q2), (x + Len(w2)) + i <= Len(h)
        PROVE  q2[i] = h[(x + Len(w2)) + i]
    <3>1. PICK k \in Nat : k = Len(q2)
      BY <1>5
    <3>2. i \in 1 .. k /\ lq = j + k
      BY <1>11, <3>1
    <3>3. j + i \in 1 .. lq
      BY <3>2
    <3>4. (x + lw) + (j + i) = (x + Len(w2)) + i
      BY <1>4, <3>2
    <3>5. q[j + i] = h[(x + lw) + (j + i)]
      BY <1>6, <2>1, <3>3, <3>4
    <3> QED
      BY <1>11, <3>4, <3>5
  <2>2. (x + Len(w2)) + Len(q2) = (x + lw) + lq
    BY <1>4, <1>5, <1>11
  <2>3. (x + Len(w2)) + Len(q2) <= n \/ (ended /\ n = Len(h) /\ x + Len(w2) < n)
    <3>1. CASE (x + lw) + lq <= n
      BY <2>2, <3>1
    <3>2. CASE (ended /\ n = Len(h) /\ x + lw < n) /\ x + Len(w2) < n
      BY <3>2
    <3>3. CASE (ended /\ n = Len(h) /\ x + lw < n) /\ ~(x + Len(w2) < n)
      <4>1. (x + lw) + j = n /\ j # 0
        BY <1>4, <1>7, <3>3
      <4>2. j \in 1 .. lq /\ j \in 1 .. j
        BY <1>4, <4>1
      <4>3. q[j] = h[Len(h)]
        BY <1>5, <1>6, <3>3, <4>1, <4>2
      <4>4. IsEnd(h[Len(h)])
        <5>1. Len(h) \in 1 .. Len(h)
          BY <1>5 DEF HistoryOK
        <5> QED
          BY <3>3, <5>1 DEF HistoryOK
      <4>5. Len(q2) = 0
        <5>1. q2 = << >>
          BY <1>4, <4>2, <4>3, <4>4
        <5> QED
          BY <5>1
      <4> QED
        BY <1>4, <4>1, <4>5
    <3> QED
      BY <1>6, <3>1, <3>2, <3>3
  <2> QED
    BY <1>1, <1>2, <1>3, <1>8, <1>9, <2>1, <2>2, <2>3 DEF Carries
<1>12. \/ ch2.closed /\ q2 = << >>
       \/ lq = j + Len(q2) /\ \A i \in 1 .. Len(q2) : q2[i] = q[j + i]
  BY <1>1, <1>3 DEF Moves
<1> QED
  BY <1>10, <1>11, <1>12

-----------------------------------------------------------------------------
(* Replay, catch-up and closing                                            *)

(* A sequence that is a part of the history h, behind a.                   *)
Spans(s, h, a) == \A i \in 1 .. Len(s) : s[i] = h[a + i]

LEMMA WithoutType ==
  ASSUME NEW events \in Entries, NEW entries
  PROVE  Without(events, entries) \in Entries
<1>1. {i \in 1 .. Len(events) : events[i] \notin ToSet(entries)} \in SUBSET (1 .. Len(events))
  OBVIOUS
<1> QED
  BY <1>1, KeptType DEF Without, Entries

(* What is taken out of one event: the event or nothing.                   *)
LEMMA WithoutOne ==
  ASSUME NEW e, NEW entries
  PROVE  Without(<< e >>, entries) = IF e \in ToSet(entries) THEN << >> ELSE << e >>
<1>1. PICK s : s = << e >>
  OBVIOUS
<1>2. Len(s) = 1 /\ s[1] = e
  BY <1>1
<1>3. PICK P : P = {i \in 1 .. Len(s) : s[i] \notin ToSet(entries)}
  OBVIOUS
<1>4. PICK t : t = Log!Kept(s, P)
  OBVIOUS
<1>5. Without(s, entries) = t
  BY <1>3, <1>4 DEF Without
<1>6. CASE e \in ToSet(entries)
  <2>1. P = 1 + 1 .. Len(s) /\ Len(s) = 1 + 0 /\ Len(s) \in Nat
    BY <1>2, <1>3, <1>6
  <2>2. Rest(s, P, 1, 0)
    BY <2>1 DEF Rest
  <2>3. t = [n \in 1 .. 0 |-> t[n]]
    BY <1>4, <2>2, KeptRest
  <2> QED
    BY <1>1, <1>5, <1>6, <2>3
<1>7. CASE e \notin ToSet(entries)
  <2>1. P = 0 + 1 .. Len(s) /\ Len(s) = 0 + 1 /\ Len(s) \in Nat
    BY <1>2, <1>3, <1>7
  <2>2. Rest(s, P, 0, 1)
    BY <2>1 DEF Rest
  <2>3. PICK k, m : k = 0 /\ m = 1
    OBVIOUS
  <2>4. Rest(s, P, k, m)
    BY <2>2, <2>3
  <2>5. t = [n \in 1 .. m |-> t[n]] /\ \A n \in 1 .. m : t[n] = s[k + n]
    BY <1>4, <2>4, KeptRest
  <2>6. t = << e >>
    BY <1>2, <2>3, <2>5
  <2> QED
    BY <1>1, <1>5, <1>7, <2>6
<1> QED
  BY <1>6, <1>7

(* No two entries of the history are the same.                             *)
LEMMA HistoryDistinct ==
  ASSUME NEW h, NEW ended, HistoryOK(h, ended),
         NEW i \in 1 .. Len(h), NEW j \in 1 .. Len(h), h[i] = h[j]
  PROVE  i = j
<1>1. h[i].id = 0 + i /\ h[j].id = 0 + j
  BY DEF HistoryOK, LogFacts!NumberedFrom
<1>2. i \in Nat /\ j \in Nat
  OBVIOUS
<1> QED
  BY <1>1, <1>2

(***************************************************************************)
(* The replay covers the history from a to m, the buffer from b to n.      *)
(***************************************************************************)
Collected(entries, buffered, h, n, a, b, m) ==
  /\ entries \in Entries /\ buffered \in Entries
  /\ a \in Nat /\ b \in Nat /\ m \in Nat /\ n \in Nat
  /\ a + Len(entries) = m /\ Spans(entries, h, a)
  /\ b + Len(buffered) = n /\ Spans(buffered, h, b)
  /\ b <= m /\ m <= Len(h) /\ n <= Len(h)

(* A replay that reaches back to where buffering began, or further, and    *)
(* the catch-up are the history from a to n.                               *)
LEMMA CaughtUpContinues ==
  ASSUME NEW h, NEW ended, HistoryOK(h, ended), NEW entries, NEW buffered, NEW n,
         NEW a, NEW b, NEW m, Collected(entries, buffered, h, n, a, b, m), a <= b, m <= n,
         NEW caught, caught = CaughtUp(entries, buffered)
  PROVE  caught \in Entries /\ a + Len(caught) = n /\ Spans(caught, h, a)
<1>1. /\ entries \in Entries /\ buffered \in Entries
      /\ a \in Nat /\ b \in Nat /\ m \in Nat /\ n \in Nat
      /\ a + Len(entries) = m /\ b + Len(buffered) = n
      /\ b <= m /\ m <= Len(h) /\ n <= Len(h)
      /\ \A i \in 1 .. Len(entries) : entries[i] = h[a + i]
      /\ \A i \in 1 .. Len(buffered) : buffered[i] = h[b + i]
  BY DEF Collected, Spans
<1>2. PICK le \in Nat : le = Len(entries)
  BY <1>1, LenProperties DEF Entries
<1>3. PICK lb \in Nat : lb = Len(buffered)
  BY <1>1, LenProperties DEF Entries
<1>4. Len(h) \in Nat
  BY LenProperties DEF HistoryOK
<1>5. PICK c \in Nat : b = a + c
  <2>1. b - a \in Nat /\ b = a + (b - a)
    BY <1>1
  <2> QED
    BY <2>1
<1>6. PICK k \in Nat : m = b + k
  <2>1. m - b \in Nat /\ m = b + (m - b)
    BY <1>1
  <2> QED
    BY <2>1
<1>7. PICK d \in Nat : n = m + d
  <2>1. n - m \in Nat /\ n = m + (n - m)
    BY <1>1
  <2> QED
    BY <2>1
<1>8. le = c + k /\ lb = k + d
  BY <1>1, <1>2, <1>3, <1>5, <1>6, <1>7
<1>9. DOMAIN entries = 1 .. le
  BY <1>1, <1>2, LenProperties DEF Entries
<1>10. ASSUME NEW i \in 1 .. lb PROVE buffered[i] \notin ToSet(entries) <=> i > k
  <2>1. buffered[i] = h[b + i] /\ b + i \in 1 .. Len(h)
    BY <1>1, <1>3, <1>4
  <2>2. CASE i <= k
    <3>1. c + i \in 1 .. le /\ a + (c + i) = b + i
      BY <1>1, <1>5, <1>8, <2>2
    <3>2. entries[c + i] = buffered[i]
      BY <1>1, <1>2, <2>1, <3>1
    <3> QED
      BY <1>9, <2>2, <3>1, <3>2 DEF ToSet
  <2>3. CASE i > k
    <3>1. ASSUME NEW l \in 1 .. le PROVE entries[l] # buffered[i]
      <4>1. entries[l] = h[a + l] /\ a + l \in 1 .. Len(h) /\ a + l # b + i
        BY <1>1, <1>2, <1>4, <1>6, <2>3
      <4> QED
        BY <2>1, <4>1, HistoryDistinct
    <3> QED
      BY <1>9, <2>3, <3>1 DEF ToSet
  <2> QED
    BY <2>2, <2>3
<1>11. PICK P : P = {i \in 1 .. lb : buffered[i] \notin ToSet(entries)}
  OBVIOUS
<1>12. P = k + 1 .. Len(buffered)
  BY <1>3, <1>10, <1>11
<1>13. PICK t : t = Log!Kept(buffered, P)
  OBVIOUS
<1>14. t = [i \in 1 .. d |-> t[i]] /\ \A i \in 1 .. d : t[i] = buffered[k + i]
  <2>1. Rest(buffered, P, k, d)
    BY <1>3, <1>8, <1>12 DEF Rest
  <2> QED
    BY <1>13, <2>1, KeptRest
<1>15. caught = entries \o t
  BY <1>3, <1>11, <1>13 DEF CaughtUp, Without
<1>16. t \in Entries /\ Len(t) = d
  <2>1. t \in Entries
    BY <1>1, <1>3, <1>11, <1>13, WithoutType DEF Without
  <2> QED
    BY <1>14, <2>1
<1>17. /\ caught \in Entries /\ Len(caught) = le + d
       /\ \A i \in 1 .. le + d : caught[i] = IF i <= le THEN entries[i] ELSE t[i - le]
  <2>1. entries \in Seq(Log!Entry) /\ t \in Seq(Log!Entry)
    BY <1>1, <1>16 DEF Entries
  <2>2. /\ caught \in Seq(Log!Entry) /\ Len(caught) = Len(entries) + Len(t)
        /\ \A i \in 1 .. Len(entries) + Len(t) :
             caught[i] = IF i <= Len(entries) THEN entries[i] ELSE t[i - Len(entries)]
    BY <1>15, <2>1, ConcatProperties
  <2> QED
    BY <1>2, <1>16, <2>2 DEF Entries
<1>18. ASSUME NEW i \in 1 .. le + d PROVE caught[i] = h[a + i]
  <2>1. CASE i <= le
    BY <1>1, <1>2, <1>17, <2>1
  <2>2. CASE ~(i <= le)
    <3>1. PICK l \in Nat : i = le + l
      <4>1. i - le \in Nat /\ i = le + (i - le)
        BY <2>2
      <4> QED
        BY <4>1
    <3>2. l \in 1 .. d /\ i - le = l /\ k + l \in 1 .. lb
      BY <1>8, <2>2, <3>1
    <3>3. caught[i] = buffered[k + l]
      BY <1>14, <1>17, <2>2, <3>2
    <3>4. buffered[k + l] = h[b + (k + l)]
      BY <1>1, <1>3, <3>2
    <3>5. b + (k + l) = a + i
      BY <1>1, <1>5, <1>8, <3>1
    <3> QED
      BY <3>3, <3>4, <3>5
  <2> QED
    BY <2>1, <2>2
<1>19. a + (le + d) = n
  BY <1>1, <1>5, <1>6, <1>7, <1>8
<1> QED
  BY <1>17, <1>18, <1>19 DEF Spans

(* Any replay comes before the catch-up.                                   *)
LEMMA CaughtUpBegins ==
  ASSUME NEW h, NEW entries \in Entries, NEW buffered \in Entries, NEW a, Spans(entries, h, a),
         NEW caught, caught = CaughtUp(entries, buffered)
  PROVE  /\ caught \in Entries /\ Len(entries) <= Len(caught)
         /\ \A i \in 1 .. Len(entries) : caught[i] = h[a + i]
<1>1. PICK t : t = Without(buffered, entries)
  OBVIOUS
<1>2. t \in Entries
  BY <1>1, WithoutType
<1>3. Len(t) \in Nat /\ Len(entries) \in Nat
  BY <1>2, LenProperties DEF Entries
<1>4. caught = entries \o t
  BY <1>1 DEF CaughtUp
<1>5. /\ caught \in Entries /\ Len(caught) = Len(entries) + Len(t)
      /\ \A i \in 1 .. Len(entries) + Len(t) :
           caught[i] = IF i <= Len(entries) THEN entries[i] ELSE t[i - Len(entries)]
  BY <1>2, <1>4, ConcatProperties DEF Entries
<1>6. ASSUME NEW i \in 1 .. Len(entries) PROVE caught[i] = h[a + i]
  BY <1>3, <1>5 DEF Spans
<1> QED
  BY <1>3, <1>5, <1>6

(***************************************************************************)
(* Events offered to an empty channel: from x on, the history h, as far as *)
(* n; behind the end of the run anything.                                  *)
(***************************************************************************)
Offers(events, h, n, ended, x) ==
  /\ \A i \in 1 .. Len(events) : x + i <= Len(h) => events[i] = h[x + i]
  /\ x <= n
  /\ x + Len(events) <= n \/ (ended /\ n = Len(h) /\ x < n)

(* The run is terminal once its end has been notified.                     *)
Over(st, n, h, ended) == st = "terminal" <=> ended /\ n = Len(h)

(* The replay reaches back to where buffering began, or up to the end.     *)
Reaches(a, b, m, h, ended) == a <= b \/ (ended /\ m = Len(h) /\ a < m)

(* All that was recorded behind a, or, when there is nothing, the end.     *)
Delivers(events, st, h, n, ended, a) ==
  /\ st = "terminal" /\ a = Len(h) => events = << h[Len(h)] >>
  /\ ~(st = "terminal" /\ a = Len(h)) => Offers(events, h, n, ended, a)
  /\ st # "terminal" => a + Len(events) = n

(***************************************************************************)
(* What stream delivers.  A replay that does not reach back to where       *)
(* buffering began is one of an ended run without a cursor: the log was    *)
(* compacted, and its last entry, the end, is part of the replay.          *)
(***************************************************************************)
LEMMA DeliveredEvents ==
  ASSUME NEW h, NEW ended, HistoryOK(h, ended), NEW entries, NEW buffered, NEW n,
         NEW a, NEW b, NEW m, Collected(entries, buffered, h, n, a, b, m), m <= n,
         Reaches(a, b, m, h, ended), NEW st, Over(st, n, h, ended),
         NEW last, st = "terminal" => last = << h[Len(h)] >>,
         NEW caught, caught = CaughtUp(entries, buffered),
         NEW closing, closing = IF st = "terminal" THEN Without(last, caught) ELSE << >>,
         NEW events, events = caught \o closing
  PROVE  events \in Entries /\ Delivers(events, st, h, n, ended, a)
<1> DEFINE terminal == st = "terminal"
<1> USE DEF Over, Reaches, Delivers
<1>1. /\ entries \in Entries /\ buffered \in Entries
      /\ a \in Nat /\ b \in Nat /\ m \in Nat /\ n \in Nat
      /\ a + Len(entries) = m /\ b <= m /\ m <= Len(h) /\ n <= Len(h) /\ a <= m
      /\ Spans(entries, h, a)
  <2>1. Len(entries) \in Nat
    BY LenProperties DEF Collected, Entries
  <2> QED
    BY <2>1 DEF Collected
<1>2. h \in Seq(Log!Entry) /\ Len(h) \in Nat /\ Len(h) > 0 /\ h[Len(h)] \in Log!Entry
  <2>1. h \in Seq(Log!Entry) /\ Len(h) \in Nat /\ Len(h) > 0
    BY LenProperties DEF HistoryOK
  <2>2. Len(h) \in 1 .. Len(h)
    BY <2>1
  <2> QED
    BY <2>1, <2>2, ElementOfSeq
<1>3. caught \in Entries /\ Len(caught) \in Nat /\ DOMAIN caught = 1 .. Len(caught)
  <2>1. caught \in Entries
    BY <1>1, CaughtUpBegins
  <2> QED
    BY <2>1, LenProperties DEF Entries
<1>4. closing = << >> => events = caught
  BY <1>3, ConcatEmptySeq DEF Entries
<1>5. PICK N \in Nat : N = Len(h)
  BY <1>2
<1>6. PICK e : e = h[N]
  OBVIOUS
<1>7. ASSUME NEW i \in 1 .. Len(caught), caught[i] = e PROVE closing = << >>
  <2>1. e \in ToSet(caught)
    BY <1>3, <1>7 DEF ToSet
  <2> QED
    BY <1>5, <1>6, <2>1, WithoutOne
<1>8. CASE a <= b
  <2>1. a + Len(caught) = n /\ \A i \in 1 .. Len(caught) : caught[i] = h[a + i]
    BY <1>8, CaughtUpContinues DEF Spans
  <2>2. CASE ~terminal
    <3>1. events = caught
      BY <1>4, <2>2
    <3> QED
      BY <1>1, <1>3, <2>1, <2>2, <3>1 DEF Offers
  <2>3. CASE terminal /\ a # Len(h)
    <3>1. n = N /\ a + Len(caught) = N /\ a # N
      BY <1>5, <2>1, <2>3
    <3>2. Len(caught) \in 1 .. Len(caught)
      BY <1>1, <1>3, <1>5, <3>1
    <3>3. caught[Len(caught)] = e
      BY <1>6, <2>1, <3>1, <3>2
    <3>4. events = caught
      BY <1>4, <1>7, <3>2, <3>3
    <3>5. a + Len(caught) <= n /\ a <= n
      BY <1>1, <1>3, <2>1
    <3>6. Offers(events, h, n, ended, a)
      BY <2>1, <3>4, <3>5 DEF Offers
    <3> QED
      BY <1>3, <2>3, <3>4, <3>6
  <2>4. CASE terminal /\ a = Len(h)
    <3>1. Len(caught) = 0
      BY <1>1, <1>3, <2>1, <2>4
    <3>2. caught = << >>
      BY <1>3, <3>1, EmptySeq DEF Entries
    <3>3. e \notin ToSet(caught)
      BY <1>3, <3>1 DEF ToSet
    <3>4. closing = << e >>
      BY <1>5, <1>6, <2>4, <3>3, WithoutOne
    <3>5. << e >> \in Seq(Log!Entry)
      BY <1>2, <1>5, <1>6
    <3>6. events = << e >>
      BY <3>2, <3>4, <3>5, ConcatEmptySeq
    <3> QED
      BY <1>5, <1>6, <2>4, <3>5, <3>6 DEF Entries
  <2> QED
    BY <2>2, <2>3, <2>4
<1>9. CASE ended /\ m = Len(h) /\ a < m
  <2>1. /\ Len(entries) <= Len(caught)
        /\ \A i \in 1 .. Len(entries) : caught[i] = h[a + i]
    BY <1>1, CaughtUpBegins
  <2>2. PICK d \in Nat : d = Len(entries)
    BY <1>1, LenProperties DEF Entries
  <2>3. a + d = N /\ d # 0 /\ n = N /\ terminal
    BY <1>1, <1>5, <1>9, <2>2
  <2>4. d \in 1 .. Len(entries) /\ d \in 1 .. Len(caught)
    BY <1>3, <2>1, <2>2, <2>3
  <2>5. caught[d] = e
    BY <1>6, <2>1, <2>3, <2>4
  <2>6. events = caught
    BY <1>4, <1>7, <2>4, <2>5
  <2>7. ASSUME NEW i \in 1 .. Len(caught), a + i <= N PROVE caught[i] = h[a + i]
    <3>1. i \in 1 .. Len(entries)
      BY <1>1, <1>3, <2>2, <2>3, <2>7
    <3> QED
      BY <2>1, <3>1
  <2>8. Offers(events, h, n, ended, a)
    BY <1>1, <1>5, <1>9, <2>3, <2>6, <2>7 DEF Offers
  <2>9. a # Len(h)
    BY <1>1, <1>2, <1>9
  <2> QED
    BY <1>3, <2>3, <2>6, <2>8, <2>9
<1> QED
  BY <1>8, <1>9

(***************************************************************************)
(* A channel nothing has been written to, and what it carries when it is   *)
(* offered events.                                                         *)
(***************************************************************************)
Untouched(ch) == ch.wire = << >> /\ ch.queue = << >> /\ ch.writable

(* Of the events offered, an open channel has lost none.                    *)
Keeps(ch, events) == ~ch.closed => Len(ch.wire) + Len(ch.queue) = Len(events)

LEMMA OfferedIsCarried ==
  ASSUME NEW h, NEW ended, HistoryOK(h, ended), NEW n \in Nat, n <= Len(h), NEW x \in Nat,
         NEW ch, ChannelOK(ch), Untouched(ch), ~ch.closed,
         NEW events \in Entries, events # << >>, Offers(events, h, n, ended, x),
         NEW ch2, ch2 = Sse!OnEvents(ch, events)
  PROVE  ChannelOK(ch2) /\ Carries(ch2, h, n, ended, x) /\ Keeps(ch2, events)
<1>1. PICK filled : filled = [ch EXCEPT !.queue = ch.queue \o events]
  OBVIOUS
<1>2. ch \in Channels /\ ch.queue = << >> /\ ch.wire = << >>
  BY DEF ChannelOK, Untouched
<1>3. ch.queue \o events = events
  BY <1>2, ConcatEmptySeq DEF Entries
<1>4. filled.queue = events /\ filled.wire = << >>
  BY <1>1, <1>2, <1>3 DEF Channels
<1>5. Len(events) \in Nat /\ Len(filled.wire) = 0 /\ Len(filled.queue) = Len(events)
  BY <1>4, LenProperties DEF Entries
<1>6. Carries(filled, h, n, ended, x)
  <2>1. x + 0 = x
    OBVIOUS
  <2> QED
    BY <1>4, <1>5, <2>1 DEF Carries, Offers
<1>7. ChannelOK(ch2)
  BY <1>1, SendMoves
<1>8. PICK j \in Nat : Moves(filled, ch2, j)
  BY <1>1, SendMoves
<1>9. Len(filled.wire) \in Nat /\ Len(filled.queue) \in Nat
  BY <1>5
<1>10. Carries(ch2, h, n, ended, x)
  BY <1>6, <1>8, <1>9, MovesCarries
<1>11. ~ch2.closed => Len(ch2.wire) + Len(ch2.queue) = Len(filled.wire) + Len(filled.queue)
  BY <1>8, <1>9, MovesAll
<1>12. Len(filled.wire) + Len(filled.queue) = Len(events)
  BY <1>5
<1> QED
  BY <1>7, <1>10, <1>11, <1>12 DEF Keeps

-----------------------------------------------------------------------------
(* The inductive invariant                                                 *)

(***************************************************************************)
(* A connection: until the answer is delivered nothing has been written    *)
(* and the subscriber buffers; a live subscriber is one whose log had no   *)
(* gap, and once the handler has returned it owns it and the channel is    *)
(* open.                                                                   *)
(***************************************************************************)
ConnOK(k) ==
  /\ k \in Connections /\ ChannelOK(k.channel)
  /\ k.call \in {"reading", "answered"} =>
       /\ k.sub = "replaying" /\ ~k.owned /\ ~k.refused
       /\ k.answer.kind \in {"ok", "replay-gap"} /\ Untouched(k.channel)
  /\ k.call = "delivered" =>
       /\ k.sub \in {"none", "live"} /\ ~k.owned /\ ~k.refused
       /\ k.answer.kind \in {"ok", "replay-gap"}
       /\ k.answer.kind # "ok" => k.sub = "none" /\ Untouched(k.channel)
  /\ k.call = "returned" =>
       /\ k.sub \in {"none", "live"}
       /\ k.sub = "live" => k.owned /\ ~k.channel.closed
       /\ k.refused => k.sub = "none" /\ Untouched(k.channel)

(* Where the client is; o is the oldest event the log retains.             *)
Position(cl, n, o) ==
  /\ cl \in Clients /\ cl.seen <= n
  /\ cl.cursor # Log!NullCursor => cl.cursor = cl.seen
  /\ cl.cursor = Log!NullCursor => cl.seen = 0 \/ cl.seen + 1 < o

(* Going on behind a, the client skips only what the log has lost.         *)
Fresh(cl, o, a) ==
  /\ cl.seen <= a /\ (a = cl.seen \/ a + 1 <= o)
  /\ cl.cursor # Log!NullCursor => a = cl.cursor

(* The answer of the replay and the buffer, for the client's position; a   *)
(* client that is done does not ask.                                       *)
Collects(k, cl, h, n, ended, o, a, b, m) ==
  /\ ~cl.sawEnd
  /\ Collected(k.answer.entries, k.buffered, h, n, a, b, m)
  /\ a <= b \/ (ended /\ m = Len(h) /\ a < m /\ cl.cursor = Log!NullCursor)
  /\ cl.cursor = Log!NullCursor => a < m
  /\ Fresh(cl, o, a)

(* The answer comes with the notifications up to m.                        *)
ReplayDue(t, c, n, m) ==
  \A p \in 1 .. Len(t) : t[p].op = "replay" /\ t[p].conn = c => m = n + Place(t, p)

Streams(k) == k.sub = "live" /\ ~k.channel.closed

Complete(ch, n, x) == x + (Len(ch.wire) + Len(ch.queue)) = n

(***************************************************************************)
(* What the client's channel carries: it goes on where the client is, and  *)
(* while it streams it is complete.  To a client that has seen everything  *)
(* and is back, the end of the run is repeated.                            *)
(***************************************************************************)
Receives(k, cl, h, n, ended, o, x) ==
  /\ Carries(k.channel, h, n, ended, x)
  /\ \/ Fresh(cl, o, x)
     \/ ended /\ x + 1 = Len(h) /\ cl.seen = Len(h) /\ ~Streams(k) /\ ~cl.sawEnd
  /\ Streams(k) => /\ Complete(k.channel, n, x)
                   /\ cl.cursor = Log!NullCursor => x < Len(h)

Refusing(k)   == k.refused \/ (k.call # "returned" /\ k.answer.kind = "replay-gap")
Collecting(k) == k.call \in {"reading", "answered"} /\ k.answer.kind = "ok"
Receiving(k)  == \/ k.call = "delivered" /\ k.answer.kind = "ok"
                 \/ k.call = "returned" /\ ~k.refused

(* The client cl on its connection k, the one in slot c.                   *)
FeedOK(c, k, cl, h, n, ended, o, t) ==
  /\ Refusing(k) => cl.seen + 1 < o
  /\ Collecting(k) =>
       \E a, b, m \in 0 .. Len(h) :
         /\ Collects(k, cl, h, n, ended, o, a, b, m)
         /\ k.call = "reading" => ReplayDue(t, c, n, m)
         /\ k.call = "answered" => m <= n
  /\ Receiving(k) => \E x \in 0 .. Len(h) : Receives(k, cl, h, n, ended, o, x)

(* The phases of the run.  The driver's burst fits into the log.           *)
PhaseOK(st, e, h, n) ==
  /\ st \in {"running", "finishing", "terminal"}
  /\ st = "running"   => Len(h) <= n + MaxEntries
  /\ st = "finishing" => n < Len(h)
  /\ st = "terminal"  => n = Len(h)
  /\ e = IF st = "terminal" THEN << h[Len(h)] >> ELSE << >>

(* Each connection that reads has its answer outstanding once.             *)
RepliesOK(t, k) ==
  /\ \A p \in 1 .. Len(t) : t[p].op = "replay" => k[t[p].conn].call = "reading"
  /\ \A p, q \in 1 .. Len(t) :
       t[p].op = "replay" /\ t[q].op = "replay" /\ t[p].conn = t[q].conn => p = q

(* The run has ended, though the continuation of its end may be due.       *)
Ended(st, ended) == ended \in BOOLEAN /\ (ended <=> st # "running")

(* The client is done only where the run is.                               *)
DoneOK(cl, h, ended) == cl.sawEnd => ended /\ cl.seen = Len(h)

(***************************************************************************)
(* All of it, for the history h of the run, of which the log retains what  *)
(* begins with o and n entries have been notified.                         *)
(***************************************************************************)
StreamAt(l, st, e, t, k, cl, h, o, n, ended) ==
  /\ h = l.runs[Run].history /\ o = Log!OldestRetainedId(l.runs[Run])
  /\ Ended(st, ended) /\ LogOK(l, ended) /\ TasksOK(t, h, n) /\ PhaseOK(st, e, h, n)
  /\ k \in [Conns -> Connections] /\ \A c \in Conns : ConnOK(k[c])
  /\ RepliesOK(t, k)
  /\ Position(cl, n, o) /\ DoneOK(cl, h, ended)
  /\ \A c \in Conns : cl.conn = c => FeedOK(c, k[c], cl, h, n, ended, o, t)

StreamHolds(l, st, e, t, k, cl) ==
  \E h \in {l.runs[Run].history}, o \in {Log!OldestRetainedId(l.runs[Run])}, ended \in BOOLEAN :
    \E n \in 0 .. Len(h) : StreamAt(l, st, e, t, k, cl, h, o, n, ended)

StreamInv ==
  drops \in 0 .. MaxDrops /\ StreamHolds(log, state, end, tasks, conn, client)

-----------------------------------------------------------------------------
(* What a step of the channel makes of a connection                        *)

Rechanneled(k, k2, ch) ==
  /\ k2 \in Connections /\ k2.channel = ch
  /\ k2.sub = IF ch.closed /\ k.owned THEN "none" ELSE k.sub
  /\ k2.call = k.call /\ k2.answer = k.answer /\ k2.buffered = k.buffered
  /\ k2.owned = k.owned /\ k2.refused = k.refused

LEMMA RechannelIs ==
  ASSUME NEW k \in Connections, NEW ch \in Channels, NEW k2,
         k2 = AfterClose([k EXCEPT !.channel = ch])
  PROVE  Rechanneled(k, k2, ch) /\ k2.cut = k.cut
<1>1. PICK k1 : k1 = [k EXCEPT !.channel = ch]
  OBVIOUS
<1>2. /\ k1 \in Connections /\ k1.channel = ch /\ k1.sub = k.sub /\ k1.call = k.call
      /\ k1.answer = k.answer /\ k1.buffered = k.buffered /\ k1.owned = k.owned
      /\ k1.refused = k.refused /\ k1.cut = k.cut
  BY <1>1 DEF Connections
<1>3. CASE ch.closed /\ k.owned
  <2>1. k2 = [k1 EXCEPT !.sub = "none"]
    BY <1>1, <1>2, <1>3 DEF AfterClose
  <2> QED
    BY <1>2, <1>3, <2>1 DEF Connections, Rechanneled
<1>4. CASE ~(ch.closed /\ k.owned)
  <2>1. k2 = k1
    BY <1>1, <1>2, <1>4 DEF AfterClose
  <2> QED
    BY <1>2, <1>4, <2>1 DEF Rechanneled
<1> QED
  BY <1>3, <1>4

LEMMA RechannelOK ==
  ASSUME NEW k, ConnOK(k), NEW ch, ChannelOK(ch), k.channel.closed => ch.closed,
         Untouched(k.channel) => Untouched(ch) \/ k.sub = "live",
         NEW k2, Rechanneled(k, k2, ch)
  PROVE  ConnOK(k2)
<1>1. k2 \in Connections /\ ChannelOK(k2.channel)
  BY DEF Rechanneled
<1>2. ASSUME k2.call \in {"reading", "answered"}
      PROVE  /\ k2.sub = "replaying" /\ ~k2.owned /\ ~k2.refused
             /\ k2.answer.kind \in {"ok", "replay-gap"} /\ Untouched(k2.channel)
  BY <1>2 DEF Rechanneled, ConnOK
<1>3. ASSUME k2.call = "delivered"
      PROVE  /\ k2.sub \in {"none", "live"} /\ ~k2.owned /\ ~k2.refused
             /\ k2.answer.kind \in {"ok", "replay-gap"}
             /\ k2.answer.kind # "ok" => k2.sub = "none" /\ Untouched(k2.channel)
  BY <1>3 DEF Rechanneled, ConnOK
<1>4. ASSUME k2.call = "returned"
      PROVE  /\ k2.sub \in {"none", "live"}
             /\ k2.sub = "live" => k2.owned /\ ~k2.channel.closed
             /\ k2.refused => k2.sub = "none" /\ Untouched(k2.channel)
  BY <1>4 DEF Rechanneled, ConnOK
<1> QED
  BY <1>1, <1>2, <1>3, <1>4 DEF ConnOK

(* Pumping, opening and closing take the client nothing.                   *)
LEMMA RechannelFeed ==
  ASSUME NEW h, NEW ended, HistoryOK(h, ended), NEW n \in Nat, n <= Len(h),
         NEW c, NEW cl, NEW o, NEW t, NEW k, ConnOK(k), FeedOK(c, k, cl, h, n, ended, o, t),
         NEW j \in Nat, NEW ch, Moves(k.channel, ch, j), NEW k2, Rechanneled(k, k2, ch)
  PROVE  FeedOK(c, k2, cl, h, n, ended, o, t)
<1>1. /\ k2.channel = ch /\ k2.call = k.call /\ k2.answer = k.answer
      /\ k2.buffered = k.buffered /\ k2.refused = k.refused
      /\ k2.sub \in {k.sub, "none"}
  BY DEF Rechanneled
<1>2. Refusing(k2) => cl.seen + 1 < o
  BY <1>1 DEF Refusing, FeedOK
<1>3. ASSUME Collecting(k2)
      PROVE  \E a, b, m \in 0 .. Len(h) :
               /\ Collects(k2, cl, h, n, ended, o, a, b, m)
               /\ k2.call = "reading" => ReplayDue(t, c, n, m)
               /\ k2.call = "answered" => m <= n
  <2>1. PICK a, b, m \in 0 .. Len(h) :
          /\ Collects(k, cl, h, n, ended, o, a, b, m)
          /\ k.call = "reading" => ReplayDue(t, c, n, m)
          /\ k.call = "answered" => m <= n
    BY <1>1, <1>3 DEF FeedOK, Collecting
  <2>2. Collects(k2, cl, h, n, ended, o, a, b, m)
    BY <1>1, <2>1 DEF Collects
  <2> QED
    BY <1>1, <2>1, <2>2
<1>4. ASSUME Receiving(k2)
      PROVE  \E x \in 0 .. Len(h) : Receives(k2, cl, h, n, ended, o, x)
  <2>1. PICK x \in 0 .. Len(h) : Receives(k, cl, h, n, ended, o, x)
    BY <1>1, <1>4 DEF FeedOK, Receiving
  <2>2. Len(k.channel.wire) \in Nat /\ Len(k.channel.queue) \in Nat /\ x \in Nat
    BY LenProperties DEF ConnOK, ChannelOK, Channels, Entries
  <2>3. Carries(ch, h, n, ended, x)
    BY <2>1, <2>2, MovesCarries DEF Receives
  <2>4. Streams(k2) => Streams(k) /\ ~ch.closed
    <3>1. k.channel.closed => ch.closed
      BY <2>2, MovesAll
    <3> QED
      BY <1>1, <3>1 DEF Streams
  <2>5. ~ch.closed => Len(ch.wire) + Len(ch.queue) = Len(k.channel.wire) + Len(k.channel.queue)
    BY <2>2, MovesAll
  <2>6. Receives(k2, cl, h, n, ended, o, x)
    BY <1>1, <2>1, <2>3, <2>4, <2>5 DEF Receives, Complete
  <2> QED
    BY <2>6
<1> QED
  BY <1>2, <1>3, <1>4 DEF FeedOK

-----------------------------------------------------------------------------
(* What steps of the run make of the client's connection                   *)

LEMMA DueAppended ==
  ASSUME NEW t, NEW task, NEW u, Appended(u, t, task), task.op # "replay",
         NEW c, NEW n, NEW m, ReplayDue(t, c, n, m)
  PROVE  ReplayDue(u, c, n, m)
<1>1. OneMore(u, t, task)
  BY AppendPlaces
<1>2. ASSUME NEW p \in 1 .. Len(u), u[p].op = "replay", u[p].conn = c
      PROVE  m = n + Place(u, p)
  <2>1. p \in 1 .. Len(t)
    BY <1>1, <1>2 DEF OneMore
  <2>2. Place(u, p) = Place(t, p) /\ u[p] = t[p]
    BY <1>1, <2>1 DEF OneMore
  <2> QED
    BY <1>2, <2>1, <2>2 DEF ReplayDue
<1> QED
  BY <1>2 DEF ReplayDue

LEMMA DueNotified ==
  ASSUME NEW t \in Seq(Tasks), t # << >>, Head(t).op # "replay",
         NEW c, NEW n \in Nat, NEW m, ReplayDue(t, c, n, m)
  PROVE  ReplayDue(Tail(t), c, n + 1, m)
<1>1. PICK u : u = Tail(t)
  OBVIOUS
<1>2. /\ u \in Seq(Tasks) /\ Len(t) = Len(u) + 1 /\ Len(u) \in Nat
      /\ \A p \in 1 .. Len(u) : u[p] = t[p + 1]
      /\ \A p \in Nat : Place(t, p + 1) = Place(u, p) + 1
  BY <1>1, TailPlaces
<1>3. ASSUME NEW p \in 1 .. Len(u), u[p].op = "replay", u[p].conn = c
      PROVE  m = (n + 1) + Place(u, p)
  <2>1. p + 1 \in 1 .. Len(t) /\ u[p] = t[p + 1]
    BY <1>2
  <2>2. m = n + Place(t, p + 1)
    BY <1>3, <2>1 DEF ReplayDue
  <2>3. Place(t, p + 1) = Place(u, p) + 1 /\ Place(u, p) \in Nat
    BY <1>2, PlaceBound
  <2> QED
    BY <2>2, <2>3
<1> QED
  BY <1>1, <1>3 DEF ReplayDue

LEMMA DueAnswered ==
  ASSUME NEW t \in Seq(Tasks), t # << >>, Head(t).op = "replay",
         NEW c, NEW n \in Nat, NEW m, ReplayDue(t, c, n, m)
  PROVE  /\ ReplayDue(Tail(t), c, n, m)
         /\ Head(t).conn = c => m = n
<1>1. PICK u : u = Tail(t)
  OBVIOUS
<1>2. /\ u \in Seq(Tasks) /\ Len(t) = Len(u) + 1 /\ Len(u) \in Nat
      /\ \A p \in 1 .. Len(u) : u[p] = t[p + 1]
      /\ \A p \in Nat : Place(t, p + 1) = Place(u, p)
      /\ Head(t) = t[1]
  BY <1>1, TailPlaces
<1>3. ASSUME NEW p \in 1 .. Len(u), u[p].op = "replay", u[p].conn = c
      PROVE  m = n + Place(u, p)
  <2>1. p + 1 \in 1 .. Len(t) /\ u[p] = t[p + 1] /\ Place(t, p + 1) = Place(u, p)
    BY <1>2
  <2> QED
    BY <1>3, <2>1 DEF ReplayDue
<1>4. ASSUME Head(t).conn = c PROVE m = n
  <2>1. Place(u, 0) = 0
    BY <1>2, AppendsWithin, BelowZero DEF Place
  <2>2. Place(t, 0 + 1) = 0
    BY <1>2, <2>1
  <2>3. Place(t, 1) = 0
    BY <2>2
  <2>4. 1 \in 1 .. Len(t) /\ t[1].op = "replay" /\ t[1].conn = c
    <3>1. 1 \in 1 .. Len(t)
      BY <1>2
    <3> QED
      BY <1>2, <1>4, <3>1
  <2>5. m = n + Place(t, 1)
    BY <2>4 DEF ReplayDue
  <2> QED
    BY <2>3, <2>5
<1> QED
  BY <1>1, <1>3, <1>4 DEF ReplayDue

(* One more entry of a run that goes on.                                   *)
LEMMA FeedRecorded ==
  ASSUME NEW h, HistoryOK(h, FALSE), NEW n \in Nat, n <= Len(h), NEW entry \in Log!Entry,
         NEW h2, h2 = Append(h, entry), NEW ended2, NEW o \in Nat, NEW o2 \in Nat, o <= o2,
         NEW t, NEW task, NEW u, Appended(u, t, task), task.op # "replay",
         NEW c, NEW cl \in Clients, NEW k, ConnOK(k), FeedOK(c, k, cl, h, n, FALSE, o, t)
  PROVE  FeedOK(c, k, cl, h2, n, ended2, o2, u)
<1>1. /\ Len(h) \in Nat /\ Len(h2) = Len(h) + 1 /\ \A i \in 1 .. Len(h) : h2[i] = h[i]
  BY AppendProperties, LenProperties DEF HistoryOK
<1>2. cl.seen \in Nat
  BY DEF Clients
<1>3. \A a \in Nat : Fresh(cl, o, a) => Fresh(cl, o2, a)
  BY DEF Fresh
<1>4. Refusing(k) => cl.seen + 1 < o2
  BY <1>2 DEF FeedOK
<1>5. ASSUME Collecting(k)
      PROVE  \E a, b, m \in 0 .. Len(h2) :
               /\ Collects(k, cl, h2, n, ended2, o2, a, b, m)
               /\ k.call = "reading" => ReplayDue(u, c, n, m)
               /\ k.call = "answered" => m <= n
  <2>1. PICK a, b, m \in 0 .. Len(h) :
          /\ Collects(k, cl, h, n, FALSE, o, a, b, m)
          /\ k.call = "reading" => ReplayDue(t, c, n, m)
          /\ k.call = "answered" => m <= n
    BY <1>5 DEF FeedOK
  <2>2. Collected(k.answer.entries, k.buffered, h, n, a, b, m)
    BY <2>1 DEF Collects
  <2>3. \A i \in 1 .. Len(k.answer.entries) : a + i \in 1 .. Len(h)
    BY <1>1, <2>2 DEF Collected
  <2>4. \A i \in 1 .. Len(k.buffered) : b + i \in 1 .. Len(h)
    BY <1>1, <2>2 DEF Collected
  <2>5. Collected(k.answer.entries, k.buffered, h2, n, a, b, m)
    BY <1>1, <2>2, <2>3, <2>4 DEF Collected, Spans
  <2>6. Collects(k, cl, h2, n, ended2, o2, a, b, m)
    BY <1>3, <2>1, <2>5 DEF Collects
  <2>7. k.call = "reading" => ReplayDue(u, c, n, m)
    BY <2>1, DueAppended
  <2>8. a \in 0 .. Len(h2) /\ b \in 0 .. Len(h2) /\ m \in 0 .. Len(h2)
    BY <1>1
  <2> QED
    BY <2>1, <2>6, <2>7, <2>8
<1>6. ASSUME Receiving(k)
      PROVE  \E x \in 0 .. Len(h2) : Receives(k, cl, h2, n, ended2, o2, x)
  <2>1. PICK x \in 0 .. Len(h) : Receives(k, cl, h, n, FALSE, o, x)
    BY <1>6 DEF FeedOK
  <2>2. PICK w, q : w = k.channel.wire /\ q = k.channel.queue
    OBVIOUS
  <2>3. Len(w) \in Nat /\ Len(q) \in Nat /\ x \in Nat
    BY <2>2, LenProperties DEF ConnOK, ChannelOK, Channels, Entries
  <2>4. /\ \A i \in 1 .. Len(w) : w[i] = h[x + i]
        /\ x + Len(w) <= n
        /\ \A i \in 1 .. Len(q) : (x + Len(w)) + i <= Len(h) => q[i] = h[(x + Len(w)) + i]
        /\ (x + Len(w)) + Len(q) <= n
    BY <2>1, <2>2 DEF Receives, Carries
  <2>5. \A i \in 1 .. Len(w) : w[i] = h2[x + i]
    <3>1. PICK lw \in Nat : lw = Len(w)
      BY <2>3
    <3>2. \A i \in 1 .. lw : x + i \in 1 .. Len(h)
      BY <1>1, <2>3, <2>4, <3>1
    <3> QED
      BY <1>1, <2>4, <3>1, <3>2
  <2>6. \A i \in 1 .. Len(q) : q[i] = h2[(x + Len(w)) + i]
    <3>1. PICK y \in Nat : y = x + Len(w)
      BY <2>3
    <3>2. \A i \in 1 .. Len(q) : y + i \in 1 .. Len(h)
      BY <1>1, <2>3, <2>4, <3>1
    <3> QED
      BY <1>1, <2>4, <3>1, <3>2
  <2>7. Carries(k.channel, h2, n, ended2, x)
    BY <2>2, <2>4, <2>5, <2>6 DEF Carries
  <2>8. Receives(k, cl, h2, n, ended2, o2, x)
    <3>1. Fresh(cl, o, x) => Fresh(cl, o2, x)
      BY <1>3, <2>3
    <3>2. x < Len(h) => x < Len(h2)
      BY <1>1, <2>3
    <3> QED
      BY <2>1, <2>7, <3>1, <3>2 DEF Receives
  <2>9. x \in 0 .. Len(h2)
    BY <1>1
  <2> QED
    BY <2>8, <2>9
<1> QED
  BY <1>4, <1>5, <1>6 DEF FeedOK

(* The log loses some of its oldest entries.                               *)
LEMMA FeedCompacted ==
  ASSUME NEW h, NEW n, NEW ended, NEW o \in Nat, NEW o2 \in Nat, o <= o2, NEW t, NEW c,
         NEW cl \in Clients, NEW k, FeedOK(c, k, cl, h, n, ended, o, t)
  PROVE  FeedOK(c, k, cl, h, n, ended, o2, t)
<1>1. cl.seen \in Nat
  BY DEF Clients
<1>2. \A a \in Nat : Fresh(cl, o, a) => Fresh(cl, o2, a)
  BY DEF Fresh
<1>3. Refusing(k) => cl.seen + 1 < o2
  BY <1>1 DEF FeedOK
<1>4. ASSUME Collecting(k)
      PROVE  \E a, b, m \in 0 .. Len(h) :
               /\ Collects(k, cl, h, n, ended, o2, a, b, m)
               /\ k.call = "reading" => ReplayDue(t, c, n, m)
               /\ k.call = "answered" => m <= n
  <2>1. PICK a, b, m \in 0 .. Len(h) :
          /\ Collects(k, cl, h, n, ended, o, a, b, m)
          /\ k.call = "reading" => ReplayDue(t, c, n, m)
          /\ k.call = "answered" => m <= n
    BY <1>4 DEF FeedOK
  <2>2. Collects(k, cl, h, n, ended, o2, a, b, m)
    BY <1>2, <2>1 DEF Collects
  <2> QED
    BY <2>1, <2>2
<1>5. ASSUME Receiving(k)
      PROVE  \E x \in 0 .. Len(h) : Receives(k, cl, h, n, ended, o2, x)
  <2>1. PICK x \in 0 .. Len(h) : Receives(k, cl, h, n, ended, o, x)
    BY <1>5 DEF FeedOK
  <2>2. Receives(k, cl, h, n, ended, o2, x)
    <3>1. Fresh(cl, o, x) => Fresh(cl, o2, x)
      BY <1>2
    <3> QED
      BY <2>1, <3>1 DEF Receives
  <2> QED
    BY <2>2
<1> QED
  BY <1>3, <1>4, <1>5 DEF FeedOK

-----------------------------------------------------------------------------
(* Notification                                                            *)

Notified(k, k2, e) ==
  /\ k.sub = "replaying" => k2 = [k EXCEPT !.buffered = Append(k.buffered, e)]
  /\ k.sub = "live" => k2 = AfterClose([k EXCEPT !.channel = Sse!OnEvents(k.channel, << e >>)])
  /\ k.sub \notin {"replaying", "live"} => k2 = k

LEMMA NotifiedBuffers ==
  ASSUME NEW k, k \in Connections, NEW e \in Log!Entry, NEW k2,
         k2 = [k EXCEPT !.buffered = Append(k.buffered, e)]
  PROVE  /\ k2 \in Connections /\ k2.buffered = Append(k.buffered, e)
         /\ k2.channel = k.channel /\ k2.sub = k.sub /\ k2.call = k.call /\ k2.answer = k.answer
         /\ k2.owned = k.owned /\ k2.refused = k.refused /\ k2.cut = k.cut
<1>1. PICK s : s = Append(k.buffered, e)
  OBVIOUS
<1>2. s \in Entries
  BY <1>1, AppendProperties DEF Connections, Entries
<1> QED
  BY <1>1, <1>2 DEF Connections

(* A live subscriber passes the event on.                                  *)
LEMMA NotifiedPasses ==
  ASSUME NEW k, ConnOK(k), k.sub = "live", NEW e \in Log!Entry, NEW k2, Notified(k, k2, e)
  PROVE  \E ch : /\ ch = Sse!OnEvents(k.channel, << e >>) /\ ChannelOK(ch)
                 /\ k.channel.closed => ch = k.channel
                 /\ Rechanneled(k, k2, ch) /\ k2.cut = k.cut
<1>1. PICK ch : ch = Sse!OnEvents(k.channel, << e >>)
  OBVIOUS
<1>2. k \in Connections /\ ChannelOK(k.channel)
  BY DEF ConnOK
<1>3. ASSUME k.channel.closed PROVE ch = k.channel
  BY <1>1, <1>3 DEF Sse!OnEvents
<1>4. ChannelOK(ch)
  <2>1. CASE k.channel.closed
    BY <1>2, <1>3, <2>1
  <2>2. CASE ~k.channel.closed
    <3>1. << e >> \in Entries /\ << e >> # << >>
      BY DEF Entries
    <3>2. PICK filled : filled = [k.channel EXCEPT !.queue = k.channel.queue \o << e >>]
      OBVIOUS
    <3> QED
      BY <1>1, <1>2, <2>2, <3>1, <3>2, SendMoves
  <2> QED
    BY <2>1, <2>2
<1>5. k2 = AfterClose([k EXCEPT !.channel = ch])
  BY <1>1 DEF Notified
<1>6. Rechanneled(k, k2, ch) /\ k2.cut = k.cut
  BY <1>2, <1>4, <1>5, RechannelIs DEF ChannelOK
<1> QED
  BY <1>1, <1>3, <1>4, <1>6

LEMMA NotifiedOK ==
  ASSUME NEW k, ConnOK(k), NEW e \in Log!Entry, NEW k2, Notified(k, k2, e)
  PROVE  ConnOK(k2) /\ k2.call = k.call /\ k2.cut = k.cut
<1>1. k \in Connections /\ k.sub \in {"none", "replaying", "live"}
  BY DEF ConnOK, Connections
<1>2. CASE k.sub = "replaying"
  <2>1. k2 = [k EXCEPT !.buffered = Append(k.buffered, e)]
    BY <1>2 DEF Notified
  <2>2. /\ k2 \in Connections
        /\ k2.channel = k.channel /\ k2.sub = k.sub /\ k2.call = k.call /\ k2.answer = k.answer
        /\ k2.owned = k.owned /\ k2.refused = k.refused /\ k2.cut = k.cut
    BY <1>1, <2>1, NotifiedBuffers
  <2> QED
    BY <2>2 DEF ConnOK
<1>3. CASE k.sub = "live"
  <2>1. PICK ch : /\ ChannelOK(ch)
                  /\ k.channel.closed => ch = k.channel
                  /\ Rechanneled(k, k2, ch) /\ k2.cut = k.cut
    BY <1>3, NotifiedPasses
  <2>2. k.channel.closed => ch.closed
    BY <2>1, Zenon
  <2>3. ConnOK(k2)
    BY <1>3, <2>1, <2>2, RechannelOK
  <2> QED
    BY <2>1, <2>3 DEF Rechanneled
<1>4. CASE k.sub = "none"
  BY <1>4 DEF Notified
<1> QED
  BY <1>1, <1>2, <1>3, <1>4

LEMMA CarriesMore ==
  ASSUME NEW h, NEW ended, NEW n \in Nat, Len(h) \in Nat, n + 1 <= Len(h), NEW ch, NEW x \in Nat,
         Len(ch.wire) \in Nat, Len(ch.queue) \in Nat, Carries(ch, h, n, ended, x)
  PROVE  Carries(ch, h, n + 1, ended, x)
<1>1. PICK lw \in Nat, lq \in Nat : lw = Len(ch.wire) /\ lq = Len(ch.queue)
  OBVIOUS
<1>2. x + lw <= n /\ ((x + lw) + lq <= n \/ n = Len(h))
  BY <1>1 DEF Carries
<1>3. x + lw <= n + 1 /\ (x + lw) + lq <= n + 1
  BY <1>2
<1> QED
  BY <1>1, <1>3 DEF Carries

(* What a live channel carries with one more event.                        *)
LEMMA CarriesNext ==
  ASSUME NEW h, NEW ended, NEW n \in Nat, Len(h) \in Nat, n + 1 <= Len(h), NEW ch \in Channels,
         NEW x \in Nat, Carries(ch, h, n, ended, x), Complete(ch, n, x),
         h[n + 1] \in Log!Entry, NEW filled,
         filled = [ch EXCEPT !.queue = ch.queue \o << h[n + 1] >>]
  PROVE  /\ Carries(filled, h, n + 1, ended, x)
         /\ Len(filled.wire) \in Nat /\ Len(filled.queue) \in Nat
         /\ Complete(filled, n + 1, x)
<1>1. PICK q, w, e : q = ch.queue /\ w = ch.wire /\ e = h[n + 1]
  OBVIOUS
<1>2. q \in Seq(Log!Entry) /\ Len(q) \in Nat /\ Len(w) \in Nat /\ e \in Log!Entry
  BY <1>1, LenProperties DEF Channels, Entries
<1>3. PICK q2 : q2 = q \o << e >>
  OBVIOUS
<1>4. q2 = Append(q, e)
  BY <1>2, <1>3, AppendIsConcat
<1>5. /\ Len(q2) = Len(q) + 1 /\ q2[Len(q) + 1] = e /\ \A i \in 1 .. Len(q) : q2[i] = q[i]
  BY <1>2, <1>4, AppendProperties
<1>6. filled.queue = q2 /\ filled.wire = w
  BY <1>1, <1>3 DEF Channels
<1>7. PICK lw \in Nat, lq \in Nat : lw = Len(w) /\ lq = Len(q)
  BY <1>2
<1>8. /\ \A i \in 1 .. lw : w[i] = h[x + i]
      /\ \A i \in 1 .. lq : (x + lw) + i <= Len(h) => q[i] = h[(x + lw) + i]
      /\ x + (lw + lq) = n
  BY <1>1, <1>7 DEF Carries, Complete
<1>9. ASSUME NEW i \in 1 .. lq + 1 PROVE q2[i] = h[(x + lw) + i]
  <2>1. CASE i \in 1 .. lq
    <3>1. (x + lw) + i <= Len(h)
      BY <1>8, <2>1
    <3> QED
      BY <1>5, <1>7, <1>8, <2>1, <3>1
  <2>2. CASE i = lq + 1
    <3>1. (x + lw) + i = n + 1
      BY <1>8, <2>2
    <3> QED
      BY <1>1, <1>5, <1>7, <2>2, <3>1
  <2> QED
    BY <2>1, <2>2
<1>10. x + lw <= n + 1 /\ (x + lw) + (lq + 1) <= n + 1 /\ x + (lw + (lq + 1)) = n + 1
  BY <1>8
<1>11. Len(filled.wire) = lw /\ Len(filled.queue) = lq + 1
  BY <1>5, <1>6, <1>7
<1>12. Carries(filled, h, n + 1, ended, x)
  BY <1>6, <1>8, <1>9, <1>10, <1>11 DEF Carries
<1>13. Complete(filled, n + 1, x)
  BY <1>10, <1>11 DEF Complete
<1>14. Len(filled.wire) \in Nat /\ Len(filled.queue) \in Nat
  BY <1>11
<1> QED
  BY <1>12, <1>13, <1>14, Zenon

LEMMA NotifiedFeed ==
  ASSUME NEW h, NEW ended, HistoryOK(h, ended), NEW n \in Nat, n + 1 <= Len(h),
         NEW o, NEW t \in Seq(Tasks), t # << >>, Head(t).op # "replay",
         NEW c, NEW cl \in Clients, cl.seen <= n,
         NEW k, ConnOK(k), FeedOK(c, k, cl, h, n, ended, o, t),
         NEW k2, Notified(k, k2, h[n + 1])
  PROVE  FeedOK(c, k2, cl, h, n + 1, ended, o, Tail(t))
<1>1. Len(h) \in Nat /\ h[n + 1] \in Log!Entry
  <2>1. h \in Seq(Log!Entry) /\ Len(h) \in Nat
    BY LenProperties DEF HistoryOK
  <2>2. n + 1 \in 1 .. Len(h)
    BY <2>1
  <2> QED
    BY <2>1, <2>2, ElementOfSeq
<1>2. PICK e : e = h[n + 1]
  OBVIOUS
<1>3. /\ k \in Connections /\ k.sub \in {"none", "replaying", "live"}
      /\ k.sub = "live" => Receiving(k) /\ ~Refusing(k) /\ ~Collecting(k)
      /\ k.sub = "replaying" => ~Receiving(k)
      /\ Collecting(k) => k.sub = "replaying"
  BY DEF ConnOK, Connections, Receiving, Refusing, Collecting
<1>4. /\ Len(k.channel.wire) \in Nat /\ Len(k.channel.queue) \in Nat
      /\ k.channel \in Channels /\ ChannelOK(k.channel)
  BY LenProperties DEF ConnOK, ChannelOK, Channels, Entries
<1>5. CASE k.sub = "replaying"
  <2>1. k2 = [k EXCEPT !.buffered = Append(k.buffered, e)]
    BY <1>2, <1>5 DEF Notified
  <2>2. /\ k2.buffered = Append(k.buffered, e)
        /\ k2.call = k.call /\ k2.answer = k.answer /\ k2.refused = k.refused
    BY <1>1, <1>2, <1>3, <2>1, NotifiedBuffers
  <2>3. Refusing(k2) => cl.seen + 1 < o
    BY <2>2 DEF Refusing, FeedOK
  <2>4. ASSUME Collecting(k2)
        PROVE  \E a, b, m \in 0 .. Len(h) :
                 /\ Collects(k2, cl, h, n + 1, ended, o, a, b, m)
                 /\ k2.call = "reading" => ReplayDue(Tail(t), c, n + 1, m)
                 /\ k2.call = "answered" => m <= n + 1
    <3>1. PICK a, b, m \in 0 .. Len(h) :
            /\ Collects(k, cl, h, n, ended, o, a, b, m)
            /\ k.call = "reading" => ReplayDue(t, c, n, m)
            /\ k.call = "answered" => m <= n
      BY <2>2, <2>4 DEF FeedOK, Collecting
    <3>2. Collected(k.answer.entries, k.buffered, h, n, a, b, m)
      BY <3>1 DEF Collects
    <3>3. /\ k.buffered \in Seq(Log!Entry) /\ b + Len(k.buffered) = n
          /\ \A i \in 1 .. Len(k.buffered) : k.buffered[i] = h[b + i]
          /\ Len(k.buffered) \in Nat /\ b \in Nat
      BY <3>2, LenProperties DEF Collected, Spans, Entries
    <3>4. /\ k2.buffered \in Seq(Log!Entry) /\ Len(k2.buffered) = Len(k.buffered) + 1
          /\ k2.buffered[Len(k.buffered) + 1] = e
          /\ \A i \in 1 .. Len(k.buffered) : k2.buffered[i] = k.buffered[i]
      BY <1>1, <1>2, <2>2, <3>3, AppendProperties
    <3>5. PICK lb \in Nat : lb = Len(k.buffered) /\ b + lb = n /\ b \in Nat
      BY <3>3
    <3>6. ASSUME NEW i \in 1 .. lb + 1 PROVE k2.buffered[i] = h[b + i]
      <4>1. CASE i \in 1 .. lb
        BY <3>3, <3>4, <3>5, <4>1
      <4>2. CASE i = lb + 1
        <5>1. b + i = n + 1
          BY <3>3, <3>5, <4>2
        <5> QED
          BY <1>2, <3>4, <3>5, <4>2, <5>1
      <4> QED
        BY <4>1, <4>2
    <3>7. b + (lb + 1) = n + 1 /\ Len(k2.buffered) = lb + 1
      <4>1. b + (lb + 1) = n + 1
        BY <3>5
      <4> QED
        BY <3>4, <3>5, <4>1
    <3>8. Collected(k2.answer.entries, k2.buffered, h, n + 1, a, b, m)
      <4>1. k2.buffered \in Entries /\ b + Len(k2.buffered) = n + 1 /\ Spans(k2.buffered, h, b)
        BY <3>4, <3>6, <3>7 DEF Spans, Entries
      <4> QED
        BY <2>2, <3>2, <4>1 DEF Collected
    <3>9. Collects(k2, cl, h, n + 1, ended, o, a, b, m)
      BY <3>1, <3>8 DEF Collects
    <3>10. k2.call = "reading" => ReplayDue(Tail(t), c, n + 1, m)
      BY <2>2, <3>1, DueNotified
    <3>11. k2.call = "answered" => m <= n + 1
      BY <2>2, <3>1
    <3> QED
      BY <3>9, <3>10, <3>11
  <2>5. ~Receiving(k2)
    BY <1>3, <1>5, <2>2 DEF Receiving
  <2> QED
    BY <2>3, <2>4, <2>5 DEF FeedOK
<1>6. CASE k.sub = "live"
  <2>1. PICK ch : /\ ch = Sse!OnEvents(k.channel, << e >>) /\ ChannelOK(ch)
                  /\ k.channel.closed => ch = k.channel
                  /\ Rechanneled(k, k2, ch)
    BY <1>1, <1>2, <1>6, NotifiedPasses
  <2>2. /\ k2.channel = ch /\ k2.call = k.call /\ k2.answer = k.answer /\ k2.refused = k.refused
        /\ k2.sub \in {k.sub, "none"}
    BY <2>1 DEF Rechanneled
  <2>3. ~Refusing(k2) /\ ~Collecting(k2)
    BY <1>3, <1>6, <2>2 DEF Refusing, Collecting
  <2>4. PICK x \in 0 .. Len(h) : Receives(k, cl, h, n, ended, o, x)
    BY <1>3, <1>6 DEF FeedOK
  <2>5. x \in Nat /\ Carries(k.channel, h, n, ended, x)
    BY <2>4 DEF Receives
  <2>6. CASE k.channel.closed
    <3>1. k2.channel = k.channel /\ ~Streams(k) /\ ~Streams(k2)
      BY <2>1, <2>2, <2>6 DEF Streams
    <3>2. Carries(k2.channel, h, n + 1, ended, x)
      BY <1>1, <1>4, <2>5, <3>1, CarriesMore
    <3>3. Receives(k2, cl, h, n + 1, ended, o, x)
      BY <2>4, <3>1, <3>2 DEF Receives
    <3> QED
      BY <2>3, <3>3 DEF FeedOK
  <2>7. CASE ~k.channel.closed
    <3>1. Streams(k)
      BY <1>6, <2>7 DEF Streams
    <3>2. /\ Complete(k.channel, n, x)
          /\ cl.cursor = Log!NullCursor => x < Len(h)
          /\ Fresh(cl, o, x)
      BY <2>4, <3>1 DEF Receives
    <3>3. PICK filled : filled = [k.channel EXCEPT !.queue = k.channel.queue \o << e >>]
      OBVIOUS
    <3>4. /\ Carries(filled, h, n + 1, ended, x)
          /\ Len(filled.wire) \in Nat /\ Len(filled.queue) \in Nat
          /\ Complete(filled, n + 1, x)
      <4>1. filled = [k.channel EXCEPT !.queue = k.channel.queue \o << h[n + 1] >>]
        BY <1>2, <3>3
      <4>2. Carries(filled, h, n + 1, ended, x)
        BY <1>1, <1>4, <2>5, <3>2, <4>1, CarriesNext
      <4>3. Len(filled.wire) \in Nat /\ Len(filled.queue) \in Nat
        BY <1>1, <1>4, <2>5, <3>2, <4>1, CarriesNext
      <4>4. Complete(filled, n + 1, x)
        BY <1>1, <1>4, <2>5, <3>2, <4>1, CarriesNext
      <4> QED
        BY <4>2, <4>3, <4>4
    <3>5. PICK j \in Nat : Moves(filled, ch, j)
      <4>1. << e >> \in Entries /\ << e >> # << >>
        BY <1>1, <1>2 DEF Entries
      <4> QED
        BY <1>4, <2>1, <2>7, <3>3, <4>1, SendMoves
    <3>6. Carries(ch, h, n + 1, ended, x)
      <4>1. n + 1 \in Nat
        OBVIOUS
      <4> QED
        BY <2>5, <3>4, <3>5, <4>1, MovesCarries
    <3>7. ~ch.closed => Len(ch.wire) + Len(ch.queue) = Len(filled.wire) + Len(filled.queue)
      BY <3>4, <3>5, MovesAll
    <3>8. Receives(k2, cl, h, n + 1, ended, o, x)
      BY <2>2, <3>2, <3>4, <3>6, <3>7 DEF Receives, Streams, Complete
    <3> QED
      BY <2>3, <3>8 DEF FeedOK
  <2> QED
    BY <2>6, <2>7
<1>7. CASE k.sub = "none"
  <2>1. k2 = k
    BY <1>7 DEF Notified
  <2>2. Refusing(k) => cl.seen + 1 < o
    BY DEF FeedOK
  <2>3. ASSUME Receiving(k)
        PROVE  \E x \in 0 .. Len(h) : Receives(k, cl, h, n + 1, ended, o, x)
    <3>1. PICK x \in 0 .. Len(h) : Receives(k, cl, h, n, ended, o, x)
      BY <2>3 DEF FeedOK
    <3>2. x \in Nat /\ Carries(k.channel, h, n, ended, x) /\ ~Streams(k)
      BY <1>7, <3>1 DEF Receives, Streams
    <3>3. Carries(k.channel, h, n + 1, ended, x)
      BY <1>1, <1>4, <3>2, CarriesMore
    <3>4. Receives(k, cl, h, n + 1, ended, o, x)
      BY <3>1, <3>2, <3>3 DEF Receives
    <3> QED
      BY <3>4
  <2>4. ~Collecting(k)
    BY <1>3, <1>7
  <2> QED
    BY <2>1, <2>2, <2>3, <2>4 DEF FeedOK
<1> QED
  BY <1>3, <1>5, <1>6, <1>7

-----------------------------------------------------------------------------
(* The answer of a replay                                                  *)

LEMMA AnsweredOK ==
  ASSUME NEW k, ConnOK(k), k.call = "reading", NEW k2, k2 = [k EXCEPT !.call = "answered"]
  PROVE  /\ ConnOK(k2) /\ k2.channel = k.channel /\ k2.answer = k.answer
         /\ k2.buffered = k.buffered /\ k2.refused = k.refused /\ k2.call = "answered"
<1>1. k \in Connections
  BY DEF ConnOK
<1>2. /\ k2 \in Connections /\ k2.channel = k.channel /\ k2.answer = k.answer
      /\ k2.buffered = k.buffered /\ k2.refused = k.refused /\ k2.call = "answered"
      /\ k2.sub = k.sub /\ k2.owned = k.owned
  BY <1>1 DEF Connections
<1> QED
  BY <1>2 DEF ConnOK

LEMMA AnsweredFeed ==
  ASSUME NEW h, NEW ended, NEW n \in Nat, NEW o, NEW t \in Seq(Tasks), t # << >>,
         Head(t).op = "replay", NEW c, NEW cl, NEW k, ConnOK(k),
         FeedOK(c, k, cl, h, n, ended, o, t), NEW k2,
         IF Head(t).conn = c THEN k.call = "reading" /\ k2 = [k EXCEPT !.call = "answered"]
                             ELSE k2 = k
  PROVE  FeedOK(c, k2, cl, h, n, ended, o, Tail(t))
<1>1. CASE Head(t).conn = c
  <2>1. k.call = "reading" /\ k2 = [k EXCEPT !.call = "answered"]
    BY <1>1
  <2>2. /\ k2.channel = k.channel /\ k2.answer = k.answer
        /\ k2.buffered = k.buffered /\ k2.refused = k.refused /\ k2.call = "answered"
    BY <2>1, AnsweredOK
  <2>3. Refusing(k2) => cl.seen + 1 < o
    BY <2>1, <2>2 DEF Refusing, FeedOK
  <2>4. ~Receiving(k2)
    BY <2>2 DEF Receiving
  <2>5. ASSUME Collecting(k2)
        PROVE  \E a, b, m \in 0 .. Len(h) :
                 /\ Collects(k2, cl, h, n, ended, o, a, b, m)
                 /\ k2.call = "reading" => ReplayDue(Tail(t), c, n, m)
                 /\ k2.call = "answered" => m <= n
    <3>1. PICK a, b, m \in 0 .. Len(h) :
            Collects(k, cl, h, n, ended, o, a, b, m) /\ ReplayDue(t, c, n, m)
      BY <2>1, <2>2, <2>5 DEF FeedOK, Collecting
    <3>2. m = n
      BY <1>1, <3>1, DueAnswered
    <3>3. Collects(k2, cl, h, n, ended, o, a, b, m)
      BY <2>2, <3>1 DEF Collects
    <3> QED
      BY <2>2, <3>2, <3>3
  <2> QED
    BY <2>3, <2>4, <2>5 DEF FeedOK
<1>2. CASE Head(t).conn # c
  <2>1. k2 = k
    BY <1>2
  <2>2. ASSUME Collecting(k)
        PROVE  \E a, b, m \in 0 .. Len(h) :
                 /\ Collects(k, cl, h, n, ended, o, a, b, m)
                 /\ k.call = "reading" => ReplayDue(Tail(t), c, n, m)
                 /\ k.call = "answered" => m <= n
    <3>1. PICK a, b, m \in 0 .. Len(h) :
            /\ Collects(k, cl, h, n, ended, o, a, b, m)
            /\ k.call = "reading" => ReplayDue(t, c, n, m)
            /\ k.call = "answered" => m <= n
      BY <2>2 DEF FeedOK
    <3>2. k.call = "reading" => ReplayDue(Tail(t), c, n, m)
      BY <3>1, DueAnswered
    <3> QED
      BY <3>1, <3>2
  <2> QED
    BY <2>1, <2>2 DEF FeedOK
<1> QED
  BY <1>1, <1>2

-----------------------------------------------------------------------------
(* Delivery                                                                *)

(* What Deliver makes of a connection; st and e are state and end.         *)
Delivered(k, k2, st, e) ==
  LET caughtUp == CaughtUp(k.answer.entries, k.buffered)
      closing  == IF st = "terminal" THEN Without(e, caughtUp) ELSE << >>
      settled  == [k EXCEPT !.buffered = << >>, !.call = "delivered"]
  IN  k2 = IF k.answer.kind # "ok"
             THEN [settled EXCEPT !.sub = "none"]
             ELSE [settled EXCEPT !.channel = Sse!OnEvents(@, caughtUp \o closing),
                                  !.sub = IF st = "terminal" THEN "none" ELSE "live"]

DeliveredFields(k, k2, st, ch) ==
  /\ k2 \in Connections /\ k2.channel = ch /\ k2.call = "delivered" /\ k2.answer = k.answer
  /\ k2.owned = k.owned /\ k2.refused = k.refused /\ k2.cut = k.cut
  /\ k2.sub = IF k.answer.kind = "ok" /\ st # "terminal" THEN "live" ELSE "none"

LEMMA DeliveredIs ==
  ASSUME NEW k, ConnOK(k), k.call = "answered", NEW st, NEW e \in Entries,
         NEW k2, Delivered(k, k2, st, e)
  PROVE  IF k.answer.kind # "ok"
           THEN DeliveredFields(k, k2, st, k.channel)
           ELSE \E caughtUp, closing, events, ch :
                  /\ caughtUp = CaughtUp(k.answer.entries, k.buffered)
                  /\ closing = IF st = "terminal" THEN Without(e, caughtUp) ELSE << >>
                  /\ events = caughtUp \o closing /\ events \in Entries
                  /\ ch = Sse!OnEvents(k.channel, events) /\ ChannelOK(ch)
                  /\ k.channel.closed \/ events = << >> => ch = k.channel
                  /\ DeliveredFields(k, k2, st, ch)
<1>1. /\ k \in Connections /\ ChannelOK(k.channel) /\ k.answer.entries \in Entries
      /\ k.buffered \in Entries
  BY DEF ConnOK, Connections, Answers
<1>2. PICK caughtUp : caughtUp = CaughtUp(k.answer.entries, k.buffered)
  OBVIOUS
<1>3. PICK closing : closing = IF st = "terminal" THEN Without(e, caughtUp) ELSE << >>
  OBVIOUS
<1>4. PICK events : events = caughtUp \o closing
  OBVIOUS
<1>5. events \in Entries
  <2>1. Without(k.buffered, k.answer.entries) \in Entries
    BY <1>1, WithoutType
  <2>2. caughtUp \in Entries
    BY <1>1, <1>2, <2>1, ConcatProperties DEF CaughtUp, Entries
  <2>3. closing \in Entries
    <3>1. Without(e, caughtUp) \in Entries
      BY WithoutType
    <3>2. << >> \in Entries
      BY DEF Entries
    <3> QED
      BY <1>3, <3>1, <3>2
  <2> QED
    BY <1>4, <2>2, <2>3, ConcatProperties DEF Entries
<1>6. PICK ch : ch = Sse!OnEvents(k.channel, events)
  OBVIOUS
<1>7. ASSUME k.channel.closed \/ events = << >> PROVE ch = k.channel
  BY <1>6, <1>7 DEF Sse!OnEvents
<1>8. ChannelOK(ch)
  <2>1. CASE k.channel.closed \/ events = << >>
    BY <1>1, <1>7, <2>1
  <2>2. CASE ~k.channel.closed /\ events # << >>
    <3>1. PICK filled : filled = [k.channel EXCEPT !.queue = k.channel.queue \o events]
      OBVIOUS
    <3> QED
      BY <1>1, <1>5, <1>6, <2>2, <3>1, SendMoves
  <2> QED
    BY <2>1, <2>2
<1>9. PICK settled : settled = [k EXCEPT !.buffered = << >>, !.call = "delivered"]
  OBVIOUS
<1>10. /\ settled \in Connections /\ settled.channel = k.channel /\ settled.call = "delivered"
       /\ settled.answer = k.answer /\ settled.owned = k.owned /\ settled.refused = k.refused
       /\ settled.cut = k.cut
  <2>1. << >> \in Entries
    BY DEF Entries
  <2> QED
    BY <1>1, <1>9, <2>1 DEF Connections
<1>11. PICK sub : sub = IF st = "terminal" THEN "none" ELSE "live"
  OBVIOUS
<1>12. k2 = IF k.answer.kind # "ok" THEN [settled EXCEPT !.sub = "none"]
            ELSE [settled EXCEPT !.channel = ch, !.sub = sub]
  BY <1>2, <1>3, <1>4, <1>6, <1>9, <1>10, <1>11 DEF Delivered
<1>13. CASE k.answer.kind # "ok"
  <2>1. k2 = [settled EXCEPT !.sub = "none"]
    BY <1>12, <1>13
  <2>2. DeliveredFields(k, k2, st, k.channel)
    BY <1>10, <1>13, <2>1 DEF Connections, DeliveredFields
  <2> QED
    BY <1>13, <2>2
<1>14. CASE k.answer.kind = "ok"
  <2>1. k2 = [settled EXCEPT !.channel = ch, !.sub = sub]
    BY <1>12, <1>14
  <2>2. sub \in {"none", "live"} /\ ch \in Channels
    BY <1>8, <1>11 DEF ChannelOK
  <2>3. DeliveredFields(k, k2, st, ch)
    <3>1. /\ k2 \in Connections /\ k2.channel = ch /\ k2.sub = sub
          /\ k2.call = "delivered" /\ k2.answer = k.answer
          /\ k2.owned = k.owned /\ k2.refused = k.refused /\ k2.cut = k.cut
      BY <1>10, <2>1, <2>2 DEF Connections
    <3> QED
      BY <1>11, <1>14, <3>1 DEF DeliveredFields
  <2> QED
    BY <1>2, <1>3, <1>4, <1>5, <1>6, <1>7, <1>8, <1>14, <2>3
<1> QED
  BY <1>13, <1>14

LEMMA DeliveredOK ==
  ASSUME NEW k, ConnOK(k), k.call = "answered", NEW st, NEW e \in Entries,
         NEW k2, Delivered(k, k2, st, e)
  PROVE  ConnOK(k2) /\ k2.call = "delivered"
<1>1. /\ ~k.owned /\ ~k.refused /\ k.answer.kind \in {"ok", "replay-gap"}
      /\ Untouched(k.channel) /\ ChannelOK(k.channel)
  BY DEF ConnOK
<1>2. CASE k.answer.kind # "ok"
  <2>1. DeliveredFields(k, k2, st, k.channel)
    BY <1>2, DeliveredIs
  <2> QED
    BY <1>1, <1>2, <2>1 DEF ConnOK, DeliveredFields
<1>3. CASE k.answer.kind = "ok"
  <2>1. PICK ch : ChannelOK(ch) /\ DeliveredFields(k, k2, st, ch)
    BY <1>3, DeliveredIs
  <2> QED
    BY <1>1, <1>3, <2>1 DEF ConnOK, DeliveredFields
<1> QED
  BY <1>2, <1>3

LEMMA DeliveredFeed ==
  ASSUME NEW h, NEW ended, HistoryOK(h, ended), NEW n \in Nat, n <= Len(h),
         NEW st, NEW e \in Entries, Over(st, n, h, ended),
         st = "terminal" => e = << h[Len(h)] >>,
         NEW o, NEW t, NEW c, NEW cl \in Clients,
         cl.cursor # Log!NullCursor => cl.cursor = cl.seen,
         NEW k, ConnOK(k), k.call = "answered", FeedOK(c, k, cl, h, n, ended, o, t),
         NEW k2, Delivered(k, k2, st, e)
  PROVE  FeedOK(c, k2, cl, h, n, ended, o, t)
<1>1. /\ ~k.owned /\ ~k.refused /\ k.answer.kind \in {"ok", "replay-gap"}
      /\ Untouched(k.channel) /\ ChannelOK(k.channel)
  BY DEF ConnOK
<1>2. CASE k.answer.kind # "ok"
  <2>1. DeliveredFields(k, k2, st, k.channel)
    BY <1>2, DeliveredIs
  <2>2. k2.call = "delivered" /\ k2.answer = k.answer /\ k2.refused = k.refused
    BY <2>1 DEF DeliveredFields
  <2>3. Refusing(k) /\ ~Receiving(k2) /\ ~Collecting(k2)
    BY <1>1, <1>2, <2>2 DEF Refusing, Receiving, Collecting
  <2> QED
    BY <2>3 DEF FeedOK
<1>3. CASE k.answer.kind = "ok"
  <2>1. PICK caughtUp, closing, events, ch :
          /\ caughtUp = CaughtUp(k.answer.entries, k.buffered)
          /\ closing = IF st = "terminal" THEN Without(e, caughtUp) ELSE << >>
          /\ events = caughtUp \o closing /\ events \in Entries
          /\ ch = Sse!OnEvents(k.channel, events) /\ ChannelOK(ch)
          /\ k.channel.closed \/ events = << >> => ch = k.channel
          /\ DeliveredFields(k, k2, st, ch)
    BY <1>3, DeliveredIs
  <2>2. /\ k2.channel = ch /\ k2.call = "delivered" /\ k2.answer = k.answer
        /\ k2.refused = k.refused
        /\ k2.sub = IF st = "terminal" THEN "none" ELSE "live"
    BY <1>3, <2>1 DEF DeliveredFields
  <2>3. ~Refusing(k2) /\ ~Collecting(k2)
    BY <1>1, <1>3, <2>2 DEF Refusing, Collecting
  <2>4. PICK a, b, m \in 0 .. Len(h) : Collects(k, cl, h, n, ended, o, a, b, m) /\ m <= n
    BY <1>3 DEF FeedOK, Collecting
  <2>5. /\ Collected(k.answer.entries, k.buffered, h, n, a, b, m)
        /\ a <= b \/ (ended /\ m = Len(h) /\ a < m)
        /\ cl.cursor = Log!NullCursor => a < m
        /\ Fresh(cl, o, a) /\ ~cl.sawEnd
    BY <2>4 DEF Collects
  <2>6. Reaches(a, b, m, h, ended)
    BY <2>5 DEF Reaches
  <2>7. /\ st = "terminal" /\ a = Len(h) => events = << h[Len(h)] >>
        /\ ~(st = "terminal" /\ a = Len(h)) => Offers(events, h, n, ended, a)
        /\ st # "terminal" => a + Len(events) = n
    <3>1. PICK entries, buffered : entries = k.answer.entries /\ buffered = k.buffered
      OBVIOUS
    <3>2. /\ Collected(entries, buffered, h, n, a, b, m) /\ m <= n
          /\ caughtUp = CaughtUp(entries, buffered) /\ events = caughtUp \o closing
      BY <2>1, <2>4, <2>5, <3>1
    <3>3. Delivers(events, st, h, n, ended, a)
      BY <2>1, <2>6, <3>2, DeliveredEvents
    <3> QED
      BY <3>3 DEF Delivers
  <2>8. Len(h) \in Nat /\ a \in Nat /\ a <= m /\ a <= n
    <3>1. Len(k.answer.entries) \in Nat /\ a + Len(k.answer.entries) = m
      BY <2>5, LenProperties DEF Collected, Entries
    <3>2. Len(h) \in Nat
      BY LenProperties DEF HistoryOK
    <3> QED
      BY <2>4, <3>1, <3>2
  <2>9. st # "terminal" /\ cl.cursor = Log!NullCursor => a < Len(h)
    BY <2>4, <2>5, <2>8
  <2>10. ASSUME k.channel.closed \/ events = << >>
         PROVE  Receives(k2, cl, h, n, ended, o, a)
    <3>1. k2.channel = k.channel /\ k2.channel.wire = << >> /\ k2.channel.queue = << >>
      BY <1>1, <2>1, <2>2, <2>10 DEF Untouched
    <3>2. Len(k2.channel.wire) = 0 /\ Len(k2.channel.queue) = 0
      BY <3>1
    <3>3. Carries(k2.channel, h, n, ended, a)
      BY <2>8, <3>2 DEF Carries
    <3>4. ASSUME Streams(k2)
          PROVE  Complete(k2.channel, n, a) /\ (cl.cursor = Log!NullCursor => a < Len(h))
      <4>1. st # "terminal" /\ events = << >>
        BY <2>2, <2>10, <3>1, <3>4 DEF Streams
      <4>2. Len(events) = 0
        BY <4>1
      <4>3. a + 0 = n
        BY <2>7, <4>1, <4>2
      <4> QED
        BY <2>9, <3>2, <4>1, <4>3 DEF Complete
    <3> QED
      BY <2>5, <3>3, <3>4 DEF Receives
  <2>11. ASSUME ~k.channel.closed, events # << >>, NEW x \in Nat, Offers(events, h, n, ended, x)
         PROVE  /\ Carries(k2.channel, h, n, ended, x)
                /\ ~k2.channel.closed => Len(k2.channel.wire) + Len(k2.channel.queue) = Len(events)
    <3>1. ch = Sse!OnEvents(k.channel, events) /\ events \in Entries
      BY <2>1
    <3>2. /\ Carries(ch, h, n, ended, x)
          /\ ~ch.closed => Len(ch.wire) + Len(ch.queue) = Len(events)
      <4>1. PICK ch1 : ch1 = k.channel
        OBVIOUS
      <4>2. ChannelOK(ch1) /\ Untouched(ch1) /\ ~ch1.closed /\ ch = Sse!OnEvents(ch1, events)
        BY <1>1, <2>11, <3>1, <4>1
      <4>3. Carries(ch, h, n, ended, x) /\ Keeps(ch, events)
        BY <2>11, <3>1, <4>2, OfferedIsCarried
      <4> QED
        BY <4>3 DEF Keeps
    <3> QED
      BY <2>2, <3>2
  <2>12. CASE ~k.channel.closed /\ events # << >> /\ st = "terminal" /\ a = Len(h)
    <3>1. PICK x \in Nat : x + 1 = Len(h)
      <4>1. Len(h) > 0
        BY DEF HistoryOK
      <4>2. Len(h) - 1 \in Nat /\ (Len(h) - 1) + 1 = Len(h)
        BY <2>8, <4>1
      <4> QED
        BY <4>2
    <3>2. events = << h[x + 1] >> /\ n = x + 1 /\ ended
      BY <2>7, <2>12, <3>1 DEF Over
    <3>3. Len(events) = 1 /\ events[1] = h[x + 1]
      BY <3>2
    <3>4. Offers(events, h, n, ended, x)
      BY <3>2, <3>3 DEF Offers
    <3>5. Carries(k2.channel, h, n, ended, x)
      BY <2>11, <2>12, <3>4
    <3>6. cl.cursor # Log!NullCursor /\ cl.seen = Len(h)
      BY <2>4, <2>5, <2>8, <2>12 DEF Fresh
    <3>7. ~Streams(k2)
      BY <2>2, <2>12 DEF Streams
    <3>8. Receives(k2, cl, h, n, ended, o, x)
      BY <2>5, <3>1, <3>2, <3>5, <3>6, <3>7 DEF Receives
    <3>9. x \in 0 .. Len(h)
      BY <3>1
    <3> QED
      BY <2>3, <3>8, <3>9 DEF FeedOK
  <2>13. CASE ~k.channel.closed /\ events # << >> /\ ~(st = "terminal" /\ a = Len(h))
    <3>1. /\ Carries(k2.channel, h, n, ended, a)
          /\ ~k2.channel.closed => Len(k2.channel.wire) + Len(k2.channel.queue) = Len(events)
      BY <2>7, <2>8, <2>11, <2>13
    <3>2. ASSUME Streams(k2)
          PROVE  Complete(k2.channel, n, a) /\ (cl.cursor = Log!NullCursor => a < Len(h))
      <4>1. st # "terminal" /\ ~k2.channel.closed
        BY <2>2, <3>2 DEF Streams
      <4> QED
        BY <2>7, <2>9, <3>1, <4>1 DEF Complete
    <3>3. Receives(k2, cl, h, n, ended, o, a)
      BY <2>5, <3>1, <3>2 DEF Receives
    <3> QED
      BY <2>3, <3>3 DEF FeedOK
  <2> QED
    BY <2>3, <2>10, <2>12, <2>13 DEF FeedOK
<1> QED
  BY <1>1, <1>2, <1>3

-----------------------------------------------------------------------------
(* The handler goes on                                                     *)

(* What Return makes of a connection.                                      *)
GoesOn(k) ==
  LET back == [k EXCEPT !.call = "returned", !.answer = Unknown]
  IN  IF k.answer.kind # "ok"
        THEN [back EXCEPT !.channel = Sse!MarkClosed(@), !.refused = TRUE]
      ELSE IF back.channel.closed
        THEN [back EXCEPT !.sub = "none"]
      ELSE AfterClose([back EXCEPT !.owned = TRUE, !.channel = Sse!Open(@)])

Returned(k, k2) == k2 = GoesOn(k)

ReturnedFields(k, k2, ch) ==
  /\ k2 \in Connections /\ k2.channel = ch /\ k2.call = "returned"
  /\ k2.refused <=> k.refused \/ k.answer.kind # "ok"
  /\ k2.sub \in {k.sub, "none"}
  /\ k2.sub = "live" => k.answer.kind # "ok" \/ (k2.owned /\ ~ch.closed)

LEMMA ReturnedIs ==
  ASSUME NEW k, ConnOK(k), k.call = "delivered", NEW k2, Returned(k, k2)
  PROVE  \E ch : /\ ReturnedFields(k, k2, ch) /\ ChannelOK(ch)
                 /\ \E j \in Nat : Moves(k.channel, ch, j)
                 /\ k.answer.kind # "ok" /\ Untouched(k.channel) => Untouched(ch)
<1>1. /\ k \in Connections /\ ChannelOK(k.channel) /\ k.channel \in Channels
      /\ Len(k.channel.wire) <= HighWater /\ Unknown \in Answers
  <2>1. << >> \in Entries
    BY DEF Entries
  <2> QED
    BY <2>1 DEF ConnOK, ChannelOK, Unknown, Answers
<1>2. PICK back : back = [k EXCEPT !.call = "returned", !.answer = Unknown]
  OBVIOUS
<1>3. /\ back \in Connections /\ back.channel = k.channel /\ back.call = "returned"
      /\ back.sub = k.sub /\ back.owned = k.owned /\ back.refused = k.refused
  BY <1>1, <1>2 DEF Connections
<1>4. CASE k.answer.kind # "ok"
  <2>1. PICK ch : ch = Sse!MarkClosed(k.channel)
    OBVIOUS
  <2>2. /\ Moves(k.channel, ch, 0) /\ ChannelOK(ch)
        /\ ch.closed /\ ch.queue = << >> /\ ch.wire = k.channel.wire
    BY <1>1, <2>1, CloseMoves
  <2>3. ch.writable = k.channel.writable
    BY <1>1, <2>1 DEF Sse!MarkClosed, Channels
  <2>4. k2 = [back EXCEPT !.channel = ch, !.refused = TRUE]
    BY <1>2, <1>3, <1>4, <2>1 DEF Returned, GoesOn
  <2>5. ReturnedFields(k, k2, ch)
    BY <1>3, <1>4, <2>2, <2>4 DEF ReturnedFields, Connections, ChannelOK
  <2>6. Untouched(k.channel) => Untouched(ch)
    BY <2>2, <2>3 DEF Untouched
  <2> QED
    BY <2>2, <2>5, <2>6
<1>5. CASE k.answer.kind = "ok" /\ k.channel.closed
  <2>1. k2 = [back EXCEPT !.sub = "none"]
    BY <1>2, <1>3, <1>5 DEF Returned, GoesOn
  <2>2. ReturnedFields(k, k2, k.channel)
    BY <1>3, <1>5, <2>1 DEF ReturnedFields, Connections
  <2>3. Moves(k.channel, k.channel, 0)
    <3>1. Len(k.channel.queue) \in Nat /\ Len(k.channel.wire) \in Nat
      BY <1>1, LenProperties DEF Channels, Entries
    <3> QED
      BY <1>1, <3>1 DEF Moves
  <2> QED
    BY <1>1, <1>5, <2>2, <2>3
<1>6. CASE k.answer.kind = "ok" /\ ~k.channel.closed
  <2>1. PICK ch : ch = Sse!Open(k.channel)
    OBVIOUS
  <2>2. ChannelOK(ch) /\ \E j \in Nat : Moves(k.channel, ch, j)
    BY <1>1, <2>1, OpenMoves
  <2>3. PICK mine : mine = [back EXCEPT !.owned = TRUE]
    OBVIOUS
  <2>4. /\ mine \in Connections /\ mine.channel = k.channel /\ mine.call = "returned"
        /\ mine.sub = k.sub /\ mine.owned /\ mine.refused = k.refused
    BY <1>3, <2>3 DEF Connections
  <2>5. k2 = AfterClose([mine EXCEPT !.channel = ch])
    <3>1. k2 = AfterClose([back EXCEPT !.owned = TRUE, !.channel = ch])
      BY <1>2, <1>3, <1>6, <2>1 DEF Returned, GoesOn
    <3>2. [back EXCEPT !.owned = TRUE, !.channel = ch] = [mine EXCEPT !.channel = ch]
      BY <1>3, <2>3 DEF Connections
    <3> QED
      BY <3>1, <3>2
  <2>6. Rechanneled(mine, k2, ch)
    BY <2>2, <2>4, <2>5, RechannelIs DEF ChannelOK
  <2>7. ReturnedFields(k, k2, ch)
    BY <1>6, <2>4, <2>6 DEF Rechanneled, ReturnedFields
  <2> QED
    BY <1>6, <2>2, <2>7
<1> QED
  BY <1>4, <1>5, <1>6

LEMMA ReturnedOK ==
  ASSUME NEW k, ConnOK(k), k.call = "delivered", NEW k2, Returned(k, k2)
  PROVE  ConnOK(k2) /\ k2.call = "returned"
<1>1. PICK ch : /\ ReturnedFields(k, k2, ch) /\ ChannelOK(ch)
                /\ k.answer.kind # "ok" /\ Untouched(k.channel) => Untouched(ch)
  BY ReturnedIs
<1>2. /\ k2 \in Connections /\ k2.channel = ch /\ k2.call = "returned"
      /\ k2.refused <=> k.refused \/ k.answer.kind # "ok"
      /\ k2.sub \in {k.sub, "none"}
      /\ k2.sub = "live" => k.answer.kind # "ok" \/ (k2.owned /\ ~ch.closed)
  BY <1>1 DEF ReturnedFields
<1>3. /\ k.sub \in {"none", "live"} /\ ~k.refused
      /\ k.answer.kind # "ok" => k.sub = "none" /\ Untouched(k.channel)
  BY DEF ConnOK
<1> QED
  BY <1>1, <1>2, <1>3 DEF ConnOK

LEMMA ReturnedFeed ==
  ASSUME NEW h, NEW ended, HistoryOK(h, ended), NEW n \in Nat, n <= Len(h),
         NEW c, NEW cl, NEW o, NEW t, NEW k, ConnOK(k), k.call = "delivered",
         FeedOK(c, k, cl, h, n, ended, o, t), NEW k2, Returned(k, k2)
  PROVE  FeedOK(c, k2, cl, h, n, ended, o, t)
<1>1. PICK ch : /\ ReturnedFields(k, k2, ch) /\ ChannelOK(ch)
                /\ \E j \in Nat : Moves(k.channel, ch, j)
  BY ReturnedIs
<1>2. /\ k2.channel = ch /\ k2.call = "returned"
      /\ k2.refused <=> k.refused \/ k.answer.kind # "ok"
      /\ k2.sub \in {k.sub, "none"}
  BY <1>1 DEF ReturnedFields
<1>3. ~k.refused /\ k.answer.kind \in {"ok", "replay-gap"}
  BY DEF ConnOK
<1>4. ~Collecting(k2)
  BY <1>2 DEF Collecting
<1>5. Refusing(k2) => cl.seen + 1 < o
  BY <1>2, <1>3 DEF Refusing, FeedOK
<1>6. ASSUME Receiving(k2)
      PROVE  \E x \in 0 .. Len(h) : Receives(k2, cl, h, n, ended, o, x)
  <2>1. Receiving(k)
    BY <1>2, <1>3, <1>6 DEF Receiving
  <2>2. PICK x \in 0 .. Len(h) : Receives(k, cl, h, n, ended, o, x)
    BY <2>1 DEF FeedOK
  <2>3. PICK j \in Nat : Moves(k.channel, ch, j)
    BY <1>1
  <2>4. Len(k.channel.wire) \in Nat /\ Len(k.channel.queue) \in Nat /\ x \in Nat
    BY LenProperties DEF ConnOK, ChannelOK, Channels, Entries
  <2>5. Carries(ch, h, n, ended, x)
    BY <2>2, <2>3, <2>4, MovesCarries DEF Receives
  <2>6. Streams(k2) => Streams(k) /\ ~ch.closed
    <3>1. k.channel.closed => ch.closed
      BY <2>3, <2>4, MovesAll
    <3> QED
      BY <1>2, <3>1 DEF Streams
  <2>7. ~ch.closed => Len(ch.wire) + Len(ch.queue) = Len(k.channel.wire) + Len(k.channel.queue)
    BY <2>3, <2>4, MovesAll
  <2>8. Receives(k2, cl, h, n, ended, o, x)
    BY <1>2, <2>2, <2>5, <2>6, <2>7 DEF Receives, Complete
  <2> QED
    BY <2>8
<1> QED
  BY <1>4, <1>5, <1>6 DEF FeedOK

-----------------------------------------------------------------------------
(* The socket                                                              *)

LEMMA DrainedIs ==
  ASSUME NEW k, ConnOK(k), Sse!CanDrain(k.channel), NEW k2,
         k2 = AfterClose([k EXCEPT !.channel = Sse!Drained(k.channel)])
  PROVE  /\ ConnOK(k2) /\ k2.call = k.call /\ k2.cut = k.cut
         /\ \E ch : Rechanneled(k, k2, ch) /\ \E j \in Nat : Moves(k.channel, ch, j)
<1>1. PICK ch : ch = Sse!Drained(k.channel)
  OBVIOUS
<1>2. k \in Connections /\ ChannelOK(k.channel)
  BY DEF ConnOK
<1>3. ChannelOK(ch) /\ \E j \in Nat : Moves(k.channel, ch, j)
  BY <1>1, <1>2, DrainMoves
<1>4. ~k.channel.closed /\ ~Untouched(k.channel)
  BY DEF Sse!CanDrain, Untouched
<1>5. Rechanneled(k, k2, ch) /\ k2.cut = k.cut
  BY <1>1, <1>2, <1>3, RechannelIs DEF ChannelOK
<1>6. ConnOK(k2)
  BY <1>3, <1>4, <1>5, RechannelOK
<1> QED
  BY <1>3, <1>5, <1>6 DEF Rechanneled

LEMMA ClosedIs ==
  ASSUME NEW k, ConnOK(k), NEW k2,
         k2 = AfterClose([k EXCEPT !.channel = Sse!MarkClosed(k.channel)])
  PROVE  /\ ConnOK(k2) /\ k2.call = k.call /\ k2.cut = k.cut
         /\ \E ch : Rechanneled(k, k2, ch) /\ \E j \in Nat : Moves(k.channel, ch, j)
<1>1. PICK ch : ch = Sse!MarkClosed(k.channel)
  OBVIOUS
<1>2. k \in Connections /\ ChannelOK(k.channel) /\ k.channel \in Channels
      /\ Len(k.channel.wire) <= HighWater
  BY DEF ConnOK, ChannelOK
<1>3. /\ Moves(k.channel, ch, 0) /\ ChannelOK(ch)
      /\ ch.closed /\ ch.queue = << >> /\ ch.wire = k.channel.wire
  BY <1>1, <1>2, CloseMoves
<1>4. ch.writable = k.channel.writable
  BY <1>1, <1>2 DEF Sse!MarkClosed, Channels
<1>5. Untouched(k.channel) => Untouched(ch)
  BY <1>3, <1>4 DEF Untouched
<1>6. Rechanneled(k, k2, ch) /\ k2.cut = k.cut
  BY <1>1, <1>2, <1>3, RechannelIs DEF ChannelOK
<1>7. ConnOK(k2)
  BY <1>3, <1>5, <1>6, RechannelOK
<1> QED
  BY <1>3, <1>6, <1>7 DEF Rechanneled

(* What taking events off the wire makes of a connection.                  *)
Rewired(k, k2, wire) ==
  /\ k2 \in Connections
  /\ k2.channel.wire = wire /\ k2.channel.queue = k.channel.queue
  /\ k2.channel.closed = k.channel.closed /\ k2.channel.writable = k.channel.writable
  /\ k2.call = k.call /\ k2.answer = k.answer /\ k2.buffered = k.buffered
  /\ k2.sub = k.sub /\ k2.owned = k.owned /\ k2.refused = k.refused

LEMMA RewiredIs ==
  ASSUME NEW k, ConnOK(k), NEW wire \in Entries, NEW cut \in BOOLEAN, NEW k2,
         k2 = [k EXCEPT !.cut = cut, !.channel = [k.channel EXCEPT !.wire = wire]]
  PROVE  Rewired(k, k2, wire) /\ k2.cut = cut
<1>1. PICK ch : ch = [k.channel EXCEPT !.wire = wire]
  OBVIOUS
<1>2. k \in Connections /\ k.channel \in Channels
  BY DEF ConnOK, ChannelOK
<1>3. /\ ch \in Channels /\ ch.wire = wire /\ ch.queue = k.channel.queue
      /\ ch.closed = k.channel.closed /\ ch.writable = k.channel.writable
  BY <1>1, <1>2 DEF Channels
<1>4. k2 = [k EXCEPT !.cut = cut, !.channel = ch]
  BY <1>1
<1>5. /\ k2 \in Connections /\ k2.channel = ch
      /\ k2.call = k.call /\ k2.answer = k.answer /\ k2.buffered = k.buffered
      /\ k2.sub = k.sub /\ k2.owned = k.owned /\ k2.refused = k.refused /\ k2.cut = cut
  BY <1>2, <1>3, <1>4 DEF Connections
<1> QED
  BY <1>3, <1>5 DEF Rewired

LEMMA RewiredOK ==
  ASSUME NEW k, ConnOK(k), NEW wire, Len(wire) <= HighWater, NEW k2, Rewired(k, k2, wire),
         Untouched(k.channel) => wire = << >>
  PROVE  ConnOK(k2) /\ k2.call = k.call
<1>1. ChannelOK(k2.channel) /\ k2 \in Connections
  <2>1. k2.channel \in Channels
    BY DEF Rewired, Connections
  <2> QED
    BY <2>1 DEF Rewired, ConnOK, ChannelOK
<1>2. Untouched(k.channel) => Untouched(k2.channel)
  BY DEF Untouched, Rewired
<1>3. /\ k2.call = k.call /\ k2.answer = k.answer /\ k2.sub = k.sub
      /\ k2.owned = k.owned /\ k2.refused = k.refused /\ k2.channel.closed = k.channel.closed
  BY DEF Rewired
<1> QED
  BY <1>1, <1>2, <1>3 DEF ConnOK

(* The client is gone.                                                     *)
LEMMA CutIs ==
  ASSUME NEW k, ConnOK(k), NEW k2,
         \/ k2 = [k EXCEPT !.cut = TRUE]
         \/ k2 = [k EXCEPT !.cut = TRUE, !.channel.wire = << >>]
  PROVE  ConnOK(k2) /\ k2.call = k.call
<1>1. k \in Connections /\ Len(<< >>) = 0 /\ HighWater \in Nat
  BY StreamAssumptions DEF ConnOK
<1>2. CASE k2 = [k EXCEPT !.cut = TRUE]
  <2>1. /\ k2 \in Connections /\ k2.channel = k.channel /\ k2.call = k.call
        /\ k2.answer = k.answer /\ k2.sub = k.sub /\ k2.owned = k.owned /\ k2.refused = k.refused
    BY <1>1, <1>2 DEF Connections
  <2> QED
    BY <2>1 DEF ConnOK
<1>3. CASE k2 = [k EXCEPT !.cut = TRUE, !.channel.wire = << >>]
  <2>1. PICK wire, cut : wire = << >> /\ cut = TRUE
    OBVIOUS
  <2>2. wire \in Entries /\ cut \in BOOLEAN /\ Len(wire) <= HighWater
    BY <1>1, <2>1 DEF Entries
  <2>3. k2 = [k EXCEPT !.cut = cut, !.channel = [k.channel EXCEPT !.wire = wire]]
    BY <1>1, <1>3, <2>1 DEF Connections
  <2>4. Rewired(k, k2, wire)
    BY <2>2, <2>3, RewiredIs
  <2> QED
    BY <2>1, <2>2, <2>4, RewiredOK
<1> QED
  BY <1>2, <1>3

-----------------------------------------------------------------------------
(* The client                                                              *)

(* The client reads one of the r recorded events: the next one, or one the *)
(* log has none before of, or, being back, the end again.                  *)
Gets(cl, cl2, r, o, ended) ==
  /\ cl2.reads = cl.reads + 1 /\ cl2.seen <= r
  /\ cl2.sawEnd = (ended /\ cl2.seen = r)
  /\ \/ cl2.seen = cl.seen + 1
     \/ cl.seen + 1 < o /\ cl2.seen \in cl.seen + 2 .. o
     \/ ended /\ ~cl.sawEnd /\ cl.seen = r /\ cl2.seen = r

(* The client reads nothing.                                               *)
Rests(cl, cl2) == cl2.seen = cl.seen /\ cl2.reads = cl.reads /\ cl2.sawEnd = cl.sawEnd

(* The client, done, comes back.                                           *)
Returns(cl, cl2) == cl.sawEnd /\ ~cl2.sawEnd /\ cl2.seen = cl.seen /\ cl2.reads = cl.reads

Advances(cl, cl2, r, o, ended) ==
  Rests(cl, cl2) \/ Returns(cl, cl2) \/ Gets(cl, cl2, r, o, ended)

(* The client takes the next event of its connection.                      *)
Took(c, k, k2, cl, cl2, h, n, ended, o, t) ==
  /\ ConnOK(k2) /\ k2.call = k.call
  /\ Position(cl2, n, o) /\ cl2.conn = cl.conn
  /\ FeedOK(c, k2, cl2, h, n, ended, o, t)
  /\ Gets(cl, cl2, Len(h), o, ended)

Reads(k, k2, e, cl, cl2) ==
  /\ k.channel.wire # << >> /\ e = Head(k.channel.wire)
  /\ k2 = [k EXCEPT !.channel.wire = Tail(k.channel.wire)]
  /\ cl2 = [cl EXCEPT !.cursor = e.id, !.seen = e.id, !.reads = cl.reads + 1,
                      !.sawEnd = IsEnd(e)]

LEMMA ReceivedIs ==
  ASSUME NEW h, NEW ended, HistoryOK(h, ended), NEW n \in Nat, n <= Len(h), NEW o \in Nat,
         NEW t, NEW c, NEW cl \in Clients, NEW k, ConnOK(k),
         FeedOK(c, k, cl, h, n, ended, o, t), Position(cl, n, o),
         NEW k2, NEW e, NEW cl2, Reads(k, k2, e, cl, cl2)
  PROVE  Took(c, k, k2, cl, cl2, h, n, ended, o, t)
<1> USE DEF Reads
<1>1. PICK w, w2, q : w = k.channel.wire /\ w2 = Tail(w) /\ q = k.channel.queue
  OBVIOUS
<1>2. /\ k \in Connections /\ w \in Seq(Log!Entry) /\ w # << >> /\ Len(q) \in Nat
      /\ Len(w) <= HighWater /\ k.cut \in BOOLEAN /\ k.channel \in Channels
  BY <1>1, LenProperties DEF ConnOK, Connections, ChannelOK, Channels, Entries
<1>3. /\ w2 \in Seq(Log!Entry) /\ Len(w2) \in Nat /\ Len(w) = Len(w2) + 1
      /\ e = w[1] /\ \A i \in 1 .. Len(w2) : w2[i] = w[i + 1]
  <2>1. /\ w2 \in Seq(Log!Entry) /\ Len(w2) = Len(w) - 1 /\ e = w[1]
        /\ \A i \in 1 .. Len(w2) : w2[i] = w[i + 1]
    BY <1>1, <1>2, HeadTailProperties
  <2>2. Len(w) \in Nat /\ Len(w2) \in Nat
    BY <1>2, <2>1, LenProperties
  <2> QED
    BY <2>1, <2>2
<1>4. PICK lw \in Nat : lw = Len(w2)
  BY <1>3
<1>5. k2 = [k EXCEPT !.cut = k.cut, !.channel = [k.channel EXCEPT !.wire = w2]]
  BY <1>1, <1>2 DEF Connections
<1>6. Rewired(k, k2, w2)
  BY <1>2, <1>3, <1>5, RewiredIs DEF Entries
<1>7. ~Untouched(k.channel)
  BY <1>1, <1>2 DEF Untouched
<1>8. Len(w2) <= HighWater
  BY <1>2, <1>3, StreamAssumptions
<1>9. ConnOK(k2) /\ k2.call = k.call
  BY <1>6, <1>7, <1>8, RewiredOK
<1>10. Receiving(k) /\ ~Refusing(k) /\ ~Collecting(k)
  <2>1. k.call \in {"delivered", "returned"}
    BY <1>2, <1>7 DEF ConnOK, Connections
  <2>2. k.call = "delivered" => k.answer.kind = "ok" /\ ~k.refused
    BY <1>7 DEF ConnOK
  <2>3. k.call = "returned" => ~k.refused
    BY <1>7 DEF ConnOK
  <2> QED
    BY <2>1, <2>2, <2>3 DEF Receiving, Refusing, Collecting
<1>11. PICK x \in 0 .. Len(h) : Receives(k, cl, h, n, ended, o, x)
  BY <1>10 DEF FeedOK
<1>12. Len(h) \in Nat /\ x \in Nat /\ n <= Len(h)
  BY LenProperties DEF HistoryOK
<1>13. /\ \A i \in 1 .. lw + 1 : w[i] = h[x + i]
       /\ x + (lw + 1) <= n
       /\ \A i \in 1 .. Len(q) : (x + (lw + 1)) + i <= Len(h) => q[i] = h[(x + (lw + 1)) + i]
       /\ (x + (lw + 1)) + Len(q) <= n \/ (ended /\ n = Len(h) /\ x + (lw + 1) < n)
  BY <1>1, <1>3, <1>4, <1>11 DEF Receives, Carries
<1>14. e = h[x + 1] /\ x + 1 \in 1 .. Len(h)
  <2>1. 1 \in 1 .. lw + 1
    OBVIOUS
  <2>2. x + 1 <= n
    BY <1>12, <1>13
  <2>3. w[1] = h[x + 1]
    BY <1>13, <2>1
  <2>4. x + 1 \in 1 .. Len(h)
    BY <1>12, <2>2
  <2> QED
    BY <1>3, <2>3, <2>4
<1>15. e \in Log!Entry /\ e.id = x + 1
  <2>1. h \in Seq(Log!Entry) /\ LogFacts!NumberedFrom(h, 0)
    BY DEF HistoryOK
  <2>2. h[x + 1].id = 0 + (x + 1)
    BY <1>14, <2>1 DEF LogFacts!NumberedFrom
  <2> QED
    BY <1>14, <2>1, <2>2, ElementOfSeq
<1>16. PICK saw \in BOOLEAN : saw = IsEnd(e)
  BY DEF IsEnd
<1>17. PICK y \in Nat : y = x + 1
  BY <1>12
<1>18. PICK got \in Nat : got = cl.reads + 1
  BY DEF Clients
<1>19. /\ cl2 \in Clients /\ cl2.cursor = y /\ cl2.seen = y /\ cl2.conn = cl.conn
       /\ cl2.reads = got /\ cl2.sawEnd = saw
  <2>1. cl2 = [cl EXCEPT !.cursor = y, !.seen = y, !.reads = got, !.sawEnd = saw]
    BY <1>15, <1>16, <1>17, <1>18
  <2> QED
    BY <2>1 DEF Clients
<1>20. y # Log!NullCursor
  BY DEF Log!NullCursor
<1>21. Position(cl2, n, o)
  <2>1. y <= n
    BY <1>13, <1>17
  <2> QED
    BY <1>19, <1>20, <2>1 DEF Position
<1>22. /\ k2.channel.wire = w2 /\ k2.channel.queue = q /\ k2.channel.closed = k.channel.closed
       /\ k2.call = k.call /\ k2.answer = k.answer /\ k2.sub = k.sub /\ k2.refused = k.refused
  BY <1>1, <1>6 DEF Rewired
<1>23. ~Refusing(k2) /\ ~Collecting(k2)
  BY <1>10, <1>22 DEF Refusing, Collecting
<1>24. Carries(k2.channel, h, n, ended, y)
  <2>1. ASSUME NEW i \in 1 .. lw PROVE w2[i] = h[y + i]
    <3>1. i + 1 \in 1 .. lw + 1
      OBVIOUS
    <3>2. x + (i + 1) = y + i
      BY <1>12, <1>17
    <3>3. w[i + 1] = h[x + (i + 1)]
      BY <1>13, <3>1
    <3> QED
      BY <1>3, <1>4, <3>2, <3>3
  <2>2. y + lw = x + (lw + 1)
    BY <1>12, <1>17
  <2> QED
    BY <1>4, <1>13, <1>22, <2>1, <2>2 DEF Carries
<1>25. Streams(k2) => Complete(k2.channel, n, y)
  <2>1. Streams(k2) => Complete(k.channel, n, x)
    BY <1>11, <1>22 DEF Streams, Receives
  <2>2. Len(k.channel.wire) = lw + 1 /\ Len(k2.channel.wire) = lw
        /\ k2.channel.queue = k.channel.queue
        /\ Len(k.channel.queue) \in Nat
    BY <1>1, <1>2, <1>3, <1>4, <1>22
  <2>3. PICK lq \in Nat : lq = Len(k.channel.queue)
    BY <2>2
  <2>4. x + ((lw + 1) + lq) = y + (lw + lq)
    BY <1>12, <1>17
  <2>5. Complete(k.channel, n, x) => Complete(k2.channel, n, y)
    BY <2>2, <2>3, <2>4 DEF Complete
  <2> QED
    BY <2>1, <2>5
<1>26. Fresh(cl2, o, y)
  BY <1>19 DEF Fresh
<1>27. Receives(k2, cl2, h, n, ended, o, y)
  BY <1>19, <1>20, <1>24, <1>25, <1>26 DEF Receives
<1>28. FeedOK(c, k2, cl2, h, n, ended, o, t)
  <2>1. y \in 0 .. Len(h)
    BY <1>14, <1>17
  <2> QED
    BY <1>23, <1>27, <2>1 DEF FeedOK
<1>29. saw = (ended /\ y = Len(h))
  <2>1. IsEnd(h[x + 1]) <=> (ended /\ x + 1 = Len(h))
    BY <1>14 DEF HistoryOK
  <2>2. saw <=> (ended /\ y = Len(h))
    BY <1>14, <1>16, <1>17, <2>1
  <2> QED
    BY <2>2, Zenon
<1>30. \/ y = cl.seen + 1
       \/ cl.seen + 1 < o /\ y \in cl.seen + 2 .. o
       \/ ended /\ ~cl.sawEnd /\ cl.seen = Len(h) /\ y = Len(h)
  <2>1. cl.seen \in Nat
    BY DEF Clients
  <2>2. CASE Fresh(cl, o, x)
    <3>1. cl.seen <= x /\ (x = cl.seen \/ x + 1 <= o)
      BY <2>2 DEF Fresh
    <3> QED
      BY <1>17, <2>1, <3>1
  <2>3. CASE ended /\ x + 1 = Len(h) /\ cl.seen = Len(h) /\ ~cl.sawEnd
    BY <1>17, <2>3
  <2> QED
    BY <1>11, <2>2, <2>3 DEF Receives
<1>31. y <= Len(h)
  BY <1>12, <1>14, <1>17
<1>32. Gets(cl, cl2, Len(h), o, ended)
  BY <1>18, <1>19, <1>29, <1>30, <1>31 DEF Gets
<1> QED
  BY <1>9, <1>19, <1>21, <1>28, <1>32 DEF Took

-----------------------------------------------------------------------------
(* A request                                                               *)

FreeFields(k, ch) ==
  /\ k \in Connections /\ k.channel = ch /\ k.call = "returned" /\ k.sub = "none"
  /\ k.buffered = << >> /\ ~k.owned /\ ~k.refused

LEMMA FreeIs ==
  ASSUME NEW ch, ch = Sse!MarkClosed(Sse!NewChannel), NEW k, k = FreeConn
  PROVE  FreeFields(k, ch) /\ ConnOK(k) /\ ch.closed
<1>1. /\ << >> \in Entries /\ Len(<< >>) = 0 /\ MaxQueued \in Nat /\ HighWater \in Nat
      /\ Unknown \in Answers
  <2>1. << >> \in Entries
    BY DEF Entries
  <2> QED
    BY <2>1, StreamAssumptions DEF Unknown, Answers
<1>2. PICK open : open = Sse!NewChannel
  OBVIOUS
<1>3. open \in Channels /\ open.wire = << >> /\ open.queue = << >> /\ open.writable
  BY <1>1, <1>2 DEF Sse!NewChannel, Channels
<1>4. /\ ch \in Channels /\ ch.wire = << >> /\ ch.queue = << >> /\ ch.closed
  BY <1>1, <1>2, <1>3 DEF Sse!MarkClosed, Channels
<1>5. PICK answer, none : answer = Unknown /\ none = << >>
  OBVIOUS
<1>6. k = [channel |-> ch, call |-> "returned", answer |-> answer, sub |-> "none",
           buffered |-> none, owned |-> FALSE, refused |-> FALSE, cut |-> TRUE]
  BY <1>5 DEF FreeConn
<1>7. k \in Connections
  <2>1. answer \in Answers /\ none \in Entries
    BY <1>1, <1>5
  <2> QED
    BY <1>4, <1>6, <2>1 DEF Connections
<1>8. FreeFields(k, ch)
  BY <1>5, <1>6, <1>7 DEF FreeFields
<1>9. ChannelOK(ch)
  BY <1>1, <1>4 DEF ChannelOK
<1> QED
  BY <1>4, <1>8, <1>9 DEF ConnOK, FreeFields

LEMMA RequestedIs ==
  ASSUME NEW answer \in Answers, answer.kind \in {"ok", "replay-gap"},
         NEW k, k = [NewConn EXCEPT !.answer = answer]
  PROVE  /\ ConnOK(k) /\ k.call = "reading" /\ k.answer = answer /\ k.buffered = << >>
         /\ ~k.refused
<1>1. << >> \in Entries /\ Len(<< >>) = 0 /\ MaxQueued \in Nat /\ HighWater \in Nat
  BY StreamAssumptions DEF Entries
<1>2. PICK ch, free, new : ch = Sse!NewChannel /\ free = FreeConn /\ new = NewConn
  OBVIOUS
<1>3. ch \in Channels /\ ChannelOK(ch) /\ Untouched(ch)
  <2>1. ch \in Channels /\ ch.wire = << >> /\ ch.queue = << >> /\ ch.writable
    BY <1>1, <1>2 DEF Sse!NewChannel, Channels
  <2> QED
    BY <1>1, <2>1 DEF ChannelOK, Untouched
<1>4. free \in Connections /\ free.buffered = << >> /\ ~free.owned /\ ~free.refused
  BY <1>2, FreeIs DEF FreeFields
<1>5. new = [free EXCEPT !.channel = ch, !.call = "reading", !.sub = "replaying", !.cut = FALSE]
  BY <1>2 DEF NewConn
<1>6. /\ new \in Connections /\ new.channel = ch /\ new.call = "reading"
      /\ new.sub = "replaying" /\ new.buffered = << >> /\ ~new.owned /\ ~new.refused
  BY <1>3, <1>4, <1>5 DEF Connections
<1>7. k = [new EXCEPT !.answer = answer]
  BY <1>2
<1>8. /\ k \in Connections /\ k.channel = ch /\ k.call = "reading" /\ k.answer = answer
      /\ k.sub = "replaying" /\ k.buffered = << >> /\ ~k.owned /\ ~k.refused
  BY <1>6, <1>7 DEF Connections
<1> QED
  BY <1>3, <1>8 DEF ConnOK

NotAsked(t, c)   == \A p \in 1 .. Len(t) : t[p].op = "replay" => t[p].conn # c
Asked(u, t, c)   == u = Append(t, [op |-> "replay", conn |-> c])

(* The client cl is on connection k now, being cl2.                        *)
Joins(c, k, cl, cl2, h, n, ended, o, u) ==
  /\ ConnOK(k) /\ k.call = "reading" /\ Position(cl2, n, o) /\ Rests(cl, cl2)
  /\ FeedOK(c, k, cl2, h, n, ended, o, u)

(* The replay asked for answers the client, or refuses it for good reason. *)
LEMMA RequestedFeed ==
  ASSUME NEW l, NEW ended, LogOK(l, ended), NEW st, Ended(st, ended),
         NEW h, h = l.runs[Run].history, NEW o, o = Log!OldestRetainedId(l.runs[Run]),
         NEW n, NEW e, PhaseOK(st, e, h, n), NEW t, TasksOK(t, h, n), NEW c \in Conns,
         NotAsked(t, c), NEW u, Asked(u, t, c),
         NEW cl, Position(cl, n, o), ~cl.sawEnd, NEW cl2,
         cl2 = [cl EXCEPT !.conn = c],
         NEW k, k = [NewConn EXCEPT !.answer = Log!Replay(l, Run, cl.cursor)]
  PROVE  Joins(c, k, cl, cl2, h, n, ended, o, u)
<1>1. PICK rl : rl = l.runs[Run]
  OBVIOUS
<1>2. /\ h \in Seq(Log!Entry) /\ Len(h) \in Nat /\ Len(rl.entries) \in Nat
      /\ o \in Nat /\ o >= 1 /\ Len(h) + 1 = Len(rl.entries) + o /\ o <= Len(h)
  BY <1>1, LogView
<1>3. /\ t \in Seq(Tasks) /\ n \in Nat /\ n <= Len(h)
  <2>1. t \in Seq(Tasks) /\ n \in Nat /\ n + Cardinality(AppendsIn(t)) = Len(h)
    BY DEF TasksOK
  <2>2. Cardinality(AppendsIn(t)) \in Nat
    BY <2>1, AppendsWithin
  <2> QED
    BY <2>1, <2>2
<1>4. /\ cl \in Clients /\ cl.seen \in Nat /\ cl.seen <= n
      /\ cl.cursor # Log!NullCursor => cl.cursor = cl.seen
      /\ cl.cursor = Log!NullCursor => cl.seen = 0 \/ cl.seen + 1 < o
  BY DEF Position, Clients
<1>5. PICK cursor : cursor = cl.cursor
  OBVIOUS
<1>6. cursor \in Nat \cup {Log!NullCursor} /\ cursor <= Len(h)
  <2>1. cursor \in Nat \cup {Log!NullCursor}
    BY <1>4, <1>5 DEF Clients
  <2>2. CASE cursor = Log!NullCursor
    BY <1>2, <2>1, <2>2 DEF Log!NullCursor
  <2>3. CASE cursor # Log!NullCursor
    BY <1>2, <1>3, <1>4, <1>5, <2>1, <2>3
  <2> QED
    BY <2>1, <2>2, <2>3
<1>7. PICK answer : answer = Log!Replay(l, Run, cursor)
  OBVIOUS
<1>8. /\ answer \in Answers /\ answer.kind \in {"ok", "replay-gap"}
      /\ answer.kind = "ok" =>
           \E a \in Nat : /\ AnswersFrom(answer, h, a)
                          /\ IF cursor = Log!NullCursor THEN a + 1 = o ELSE a = cursor
      /\ answer.kind = "replay-gap" => cursor # Log!NullCursor /\ cursor + 1 < o
  BY <1>6, <1>7, ReplayAnswers
<1>9. /\ ConnOK(k) /\ k.call = "reading" /\ k.answer = answer /\ k.buffered = << >> /\ ~k.refused
  BY <1>5, <1>7, <1>8, RequestedIs
<1>10. /\ cl2 \in Clients /\ cl2.seen = cl.seen /\ cl2.cursor = cursor
       /\ cl2.reads = cl.reads /\ cl2.sawEnd = cl.sawEnd /\ ~cl2.sawEnd
  BY <1>4, <1>5 DEF Clients
<1>11. Position(cl2, n, o)
  BY <1>4, <1>5, <1>10 DEF Position
<1>12. TasksOK(u, h, n) /\ n + Place(u, Len(t) + 1) = Len(h)
  <2>1. TasksOK(u, h, n)
    BY ReplayTask, Zenon DEF Asked
  <2>2. u \in Seq(Tasks) /\ Len(u) = Len(t) + 1
    <3>1. PICK task : task = [op |-> "replay", conn |-> c]
      OBVIOUS
    <3>2. task \in Tasks
      BY <3>1 DEF Tasks
    <3> QED
      BY <1>3, <3>1, <3>2, AppendProperties DEF Asked
  <2>3. Place(u, Len(u)) = Cardinality(AppendsIn(u))
    BY <2>2, AppendsWithin, BelowAll DEF Place
  <2>4. n + Cardinality(AppendsIn(u)) = Len(h)
    BY <2>1 DEF TasksOK
  <2> QED
    BY <2>1, <2>2, <2>3, <2>4
<1>13. ReplayDue(u, c, n, Len(h))
  <2>1. /\ Len(u) = Len(t) + 1 /\ Len(t) \in Nat /\ \A p \in 1 .. Len(t) : u[p] = t[p]
    <3>1. PICK task : task = [op |-> "replay", conn |-> c]
      OBVIOUS
    <3>2. task \in Tasks
      BY <3>1 DEF Tasks
    <3> QED
      BY <1>3, <3>1, <3>2, AppendProperties, LenProperties DEF Asked
  <2>2. ASSUME NEW p \in 1 .. Len(u), u[p].op = "replay", u[p].conn = c PROVE p = Len(t) + 1
    BY <2>1, <2>2 DEF NotAsked
  <2> QED
    BY <1>12, <2>2 DEF ReplayDue
<1>14. Refusing(k) => cl2.seen + 1 < o
  BY <1>4, <1>5, <1>8, <1>9, <1>10 DEF Refusing
<1>15. ~Receiving(k)
  BY <1>9 DEF Receiving
<1>16. ASSUME Collecting(k)
       PROVE  \E a, b, m \in 0 .. Len(h) :
                /\ Collects(k, cl2, h, n, ended, o, a, b, m)
                /\ k.call = "reading" => ReplayDue(u, c, n, m)
                /\ k.call = "answered" => m <= n
  <2>1. PICK a \in Nat : /\ AnswersFrom(answer, h, a)
                         /\ IF cursor = Log!NullCursor THEN a + 1 = o ELSE a = cursor
    BY <1>8, <1>9, <1>16 DEF Collecting
  <2>2. answer.entries \in Entries /\ Len(answer.entries) \in Nat
    BY <1>8, LenProperties DEF Answers, Entries
  <2>3. a + Len(answer.entries) = Len(h) /\ Spans(answer.entries, h, a)
    BY <2>1 DEF AnswersFrom, Spans
  <2>4. a \in 0 .. Len(h) /\ n \in 0 .. Len(h) /\ Len(h) \in 0 .. Len(h)
    BY <1>2, <1>3, <2>2, <2>3
  <2>5. Collected(k.answer.entries, k.buffered, h, n, a, n, Len(h))
    <3>1. << >> \in Entries /\ n + Len(<< >>) = n /\ Spans(<< >>, h, n)
      BY <1>3 DEF Entries, Spans
    <3> QED
      BY <1>2, <1>3, <1>9, <2>2, <2>3, <3>1 DEF Collected
  <2>6. cursor = Log!NullCursor => a < Len(h)
    BY <1>2, <2>1
  <2>7. a <= n \/ (st # "running" /\ a < Len(h) /\ cursor = Log!NullCursor)
    <3>1. CASE cursor # Log!NullCursor
      BY <1>4, <1>5, <2>1, <3>1
    <3>2. CASE cursor = Log!NullCursor /\ st # "running"
      BY <2>6, <3>2
    <3>3. CASE cursor = Log!NullCursor /\ st = "running"
      <4>1. Len(rl.entries) = Len(h) \/ Len(rl.entries) = MaxEntries
        BY <1>1, <3>3 DEF LogOK, KeepsEnough, Ended
      <4>2. Len(h) <= n + MaxEntries /\ MaxEntries \in Nat
        BY <3>3, StreamAssumptions DEF PhaseOK
      <4>3. a + Len(rl.entries) = Len(h)
        <5>1. PICK d \in Nat, N \in Nat : d = Len(rl.entries) /\ N = Len(h)
          BY <1>2
        <5>2. N + 1 = d + (a + 1)
          BY <1>2, <2>1, <3>3, <5>1
        <5>3. a + d = N
          BY <5>2
        <5> QED
          BY <5>1, <5>3
      <4> QED
        BY <1>2, <1>3, <4>1, <4>2, <4>3
    <3> QED
      BY <3>1, <3>2, <3>3
  <2>8. Fresh(cl2, o, a)
    <3>1. CASE cursor # Log!NullCursor
      BY <1>4, <1>5, <1>10, <2>1, <3>1 DEF Fresh
    <3>2. CASE cursor = Log!NullCursor
      <4>1. a + 1 = o
        BY <2>1, <3>2
      <4>2. cl2.seen <= a /\ a + 1 <= o
        BY <1>2, <1>4, <1>5, <1>10, <3>2, <4>1
      <4> QED
        BY <1>10, <3>2, <4>2 DEF Fresh
    <3> QED
      BY <3>1, <3>2
  <2>9. Collects(k, cl2, h, n, ended, o, a, n, Len(h))
    BY <1>10, <2>5, <2>6, <2>7, <2>8 DEF Collects, Ended
  <2> QED
    BY <1>9, <1>13, <2>4, <2>9
<1>17. FeedOK(c, k, cl2, h, n, ended, o, u)
  BY <1>14, <1>15, <1>16 DEF FeedOK
<1> QED
  BY <1>9, <1>10, <1>11, <1>17 DEF Joins, Rests

-----------------------------------------------------------------------------
(* Replays outstanding                                                     *)

LEMMA RepliesKept ==
  ASSUME NEW t, NEW k, NEW k2, RepliesOK(t, k),
         \A p \in 1 .. Len(t) : t[p].op = "replay" /\ k[t[p].conn].call = "reading" =>
                                  k2[t[p].conn].call = "reading"
  PROVE  RepliesOK(t, k2)
BY DEF RepliesOK

LEMMA RepliesAppended ==
  ASSUME NEW t, NEW k, RepliesOK(t, k), NEW task, NEW u, Appended(u, t, task), task.op # "replay"
  PROVE  RepliesOK(u, k)
<1>1. Len(u) = Len(t) + 1 /\ Len(t) \in Nat /\ u[Len(t) + 1] = task
      /\ \A p \in 1 .. Len(t) : u[p] = t[p]
  BY AppendPlaces DEF OneMore
<1>2. \A p \in 1 .. Len(u) : u[p].op = "replay" => p \in 1 .. Len(t) /\ u[p] = t[p]
  BY <1>1
<1> QED
  BY <1>2 DEF RepliesOK

LEMMA RepliesAsked ==
  ASSUME NEW t, NEW k, NEW k2, RepliesOK(t, k), NEW c \in Conns, k[c].call # "reading",
         t \in Seq(Tasks), NEW u, Asked(u, t, c),
         k2[c].call = "reading", \A d \in Conns \ {c} : k2[d] = k[d]
  PROVE  RepliesOK(u, k2) /\ NotAsked(t, c)
<1>1. PICK task : task = [op |-> "replay", conn |-> c]
  OBVIOUS
<1>2. /\ Len(u) = Len(t) + 1 /\ Len(t) \in Nat /\ u[Len(t) + 1] = task
      /\ \A p \in 1 .. Len(t) : u[p] = t[p]
  <2>1. task \in Tasks /\ u = Append(t, task)
    BY <1>1 DEF Asked, Tasks
  <2> QED
    BY <2>1, AppendProperties, LenProperties
<1>3. \A p \in 1 .. Len(t) : t[p].op = "replay" => t[p].conn # c /\ t[p].conn \in Conns
  <2>1. ASSUME NEW p \in 1 .. Len(t), t[p].op = "replay" PROVE t[p].conn \in Conns
    <3>1. t[p] \in Tasks
      BY ElementOfSeq
    <3> QED
      BY <2>1, <3>1 DEF Tasks
  <2> QED
    BY <2>1 DEF RepliesOK
<1>4. ASSUME NEW p \in 1 .. Len(u), u[p].op = "replay"
      PROVE  k2[u[p].conn].call = "reading" /\ (u[p].conn = c <=> p = Len(t) + 1)
  <2>1. CASE p = Len(t) + 1
    BY <1>1, <1>2, <2>1
  <2>2. CASE p \in 1 .. Len(t)
    <3>1. u[p] = t[p] /\ t[p].conn # c /\ t[p].conn \in Conns
      BY <1>2, <1>3, <1>4, <2>2
    <3>2. k[t[p].conn].call = "reading"
      BY <1>4, <2>2, <3>1 DEF RepliesOK
    <3> QED
      BY <1>2, <2>2, <3>1, <3>2
  <2> QED
    BY <1>2, <2>1, <2>2
<1>5. ASSUME NEW p \in 1 .. Len(u), NEW q \in 1 .. Len(u), u[p].op = "replay",
             u[q].op = "replay", u[p].conn = u[q].conn
      PROVE  p = q
  <2>1. CASE u[p].conn = c
    BY <1>4, <1>5, <2>1
  <2>2. CASE u[p].conn # c
    <3>1. p \in 1 .. Len(t) /\ q \in 1 .. Len(t)
      BY <1>2, <1>4, <1>5, <2>2
    <3> QED
      BY <1>2, <1>5, <3>1 DEF RepliesOK
  <2> QED
    BY <2>1, <2>2
<1> QED
  BY <1>3, <1>4, <1>5 DEF RepliesOK, NotAsked

(* The head is taken off.                                                  *)
LEMMA RepliesSettled ==
  ASSUME NEW t \in Seq(Tasks), t # << >>, NEW k, NEW k2, RepliesOK(t, k),
         \A d \in Conns : k2[d].call = k[d].call \/ (Head(t).op = "replay" /\ Head(t).conn = d)
  PROVE  /\ RepliesOK(Tail(t), k2)
         /\ Head(t).op = "replay" => Head(t).conn \in Conns /\ k[Head(t).conn].call = "reading"
<1>1. PICK u : u = Tail(t)
  OBVIOUS
<1>2. /\ u \in Seq(Tasks) /\ Len(t) = Len(u) + 1 /\ Len(u) \in Nat
      /\ \A p \in 1 .. Len(u) : u[p] = t[p + 1]
      /\ Head(t) = t[1] /\ t[1] \in Tasks
  BY <1>1, TailPlaces
<1>3. 1 \in 1 .. Len(t)
  BY <1>2
<1>4. Head(t).op = "replay" => Head(t).conn \in Conns /\ k[Head(t).conn].call = "reading"
  BY <1>2, <1>3 DEF Tasks, RepliesOK
<1>5. ASSUME NEW p \in 1 .. Len(u), u[p].op = "replay" PROVE k2[u[p].conn].call = "reading"
  <2>1. p + 1 \in 1 .. Len(t) /\ u[p] = t[p + 1] /\ p + 1 # 1
    BY <1>2
  <2>2. k[u[p].conn].call = "reading"
    BY <1>5, <2>1 DEF RepliesOK
  <2>3. ~(Head(t).op = "replay" /\ Head(t).conn = u[p].conn)
    BY <1>2, <1>3, <1>5, <2>1 DEF RepliesOK
  <2>4. u[p].conn \in Conns
    <3>1. u[p] \in Tasks
      BY <1>2, ElementOfSeq
    <3> QED
      BY <1>5, <3>1 DEF Tasks
  <2> QED
    BY <2>2, <2>3, <2>4
<1>6. ASSUME NEW p \in 1 .. Len(u), NEW q \in 1 .. Len(u), u[p].op = "replay",
             u[q].op = "replay", u[p].conn = u[q].conn
      PROVE  p = q
  <2>1. p + 1 \in 1 .. Len(t) /\ u[p] = t[p + 1] /\ q + 1 \in 1 .. Len(t) /\ u[q] = t[q + 1]
    BY <1>2
  <2>2. p + 1 = q + 1
    BY <1>6, <2>1 DEF RepliesOK
  <2> QED
    BY <2>2
<1> QED
  BY <1>1, <1>4, <1>5, <1>6 DEF RepliesOK

-----------------------------------------------------------------------------
(* The steps, of the values of the variables                               *)

(* Counts of an invariant state.                                           *)
LEMMA StreamCounts ==
  ASSUME NEW l, NEW st, NEW e, NEW t, NEW k, NEW cl, NEW h, NEW o, NEW n, NEW ended,
         StreamAt(l, st, e, t, k, cl, h, o, n, ended)
  PROVE  /\ HistoryOK(h, ended) /\ h \in Seq(Log!Entry) /\ Len(h) \in Nat
         /\ o \in Nat /\ o >= 1 /\ o <= Len(h)
         /\ n \in Nat /\ n <= Len(h) /\ n + Cardinality(AppendsIn(t)) = Len(h)
         /\ Cardinality(AppendsIn(t)) \in Nat /\ t \in Seq(Tasks)
         /\ cl \in Clients /\ l.runs[Run].nextId = Len(h) + 1
<1>1. /\ h = l.runs[Run].history /\ o = Log!OldestRetainedId(l.runs[Run])
      /\ LogOK(l, ended) /\ TasksOK(t, h, n) /\ Position(cl, n, o)
  BY DEF StreamAt
<1>2. /\ h \in Seq(Log!Entry) /\ Len(h) \in Nat /\ o \in Nat /\ o >= 1 /\ o <= Len(h)
      /\ l.runs[Run].nextId = Len(h) + 1
  BY <1>1, LogView
<1>3. t \in Seq(Tasks) /\ n \in Nat /\ n + Cardinality(AppendsIn(t)) = Len(h)
  BY <1>1 DEF TasksOK
<1>4. Cardinality(AppendsIn(t)) \in Nat
  BY <1>3, AppendsWithin
<1>5. HistoryOK(h, ended) /\ cl \in Clients
  BY <1>1 DEF LogOK, Position
<1> QED
  BY <1>2, <1>3, <1>4, <1>5

(* Emit and Finish.                                                        *)
OneRecorded(l2, st, e, u, k, cl, h, o, n) ==
  \E h2, o2 : \E ended2 \in BOOLEAN :
    /\ StreamAt(l2, st, e, u, k, cl, h2, o2, n, ended2)
    /\ Len(h2) = Len(h) + 1 /\ o <= o2

LEMMA RecordStep ==
  ASSUME NEW l, NEW e, NEW t, NEW k, NEW cl, NEW h, NEW o, NEW n, NEW ended,
         StreamAt(l, "running", e, t, k, cl, h, o, n, ended),
         NEW event \in {"agent", "end"}, NEW op, op = IF event = "end" THEN "end" ELSE "emit",
         NEW st, st = IF event = "end" THEN "finishing" ELSE "running",
         event = "agent" => Cardinality(AppendsIn(t)) < MaxEntries,
         NEW l2, l2 = Log!AppendTo(l, Run, event, "data", "none"),
         NEW u, u = Append(t, [op |-> op, entry |-> Last(l2.runs[Run].history)])
  PROVE  OneRecorded(l2, st, e, u, k, cl, h, o, n)
<1>1. /\ HistoryOK(h, ended) /\ h \in Seq(Log!Entry) /\ Len(h) \in Nat /\ o \in Nat
      /\ n \in Nat /\ n <= Len(h) /\ n + Cardinality(AppendsIn(t)) = Len(h)
      /\ Cardinality(AppendsIn(t)) \in Nat /\ t \in Seq(Tasks) /\ cl \in Clients
  BY StreamCounts
<1>2. /\ h = l.runs[Run].history /\ o = Log!OldestRetainedId(l.runs[Run])
      /\ LogOK(l, ended) /\ TasksOK(t, h, n) /\ PhaseOK("running", e, h, n)
      /\ k \in [Conns -> Connections] /\ \A c \in Conns : ConnOK(k[c])
      /\ RepliesOK(t, k) /\ Position(cl, n, o) /\ DoneOK(cl, h, ended)
      /\ \A c \in Conns : cl.conn = c => FeedOK(c, k[c], cl, h, n, ended, o, t)
  BY DEF StreamAt
<1>3. ended = FALSE
  BY DEF StreamAt, Ended
<1>4. LogOK(l, FALSE) /\ HistoryOK(h, FALSE)
  BY <1>1, <1>2, <1>3, Zenon
<1>5. PICK l0, h2, o2 :
        l0 = l2 /\ h2 = l2.runs[Run].history /\ o2 = Log!OldestRetainedId(l2.runs[Run])
  OBVIOUS
<1>6. PICK ended2 \in BOOLEAN : Ending(event, ended2)
  <2>1. CASE event = "end"
    <3>1. Ending(event, TRUE)
      BY <2>1 DEF Ending
    <3> QED
      BY <3>1
  <2>2. CASE event # "end"
    <3>1. Ending(event, FALSE)
      BY <2>2 DEF Ending
    <3> QED
      BY <3>1
  <2> QED
    BY <2>1, <2>2
<1>7. PICK entry : Grows(l, l2, event, ended2, entry)
  BY <1>4, <1>6, AppendGrows
<1>8. /\ entry \in Log!Entry /\ entry.event = event /\ h2 = Append(h, entry) /\ Last(h2) = entry
      /\ LogOK(l2, ended2) /\ o <= o2
  BY <1>2, <1>5, <1>7 DEF Grows
<1>9. o2 \in Nat
  BY <1>5, <1>8, LogView
<1>10. Len(h2) = Len(h) + 1 /\ h2[Len(h) + 1] = entry
  BY <1>1, <1>8, AppendProperties
<1>11. op \in {"emit", "end"} /\ op # "replay" /\ (op = "end" <=> IsEnd(entry))
       /\ st \in {"running", "finishing"}
  BY <1>8 DEF IsEnd
<1>12. PICK task : task = [op |-> op, entry |-> entry]
  OBVIOUS
<1>13. task \in Tasks /\ task.op # "replay" /\ u = Append(t, task)
  BY <1>5, <1>8, <1>11, <1>12 DEF Tasks
<1>14. Appended(u, t, task)
  BY <1>1, <1>13 DEF Appended
<1>15. TasksOK(u, h2, n)
  <2>1. u = Append(t, [op |-> op, entry |-> entry])
    BY <1>12, <1>13
  <2> QED
    BY <1>1, <1>2, <1>8, <1>11, <2>1, AppendTask
<1>16. RepliesOK(u, k)
  BY <1>2, <1>13, <1>14, RepliesAppended
<1>17. e = << >>
  BY <1>2 DEF PhaseOK
<1>18. PhaseOK(st, e, h2, n)
  <2>1. CASE event = "agent"
    <3>1. Len(h2) <= n + MaxEntries
      <4>1. PICK d \in Nat : d = Cardinality(AppendsIn(t))
        BY <1>1
      <4>2. n + d = Len(h) /\ d < MaxEntries /\ MaxEntries \in Nat
        BY <1>1, <2>1, <4>1, StreamAssumptions
      <4> QED
        BY <1>1, <1>10, <4>2
    <3>2. st = "running"
      BY <2>1
    <3> QED
      BY <1>17, <3>1, <3>2 DEF PhaseOK
  <2>2. CASE event = "end"
    <3>1. st = "finishing" /\ n < Len(h2)
      BY <1>1, <1>10, <2>2
    <3> QED
      BY <1>17, <3>1 DEF PhaseOK
  <2> QED
    BY <2>1, <2>2
<1>19. Position(cl, n, o2)
  <2>1. cl.seen \in Nat
    BY <1>1 DEF Clients
  <2> QED
    BY <1>1, <1>2, <1>8, <1>9, <2>1 DEF Position
<1>20. ASSUME NEW c \in Conns, cl.conn = c PROVE FeedOK(c, k[c], cl, h2, n, ended2, o2, u)
  <2>1. FeedOK(c, k[c], cl, h, n, FALSE, o, t)
    BY <1>2, <1>3, <1>20, Zenon
  <2>2. PICK x : x = k[c]
    OBVIOUS
  <2>3. ConnOK(x) /\ FeedOK(c, x, cl, h, n, FALSE, o, t)
    BY <1>2, <2>1, <2>2
  <2>4. FeedOK(c, x, cl, h2, n, ended2, o2, u)
    BY <1>1, <1>4, <1>8, <1>9, <1>13, <1>14, <2>3, FeedRecorded
  <2> QED
    BY <2>2, <2>4
<1>21. Ended(st, ended2) /\ DoneOK(cl, h2, ended2)
  BY <1>2, <1>3, <1>6 DEF Ended, Ending, DoneOK
<1>22. StreamAt(l2, st, e, u, k, cl, h2, o2, n, ended2)
  BY <1>2, <1>5, <1>8, <1>15, <1>16, <1>18, <1>19, <1>20, <1>21 DEF StreamAt
<1> QED
  BY <1>8, <1>6, <1>10, <1>22, Zenon DEF OneRecorded

LEMMA CompactStep ==
  ASSUME NEW l, NEW st, NEW e, NEW t, NEW k, NEW cl, NEW h, NEW o, NEW n, NEW ended,
         StreamAt(l, st, e, t, k, cl, h, o, n, ended), l.runs[Run].compaction,
         NEW l2, l2 = Log!CompactRun(l, Run)
  PROVE  \E o2 : /\ StreamAt(l2, st, e, t, k, cl, h, o2, n, ended)
                 /\ o2 = Len(h) /\ ended
<1>1. /\ Len(h) \in Nat /\ o \in Nat /\ o <= Len(h) /\ cl \in Clients
  BY StreamCounts
<1>2. /\ h = l.runs[Run].history /\ o = Log!OldestRetainedId(l.runs[Run])
      /\ LogOK(l, ended) /\ TasksOK(t, h, n) /\ PhaseOK(st, e, h, n) /\ Ended(st, ended)
      /\ k \in [Conns -> Connections] /\ \A c \in Conns : ConnOK(k[c])
      /\ RepliesOK(t, k) /\ Position(cl, n, o) /\ DoneOK(cl, h, ended)
      /\ \A c \in Conns : cl.conn = c => FeedOK(c, k[c], cl, h, n, ended, o, t)
  BY DEF StreamAt
<1>3. PICK o2 : o2 = Log!OldestRetainedId(l2.runs[Run])
  OBVIOUS
<1>4. Shrinks(l, l2, ended)
  BY <1>2, CompactShrinks
<1>5. LogOK(l2, ended) /\ ended /\ l2.runs[Run].history = h /\ o2 = Len(h)
  BY <1>2, <1>3, <1>4 DEF Shrinks
<1>6. Position(cl, n, o2)
  <2>1. cl.seen \in Nat
    BY <1>1 DEF Clients
  <2> QED
    BY <1>1, <1>2, <1>5, <2>1 DEF Position
<1>7. ASSUME NEW c \in Conns, cl.conn = c PROVE FeedOK(c, k[c], cl, h, n, ended, o2, t)
  <2>1. PICK x : x = k[c]
    OBVIOUS
  <2>2. FeedOK(c, x, cl, h, n, ended, o, t) /\ o2 \in Nat /\ o <= o2
    BY <1>1, <1>2, <1>5, <1>7, <2>1
  <2>3. FeedOK(c, x, cl, h, n, ended, o2, t)
    BY <1>1, <2>2, FeedCompacted
  <2> QED
    BY <2>1, <2>3
<1>8. StreamAt(l2, st, e, t, k, cl, h, o2, n, ended)
  BY <1>2, <1>3, <1>5, <1>6, <1>7 DEF StreamAt
<1> QED
  BY <1>5, <1>8

(* The continuation of an append.                                          *)
LEMMA SettleStep ==
  ASSUME NEW l, NEW st, NEW e, NEW t, NEW k, NEW cl, NEW h, NEW o, NEW n, NEW ended,
         StreamAt(l, st, e, t, k, cl, h, o, n, ended),
         t # << >>, Head(t).op # "replay",
         NEW k2, k2 = [c \in Conns |-> k2[c]],
         \A c \in Conns : Notified(k[c], k2[c], Head(t).entry),
         NEW st2, st2 = IF Head(t).op = "end" THEN "terminal" ELSE st,
         NEW e2, e2 = IF Head(t).op = "end" THEN << Head(t).entry >> ELSE e
  PROVE  StreamAt(l, st2, e2, Tail(t), k2, cl, h, o, n + 1, ended)
<1>1. /\ HistoryOK(h, ended) /\ h \in Seq(Log!Entry) /\ Len(h) \in Nat /\ o \in Nat
      /\ n \in Nat /\ n <= Len(h) /\ t \in Seq(Tasks) /\ cl \in Clients
  BY StreamCounts
<1>2. /\ h = l.runs[Run].history /\ o = Log!OldestRetainedId(l.runs[Run])
      /\ LogOK(l, ended) /\ TasksOK(t, h, n) /\ PhaseOK(st, e, h, n) /\ Ended(st, ended)
      /\ k \in [Conns -> Connections] /\ \A c \in Conns : ConnOK(k[c])
      /\ RepliesOK(t, k) /\ Position(cl, n, o) /\ DoneOK(cl, h, ended)
      /\ \A c \in Conns : cl.conn = c => FeedOK(c, k[c], cl, h, n, ended, o, t)
  BY DEF StreamAt
<1>3. PICK entry, u, op : entry = Head(t).entry /\ u = Tail(t) /\ op = Head(t).op
  OBVIOUS
<1>4. /\ TasksOK(u, h, n + 1) /\ n + 1 <= Len(h) /\ entry = h[n + 1] /\ entry \in Log!Entry
      /\ op = "end" <=> IsEnd(entry)
  BY <1>1, <1>2, <1>3, AppendSettles
<1>5. op = "end" <=> (ended /\ n + 1 = Len(h))
  <2>1. n + 1 \in 1 .. Len(h)
    BY <1>1, <1>4
  <2>2. IsEnd(h[n + 1]) <=> (ended /\ n + 1 = Len(h))
    BY <1>1, <2>1, Zenon DEF HistoryOK
  <2> QED
    BY <1>4, <2>2, Zenon
<1>6. ended <=> st # "running"
  BY <1>2 DEF Ended
<1>7. PhaseOK(st2, e2, h, n + 1)
  <2>1. CASE op = "end"
    <3>1. st2 = "terminal" /\ e2 = << h[Len(h)] >> /\ n + 1 = Len(h)
      BY <1>3, <1>4, <1>5, <2>1
    <3> QED
      BY <3>1 DEF PhaseOK
  <2>2. CASE op # "end"
    <3>1. st2 = st /\ e2 = e
      BY <1>3, <2>2
    <3>2. st # "terminal" /\ st \in {"running", "finishing", "terminal"} /\ e = << >>
      BY <1>1, <1>2, <1>4 DEF PhaseOK
    <3>3. st = "finishing" => n + 1 # Len(h)
      BY <1>5, <1>6, <2>2
    <3>4. st = "running" => Len(h) <= (n + 1) + MaxEntries
      <4>1. MaxEntries \in Nat
        BY StreamAssumptions
      <4>2. st = "running" => Len(h) <= n + MaxEntries
        BY <1>2 DEF PhaseOK
      <4> QED
        BY <1>1, <4>1, <4>2
    <3>5. st = "finishing" => n + 1 < Len(h)
      BY <1>1, <1>4, <3>3
    <3> QED
      BY <3>1, <3>2, <3>4, <3>5 DEF PhaseOK
  <2> QED
    BY <2>1, <2>2
<1>8. Ended(st2, ended)
  <2>1. CASE op = "end"
    BY <1>2, <1>3, <1>5, <2>1 DEF Ended
  <2>2. CASE op # "end"
    BY <1>2, <1>3, <2>2
  <2> QED
    BY <2>1, <2>2
<1>9. ASSUME NEW c \in Conns PROVE ConnOK(k2[c]) /\ k2[c].call = k[c].call
  <2>1. PICK x, x2 : x = k[c] /\ x2 = k2[c]
    OBVIOUS
  <2>2. ConnOK(x) /\ Notified(x, x2, entry)
    BY <1>2, <1>3, <2>1
  <2>3. ConnOK(x2) /\ x2.call = x.call
    BY <1>4, <2>2, NotifiedOK
  <2> QED
    BY <2>1, <2>3
<1>10. k2 \in [Conns -> Connections]
  BY <1>9 DEF ConnOK
<1>11. RepliesOK(u, k2)
  BY <1>1, <1>2, <1>3, <1>9, RepliesSettled
<1>12. Position(cl, n + 1, o)
  <2>1. cl.seen \in Nat
    BY <1>1 DEF Clients
  <2> QED
    BY <1>1, <1>2, <2>1 DEF Position
<1>13. ASSUME NEW c \in Conns, cl.conn = c PROVE FeedOK(c, k2[c], cl, h, n + 1, ended, o, u)
  <2>1. PICK x, x2 : x = k[c] /\ x2 = k2[c]
    OBVIOUS
  <2>2. ConnOK(x) /\ Notified(x, x2, h[n + 1]) /\ FeedOK(c, x, cl, h, n, ended, o, t)
    BY <1>2, <1>3, <1>4, <1>13, <2>1
  <2>3. cl.seen <= n
    BY <1>2 DEF Position
  <2>4. FeedOK(c, x2, cl, h, n + 1, ended, o, u)
    BY <1>1, <1>3, <1>4, <2>2, <2>3, NotifiedFeed
  <2> QED
    BY <2>1, <2>4
<1> QED
  BY <1>2, <1>3, <1>4, <1>7, <1>8, <1>9, <1>10, <1>11, <1>12, <1>13 DEF StreamAt

(* The continuation of a replay.                                           *)
LEMMA ReplayStep ==
  ASSUME NEW l, NEW st, NEW e, NEW t, NEW k, NEW cl, NEW h, NEW o, NEW n, NEW ended,
         StreamAt(l, st, e, t, k, cl, h, o, n, ended),
         t # << >>, Head(t).op = "replay",
         NEW k2, k2 = [k EXCEPT ![Head(t).conn].call = "answered"]
  PROVE  StreamAt(l, st, e, Tail(t), k2, cl, h, o, n, ended)
<1>1. n \in Nat /\ t \in Seq(Tasks) /\ cl \in Clients
  BY StreamCounts
<1>2. /\ h = l.runs[Run].history /\ o = Log!OldestRetainedId(l.runs[Run])
      /\ LogOK(l, ended) /\ TasksOK(t, h, n) /\ PhaseOK(st, e, h, n) /\ Ended(st, ended)
      /\ k \in [Conns -> Connections] /\ \A c \in Conns : ConnOK(k[c])
      /\ RepliesOK(t, k) /\ Position(cl, n, o) /\ DoneOK(cl, h, ended)
      /\ \A c \in Conns : cl.conn = c => FeedOK(c, k[c], cl, h, n, ended, o, t)
  BY DEF StreamAt
<1>3. PICK u, d : u = Tail(t) /\ d = Head(t).conn
  OBVIOUS
<1>4. TasksOK(u, h, n)
  BY <1>2, <1>3, ReplayTaskSettles
<1>5. d \in Conns /\ k[d].call = "reading"
  BY <1>1, <1>2, <1>3, RepliesSettled
<1>6. ASSUME NEW c \in Conns
      PROVE  IF d = c THEN k2[c] = [k[c] EXCEPT !.call = "answered"] ELSE k2[c] = k[c]
  BY <1>2, <1>3, <1>6
<1>7. ASSUME NEW c \in Conns PROVE ConnOK(k2[c]) /\ (c # d => k2[c].call = k[c].call)
  <2>1. PICK x, x2 : x = k[c] /\ x2 = k2[c]
    OBVIOUS
  <2>2. ConnOK(x)
    BY <1>2, <2>1
  <2>3. CASE d = c
    <3>1. x.call = "reading" /\ x2 = [x EXCEPT !.call = "answered"]
      BY <1>5, <1>6, <2>1, <2>3
    <3>2. ConnOK(x2)
      BY <2>2, <3>1, AnsweredOK
    <3> QED
      BY <2>1, <2>3, <3>2
  <2>4. CASE d # c
    BY <1>6, <2>1, <2>2, <2>4
  <2> QED
    BY <2>3, <2>4
<1>8. k2 \in [Conns -> Connections]
  <2>1. k2 = [c \in Conns |-> k2[c]]
    BY <1>2
  <2> QED
    BY <1>7, <2>1 DEF ConnOK
<1>9. RepliesOK(u, k2)
  BY <1>1, <1>2, <1>3, <1>7, RepliesSettled
<1>10. ASSUME NEW c \in Conns, cl.conn = c PROVE FeedOK(c, k2[c], cl, h, n, ended, o, u)
  <2>1. PICK x, x2 : x = k[c] /\ x2 = k2[c]
    OBVIOUS
  <2>2. ConnOK(x) /\ FeedOK(c, x, cl, h, n, ended, o, t)
    BY <1>2, <1>10, <2>1
  <2>3. IF Head(t).conn = c THEN x.call = "reading" /\ x2 = [x EXCEPT !.call = "answered"]
                            ELSE x2 = x
    BY <1>3, <1>5, <1>6, <2>1
  <2>4. FeedOK(c, x2, cl, h, n, ended, o, u)
    BY <1>1, <1>3, <2>2, <2>3, AnsweredFeed
  <2> QED
    BY <2>1, <2>4
<1> QED
  BY <1>2, <1>3, <1>4, <1>7, <1>8, <1>9, <1>10 DEF StreamAt

(* What a step of one connection, which becomes x, and of the client keeps.*)
Serves(c, k, x, cl, cl2, h, n, ended, o, t) ==
  /\ ConnOK(x) /\ (k[c].call = "reading" => x.call = "reading")
  /\ Position(cl2, n, o) /\ DoneOK(cl2, h, ended)
  /\ cl2.conn = c => FeedOK(c, x, cl2, h, n, ended, o, t)
  /\ cl2 = cl \/ cl2.conn \in {c, NoConn}

LEMMA ConnStep ==
  ASSUME NEW l, NEW st, NEW e, NEW t, NEW k, NEW cl, NEW h, NEW o, NEW n, NEW ended,
         StreamAt(l, st, e, t, k, cl, h, o, n, ended),
         NEW c \in Conns, NEW x, NEW k2, k2 = [k EXCEPT ![c] = x],
         NEW cl2, Serves(c, k, x, cl, cl2, h, n, ended, o, t)
  PROVE  StreamAt(l, st, e, t, k2, cl2, h, o, n, ended)
<1>1. /\ h = l.runs[Run].history /\ o = Log!OldestRetainedId(l.runs[Run])
      /\ LogOK(l, ended) /\ TasksOK(t, h, n) /\ PhaseOK(st, e, h, n) /\ Ended(st, ended)
      /\ k \in [Conns -> Connections] /\ \A d \in Conns : ConnOK(k[d])
      /\ RepliesOK(t, k)
      /\ \A d \in Conns : cl.conn = d => FeedOK(d, k[d], cl, h, n, ended, o, t)
  BY DEF StreamAt
<1>2. /\ ConnOK(x) /\ (k[c].call = "reading" => x.call = "reading") /\ Position(cl2, n, o)
      /\ DoneOK(cl2, h, ended)
      /\ cl2.conn = c => FeedOK(c, x, cl2, h, n, ended, o, t)
      /\ cl2 = cl \/ cl2.conn \in {c, NoConn}
  BY DEF Serves
<1>3. k2[c] = x /\ \A d \in Conns \ {c} : k2[d] = k[d]
  BY <1>1
<1>4. k2 \in [Conns -> Connections]
  BY <1>2, <1>1 DEF ConnOK
<1>5. \A d \in Conns : ConnOK(k2[d])
  BY <1>2, <1>1, <1>3
<1>6. RepliesOK(t, k2)
  <2>1. t \in Seq(Tasks)
    BY <1>1 DEF TasksOK
  <2>2. ASSUME NEW p \in 1 .. Len(t), t[p].op = "replay", k[t[p].conn].call = "reading"
        PROVE  k2[t[p].conn].call = "reading"
    <3>1. t[p] \in Tasks
      BY <2>1, ElementOfSeq
    <3>2. t[p].conn \in Conns
      BY <2>2, <3>1 DEF Tasks
    <3> QED
      BY <1>2, <1>3, <2>2, <3>2
  <2> QED
    BY <1>1, <2>2, RepliesKept
<1>7. ASSUME NEW d \in Conns, cl2.conn = d PROVE FeedOK(d, k2[d], cl2, h, n, ended, o, t)
  <2>1. d # NoConn
    BY StreamAssumptions
  <2>2. CASE d = c
    <3>1. FeedOK(c, x, cl2, h, n, ended, o, t)
      BY <1>2, <1>7, <2>2
    <3> QED
      BY <1>3, <2>2, <3>1
  <2>3. CASE d # c
    <3>1. cl2 = cl
      BY <1>2, <1>7, <2>1, <2>3
    <3>2. FeedOK(d, k[d], cl2, h, n, ended, o, t)
      BY <1>1, <1>7, <3>1, Zenon
    <3> QED
      BY <1>3, <2>3, <3>2
  <2> QED
    BY <2>2, <2>3
<1> QED
  BY <1>2, <1>1, <1>4, <1>5, <1>6, <1>7 DEF StreamAt

(* A request takes a free slot.                                            *)
LEMMA RequestStep ==
  ASSUME NEW l, NEW st, NEW e, NEW t, NEW k, NEW cl, NEW h, NEW o, NEW n, NEW ended,
         StreamAt(l, st, e, t, k, cl, h, o, n, ended),
         NEW c \in Conns, k[c].call = "returned", ~cl.sawEnd, NEW x,
         x = [NewConn EXCEPT !.answer = Log!Replay(l, Run, cl.cursor)],
         NEW k2, k2 = [k EXCEPT ![c] = x],
         NEW cl2, cl2 = [cl EXCEPT !.conn = c], NEW u, Asked(u, t, c)
  PROVE  StreamAt(l, st, e, u, k2, cl2, h, o, n, ended)
<1>1. t \in Seq(Tasks) /\ cl \in Clients
  BY StreamCounts
<1>2. /\ h = l.runs[Run].history /\ o = Log!OldestRetainedId(l.runs[Run])
      /\ LogOK(l, ended) /\ TasksOK(t, h, n) /\ PhaseOK(st, e, h, n) /\ Ended(st, ended)
      /\ k \in [Conns -> Connections] /\ \A d \in Conns : ConnOK(k[d])
      /\ RepliesOK(t, k) /\ Position(cl, n, o)
  BY DEF StreamAt
<1>3. k[c].call # "reading"
  OBVIOUS
<1>4. NotAsked(t, c)
  <2>1. PICK y : y = [k EXCEPT ![c] = [k[c] EXCEPT !.call = "reading"]]
    OBVIOUS
  <2>2. k[c] \in Connections
    BY <1>2
  <2>3. y[c].call = "reading" /\ \A d \in Conns \ {c} : y[d] = k[d]
    BY <1>2, <2>1, <2>2 DEF Connections
  <2> QED
    BY <1>1, <1>2, <1>3, <2>3, RepliesAsked
<1>5. Joins(c, x, cl, cl2, h, n, ended, o, u)
  BY <1>2, <1>4, RequestedFeed
<1>6. /\ ConnOK(x) /\ x.call = "reading" /\ Position(cl2, n, o) /\ DoneOK(cl2, h, ended)
      /\ FeedOK(c, x, cl2, h, n, ended, o, u)
  BY <1>5 DEF Joins, Rests, DoneOK
<1>7. k2[c] = x /\ \A d \in Conns \ {c} : k2[d] = k[d]
  BY <1>2
<1>8. RepliesOK(u, k2)
  BY <1>1, <1>2, <1>3, <1>6, <1>7, RepliesAsked
<1>9. TasksOK(u, h, n)
  BY <1>2, ReplayTask DEF Asked
<1>10. k2 \in [Conns -> Connections] /\ \A d \in Conns : ConnOK(k2[d])
  BY <1>2, <1>6, <1>7 DEF ConnOK
<1>11. cl2.conn = c
  BY <1>1 DEF Clients
<1>12. ASSUME NEW d \in Conns, cl2.conn = d PROVE FeedOK(d, k2[d], cl2, h, n, ended, o, u)
  <2>1. d = c
    BY <1>11, <1>12
  <2> QED
    BY <1>6, <1>7, <2>1
<1> QED
  BY <1>2, <1>6, <1>8, <1>9, <1>10, <1>12 DEF StreamAt

(* The client changes, having no connection.                               *)
LEMMA AloneStep ==
  ASSUME NEW l, NEW st, NEW e, NEW t, NEW k, NEW cl, NEW h, NEW o, NEW n, NEW ended,
         StreamAt(l, st, e, t, k, cl, h, o, n, ended),
         NEW cl2, Position(cl2, n, o), DoneOK(cl2, h, ended), cl2.conn = NoConn
  PROVE  StreamAt(l, st, e, t, k, cl2, h, o, n, ended)
<1>1. \A c \in Conns : cl2.conn # c
  BY StreamAssumptions
<1> QED
  BY <1>1 DEF StreamAt

(* The client loses its connection, with its cursor or without.            *)
Gone(cl, cl2, n, o) ==
  Position(cl2, n, o) /\ cl2.conn = NoConn /\ Rests(cl, cl2)

LEMMA Disconnected ==
  ASSUME NEW cl, NEW n, NEW o, Position(cl, n, o), NEW cursor,
         cursor = cl.cursor \/ (cursor = Log!NullCursor /\ cl.seen + 1 < o),
         NEW cl2, cl2 = [cl EXCEPT !.conn = NoConn, !.cursor = cursor]
  PROVE  Gone(cl, cl2, n, o)
<1>1. cl \in Clients
  BY DEF Position
<1>2. cursor \in Nat \cup {Log!NullCursor}
  BY <1>1 DEF Clients
<1>3. /\ cl2 \in Clients /\ cl2.conn = NoConn /\ cl2.seen = cl.seen /\ cl2.cursor = cursor
      /\ cl2.reads = cl.reads /\ cl2.sawEnd = cl.sawEnd
  BY <1>1, <1>2 DEF Clients
<1> QED
  BY <1>3 DEF Position, Gone, Rests

LEMMA Reloaded ==
  ASSUME NEW cl, NEW n, NEW o, Position(cl, n, o), NEW cl2, cl2 = [cl EXCEPT !.sawEnd = FALSE]
  PROVE  /\ Position(cl2, n, o) /\ cl2.conn = cl.conn /\ cl2.seen = cl.seen
         /\ cl2.reads = cl.reads /\ ~cl2.sawEnd
<1>1. cl \in Clients
  BY DEF Position
<1>2. /\ cl2 \in Clients /\ cl2.conn = cl.conn /\ cl2.seen = cl.seen /\ cl2.cursor = cl.cursor
      /\ cl2.reads = cl.reads /\ ~cl2.sawEnd
  BY <1>1 DEF Clients
<1> QED
  BY <1>2 DEF Position

(* What the phases say of the end.                                         *)
LEMMA PhaseIsOver ==
  ASSUME NEW l, NEW st, NEW e, NEW t, NEW k, NEW cl, NEW h, NEW o, NEW n, NEW ended,
         StreamAt(l, st, e, t, k, cl, h, o, n, ended)
  PROVE  Over(st, n, h, ended) /\ e \in Entries /\ (st = "terminal" => e = << h[Len(h)] >>)
<1>1. n \in Nat /\ Len(h) \in Nat /\ h \in Seq(Log!Entry) /\ Len(h) > 0
  <2>1. n \in Nat /\ Len(h) \in Nat /\ h \in Seq(Log!Entry) /\ HistoryOK(h, ended)
    BY StreamCounts
  <2> QED
    BY <2>1 DEF HistoryOK
<1>2. PhaseOK(st, e, h, n)
  BY DEF StreamAt
<1>3. ended <=> st # "running"
  BY DEF StreamAt, Ended
<1>4. Over(st, n, h, ended)
  BY <1>1, <1>2, <1>3 DEF PhaseOK, Over
<1>5. h[Len(h)] \in Log!Entry
  <2>1. Len(h) \in 1 .. Len(h)
    BY <1>1
  <2> QED
    BY <1>1, <2>1, ElementOfSeq
<1>6. e \in Entries
  <2>1. PICK last : last = h[Len(h)]
    OBVIOUS
  <2>2. << last >> \in Seq(Log!Entry) /\ << >> \in Seq(Log!Entry)
    BY <1>5, <2>1
  <2> QED
    BY <1>2, <2>1, <2>2 DEF PhaseOK, Entries
<1> QED
  BY <1>2, <1>4, <1>6 DEF PhaseOK

(***************************************************************************)
(* What a step is to the client: an event more, a compaction, or one step  *)
(* of the client through the r recorded events, of which the log retains   *)
(* those from o on.                                                        *)
(***************************************************************************)
FeedStep(r, o, ended, cl, r2, o2, ended2, cl2) ==
  \/ ~ended /\ r2 = r + 1 /\ o2 \in o .. r + 1 /\ Rests(cl, cl2)
  \/ ended /\ ended2 = ended /\ r2 = r /\ o2 = r /\ Rests(cl, cl2)
  \/ r2 = r /\ o2 = o /\ ended2 = ended /\ Advances(cl, cl2, r, o, ended)

Proceeds(h, o, ended, cl, l2, st2, e2, t2, k2, cl2) ==
  \E h2, o2, n2 : \E ended2 \in BOOLEAN :
    /\ StreamAt(l2, st2, e2, t2, k2, cl2, h2, o2, n2, ended2)
    /\ FeedStep(Len(h), o, ended, cl, Len(h2), o2, ended2, cl2)

(* A step that records nothing and loses nothing.                          *)
LEMMA Proceeding ==
  ASSUME NEW h, NEW o, NEW ended, NEW cl, NEW l2, NEW st2, NEW e2, NEW t2, NEW k2, NEW cl2,
         NEW n2, StreamAt(l2, st2, e2, t2, k2, cl2, h, o, n2, ended),
         Advances(cl, cl2, Len(h), o, ended)
  PROVE  Proceeds(h, o, ended, cl, l2, st2, e2, t2, k2, cl2)
<1>1. FeedStep(Len(h), o, ended, cl, Len(h), o, ended, cl2)
  BY Zenon DEF FeedStep
<1>2. ended \in BOOLEAN
  BY DEF StreamAt, Ended
<1> QED
  BY <1>1, <1>2, Zenon DEF Proceeds

(* A client that reads nothing.                                            *)
LEMMA Resting ==
  ASSUME NEW cl, NEW cl2, Rests(cl, cl2), NEW r, NEW o, NEW ended
  PROVE  Advances(cl, cl2, r, o, ended)
BY DEF Advances

LEMMA Idle == ASSUME NEW cl PROVE Rests(cl, cl)
BY DEF Rests

LEMMA RecordProceeds ==
  ASSUME NEW h, NEW o, NEW n, NEW ended,
         StreamAt(log, state, end, tasks, conn, client, h, o, n, ended), Emit \/ Finish
  PROVE  Proceeds(h, o, ended, client, log', state', end', tasks', conn', client')
<1>1. PICK l2, st2, u : l2 = log' /\ st2 = state' /\ u = tasks'
  OBVIOUS
<1>2. state = "running" /\ end' = end /\ conn' = conn /\ client' = client
  BY DEF Emit, Finish
<1>3. PICK event \in {"agent", "end"} :
        /\ l2 = Log!AppendTo(log, Run, event, "data", "none")
        /\ st2 = IF event = "end" THEN "finishing" ELSE "running"
        /\ u = Append(tasks, [op    |-> IF event = "end" THEN "end" ELSE "emit",
                              entry |-> Last(l2.runs[Run].history)])
        /\ event = "agent" => Cardinality(AppendsIn(tasks)) < MaxEntries
  <2>1. CASE Emit
    <3>1. /\ l2 = Log!AppendTo(log, Run, "agent", "data", "none") /\ st2 = "running"
          /\ u = Append(tasks, [op |-> "emit", entry |-> Last(l2.runs[Run].history)])
          /\ Cardinality(AppendsIn(tasks)) < MaxEntries
      BY <1>1, <2>1 DEF Emit, Record, BurstFits, Appends, AppendsIn
    <3> QED
      BY <3>1
  <2>2. CASE Finish
    <3>1. /\ l2 = Log!AppendTo(log, Run, "end", "data", "none") /\ st2 = "finishing"
          /\ u = Append(tasks, [op |-> "end", entry |-> Last(l2.runs[Run].history)])
      BY <1>1, <2>2 DEF Finish, Record
    <3> QED
      BY <3>1
  <2> QED
    BY <2>1, <2>2
<1>4. PICK op : op = IF event = "end" THEN "end" ELSE "emit"
  OBVIOUS
<1>5. StreamAt(log, "running", end, tasks, conn, client, h, o, n, ended)
  BY <1>2, Zenon
<1>6. u = Append(tasks, [op |-> op, entry |-> Last(l2.runs[Run].history)])
  BY <1>3, <1>4
<1>7. OneRecorded(l2, st2, end, u, conn, client, h, o, n)
  BY <1>3, <1>4, <1>5, <1>6, RecordStep
<1>8. PICK h2, o2 : \E ended2 \in BOOLEAN :
        /\ StreamAt(l2, st2, end, u, conn, client, h2, o2, n, ended2)
        /\ Len(h2) = Len(h) + 1 /\ o <= o2
  BY <1>7 DEF OneRecorded
<1>9. PICK ended2 \in BOOLEAN :
        /\ StreamAt(l2, st2, end, u, conn, client, h2, o2, n, ended2)
        /\ Len(h2) = Len(h) + 1 /\ o <= o2
  BY <1>8, Zenon
<1>10. /\ Len(h) \in Nat /\ o \in Nat /\ o2 \in Nat /\ o2 <= Len(h2)
  BY <1>9, StreamCounts
<1>11. ~ended
  BY <1>2 DEF StreamAt, Ended
<1>12. o2 \in o .. Len(h) + 1
  BY <1>10, <1>9
<1>13. FeedStep(Len(h), o, ended, client, Len(h2), o2, ended2, client)
  BY <1>9, <1>11, <1>12, Idle, Zenon DEF FeedStep
<1>14. Proceeds(h, o, ended, client, l2, st2, end, u, conn, client)
  BY <1>9, <1>13, Zenon DEF Proceeds
<1> QED
  BY <1>1, <1>2, <1>14, Zenon

LEMMA CompactProceeds ==
  ASSUME NEW h, NEW o, NEW n, NEW ended,
         StreamAt(log, state, end, tasks, conn, client, h, o, n, ended), Compact
  PROVE  Proceeds(h, o, ended, client, log', state', end', tasks', conn', client')
<1>1. PICK l2 : l2 = log'
  OBVIOUS
<1>2. /\ log.runs[Run].compaction /\ l2 = Log!CompactRun(log, Run)
      /\ state' = state /\ end' = end /\ tasks' = tasks /\ conn' = conn /\ client' = client
  BY <1>1 DEF Compact, Log!Compact
<1>3. PICK o2 : /\ StreamAt(l2, state, end, tasks, conn, client, h, o2, n, ended)
                /\ o2 = Len(h) /\ ended
  BY <1>2, CompactStep
<1>4. FeedStep(Len(h), o, ended, client, Len(h), o2, ended, client)
  BY <1>3, Idle, Zenon DEF FeedStep
<1>5. ended \in BOOLEAN
  BY DEF StreamAt, Ended
<1>6. Proceeds(h, o, ended, client, l2, state, end, tasks, conn, client)
  BY <1>3, <1>4, <1>5, Zenon DEF Proceeds
<1> QED
  BY <1>1, <1>2, <1>6, Zenon

LEMMA SettleProceeds ==
  ASSUME NEW h, NEW o, NEW n, NEW ended,
         StreamAt(log, state, end, tasks, conn, client, h, o, n, ended),
         EmitSettles \/ FinishSettles
  PROVE  Proceeds(h, o, ended, client, log', state', end', tasks', conn', client')
<1>1. PICK st2, e2, k2, entry : st2 = state' /\ e2 = end' /\ k2 = conn' /\ entry = Head(tasks).entry
  OBVIOUS
<1>2. /\ tasks # << >> /\ Head(tasks).op # "replay" /\ k2 = Notify(entry)
      /\ st2 = IF Head(tasks).op = "end" THEN "terminal" ELSE state
      /\ e2 = IF Head(tasks).op = "end" THEN << Head(tasks).entry >> ELSE end
      /\ tasks' = Tail(tasks) /\ log' = log /\ client' = client
  <2>1. CASE EmitSettles
    BY <1>1, <2>1 DEF EmitSettles
  <2>2. CASE FinishSettles
    BY <1>1, <2>2 DEF FinishSettles
  <2> QED
    BY <2>1, <2>2
<1>3. k2 = [c \in Conns |-> k2[c]]
  BY <1>2 DEF Notify
<1>4. ASSUME NEW c \in Conns PROVE Notified(conn[c], k2[c], entry)
  <2>1. k2[c] = CASE conn[c].sub = "replaying" -> [conn[c] EXCEPT !.buffered = Append(@, entry)]
                  [] conn[c].sub = "live"      ->
                       AfterClose([conn[c] EXCEPT !.channel = Sse!OnEvents(@, << entry >>)])
                  [] OTHER                     -> conn[c]
    BY <1>2 DEF Notify
  <2>2. CASE conn[c].sub = "replaying"
    BY <2>1, <2>2 DEF Notified
  <2>3. CASE conn[c].sub = "live"
    BY <2>1, <2>3 DEF Notified
  <2>4. CASE conn[c].sub \notin {"replaying", "live"}
    BY <2>1, <2>4 DEF Notified
  <2> QED
    BY <2>2, <2>3, <2>4
<1>5. StreamAt(log, st2, e2, Tail(tasks), k2, client, h, o, n + 1, ended)
  BY <1>1, <1>2, <1>3, <1>4, SettleStep
<1>6. Advances(client, client, Len(h), o, ended)
  BY Idle, Resting
<1>7. Proceeds(h, o, ended, client, log, st2, e2, Tail(tasks), k2, client)
  BY <1>5, <1>6, Proceeding
<1> QED
  BY <1>1, <1>2, <1>7, Zenon

LEMMA ReplayProceeds ==
  ASSUME NEW h, NEW o, NEW n, NEW ended,
         StreamAt(log, state, end, tasks, conn, client, h, o, n, ended), ReplaySettles
  PROVE  Proceeds(h, o, ended, client, log', state', end', tasks', conn', client')
<1>1. PICK k2 : k2 = conn'
  OBVIOUS
<1>2. /\ tasks # << >> /\ Head(tasks).op = "replay"
      /\ k2 = [conn EXCEPT ![Head(tasks).conn].call = "answered"]
      /\ tasks' = Tail(tasks) /\ log' = log /\ state' = state /\ end' = end /\ client' = client
  BY <1>1 DEF ReplaySettles
<1>3. StreamAt(log, state, end, Tail(tasks), k2, client, h, o, n, ended)
  BY <1>2, ReplayStep
<1>4. Advances(client, client, Len(h), o, ended)
  BY Idle, Resting
<1>5. Proceeds(h, o, ended, client, log, state, end, Tail(tasks), k2, client)
  BY <1>3, <1>4, Proceeding
<1> QED
  BY <1>1, <1>2, <1>5, Zenon

(* A step of the server's side of a connection.                            *)
LEMMA ServerProceeds ==
  ASSUME NEW h, NEW o, NEW n, NEW ended,
         StreamAt(log, state, end, tasks, conn, client, h, o, n, ended),
         NEW c \in Conns, Deliver(c) \/ Return(c) \/ Drain(c) \/ NoticeCut(c)
  PROVE  Proceeds(h, o, ended, client, log', state', end', tasks', conn', client')
<1>1. /\ HistoryOK(h, ended) /\ n \in Nat /\ n <= Len(h) /\ client \in Clients
  BY StreamCounts
<1>2. /\ Over(state, n, h, ended) /\ end \in Entries
      /\ (state = "terminal" => end = << h[Len(h)] >>)
  BY PhaseIsOver
<1>3. /\ conn \in [Conns -> Connections] /\ Position(client, n, o) /\ DoneOK(client, h, ended)
      /\ \A d \in Conns : ConnOK(conn[d])
      /\ \A d \in Conns : client.conn = d => FeedOK(d, conn[d], client, h, n, ended, o, tasks)
  BY DEF StreamAt
<1>4. PICK k, k2 : k = conn[c] /\ k2 = conn'
  OBVIOUS
<1>5. ConnOK(k) /\ (client.conn = c => FeedOK(c, k, client, h, n, ended, o, tasks))
  BY <1>3, <1>4
<1>6. /\ log' = log /\ state' = state /\ end' = end /\ tasks' = tasks /\ client' = client
  BY DEF Deliver, Return, Drain, NoticeCut
<1>7. PICK x :
        /\ k2 = [conn EXCEPT ![c] = x] /\ ConnOK(x) /\ (k.call = "reading" => x.call = "reading")
        /\ (client.conn = c => FeedOK(c, x, client, h, n, ended, o, tasks))
  <2>1. CASE Deliver(c)
    <3>1. PICK x : k2 = [conn EXCEPT ![c] = x] /\ Delivered(k, x, state, end)
      BY <1>4, <2>1 DEF Deliver, Delivered
    <3>2. k.call = "answered"
      BY <1>4, <2>1 DEF Deliver
    <3>3. ConnOK(x)
      BY <1>2, <1>5, <3>1, <3>2, DeliveredOK
    <3>4. client.cursor # Log!NullCursor => client.cursor = client.seen
      BY <1>3 DEF Position
    <3>5. client.conn = c => FeedOK(c, x, client, h, n, ended, o, tasks)
      BY <1>1, <1>2, <1>5, <3>1, <3>2, <3>4, DeliveredFeed
    <3> QED
      BY <3>1, <3>2, <3>3, <3>5
  <2>2. CASE Return(c)
    <3>1. conn' = [conn EXCEPT ![c] = GoesOn(conn[c])]
      BY <2>2 DEF Return, GoesOn
    <3>2. PICK x : x = GoesOn(conn[c])
      OBVIOUS
    <3>3. k.call = "delivered"
      BY <1>4, <2>2 DEF Return
    <3>4. k2 = [conn EXCEPT ![c] = x] /\ Returned(k, x)
      BY <1>4, <3>1, <3>2, Zenon DEF Returned
    <3>5. ConnOK(x)
      BY <1>5, <3>3, <3>4, ReturnedOK
    <3>6. client.conn = c => FeedOK(c, x, client, h, n, ended, o, tasks)
      BY <1>1, <1>5, <3>3, <3>4, ReturnedFeed
    <3> QED
      BY <3>3, <3>4, <3>5, <3>6
  <2>3. CASE Drain(c)
    <3>1. PICK x : x = AfterClose([conn[c] EXCEPT !.channel = Sse!Drained(conn[c].channel)])
      OBVIOUS
    <3>2. conn' = [conn EXCEPT ![c] = x] /\ Sse!CanDrain(conn[c].channel)
      BY <2>3, <3>1 DEF Drain
    <3>3. x = AfterClose([k EXCEPT !.channel = Sse!Drained(k.channel)])
      BY <1>4, <3>1, Zenon
    <3>4. k2 = [conn EXCEPT ![c] = x] /\ Sse!CanDrain(k.channel)
      BY <1>4, <3>2, Zenon
    <3>5. /\ ConnOK(x) /\ x.call = k.call
          /\ \E ch : Rechanneled(k, x, ch) /\ \E j \in Nat : Moves(k.channel, ch, j)
      BY <1>5, <3>3, <3>4, DrainedIs
    <3>6. PICK ch : Rechanneled(k, x, ch) /\ \E j \in Nat : Moves(k.channel, ch, j)
      BY <3>5
    <3>7. PICK j \in Nat : Moves(k.channel, ch, j)
      BY <3>6
    <3>8. client.conn = c => FeedOK(c, x, client, h, n, ended, o, tasks)
      BY <1>1, <1>5, <3>6, <3>7, RechannelFeed
    <3> QED
      BY <3>4, <3>5, <3>8
  <2>4. CASE NoticeCut(c)
    <3>1. PICK x : x = AfterClose([conn[c] EXCEPT !.channel = Sse!MarkClosed(conn[c].channel)])
      OBVIOUS
    <3>2. conn' = [conn EXCEPT ![c] = x]
      BY <2>4, <3>1 DEF NoticeCut
    <3>3. x = AfterClose([k EXCEPT !.channel = Sse!MarkClosed(k.channel)])
      BY <1>4, <3>1, Zenon
    <3>4. k2 = [conn EXCEPT ![c] = x]
      BY <1>4, <3>2, Zenon
    <3>5. /\ ConnOK(x) /\ x.call = k.call
          /\ \E ch : Rechanneled(k, x, ch) /\ \E j \in Nat : Moves(k.channel, ch, j)
      BY <1>5, <3>3, ClosedIs
    <3>6. PICK ch : Rechanneled(k, x, ch) /\ \E j \in Nat : Moves(k.channel, ch, j)
      BY <3>5
    <3>7. PICK j \in Nat : Moves(k.channel, ch, j)
      BY <3>6
    <3>8. client.conn = c => FeedOK(c, x, client, h, n, ended, o, tasks)
      BY <1>1, <1>5, <3>6, <3>7, RechannelFeed
    <3> QED
      BY <3>4, <3>5, <3>8
  <2> QED
    BY <2>1, <2>2, <2>3, <2>4
<1>8. Serves(c, conn, x, client, client, h, n, ended, o, tasks)
  BY <1>3, <1>4, <1>7 DEF Serves
<1>9. StreamAt(log, state, end, tasks, k2, client, h, o, n, ended)
  BY <1>7, <1>8, ConnStep
<1>10. Advances(client, client, Len(h), o, ended)
  BY Idle, Resting
<1>11. Proceeds(h, o, ended, client, log, state, end, tasks, k2, client)
  BY <1>9, <1>10, Proceeding
<1> QED
  BY <1>4, <1>6, <1>11, Zenon

LEMMA RequestProceeds ==
  ASSUME NEW h, NEW o, NEW n, NEW ended,
         StreamAt(log, state, end, tasks, conn, client, h, o, n, ended),
         NEW c \in Conns, Request(c)
  PROVE  Proceeds(h, o, ended, client, log', state', end', tasks', conn', client')
<1>1. PICK k2, cl2, u, x :
        /\ k2 = conn' /\ cl2 = client' /\ u = tasks'
        /\ x = [NewConn EXCEPT !.answer = Log!Replay(log, Run, client.cursor)]
  OBVIOUS
<1>2. /\ conn[c].call = "returned" /\ k2 = [conn EXCEPT ![c] = x]
      /\ cl2 = [client EXCEPT !.conn = c] /\ Asked(u, tasks, c) /\ ~client.sawEnd
      /\ log' = log /\ state' = state /\ end' = end
  BY <1>1 DEF Request, Released, Asked
<1>3. Rests(client, cl2)
  <2>1. client \in Clients
    BY StreamCounts
  <2> QED
    BY <1>2, <2>1 DEF Clients, Rests
<1>4. StreamAt(log, state, end, u, k2, cl2, h, o, n, ended)
  <2>1. x = [NewConn EXCEPT !.answer = Log!Replay(log, Run, client.cursor)]
    BY <1>1, Zenon
  <2> QED
    BY <1>2, <2>1, RequestStep
<1>5. Advances(client, cl2, Len(h), o, ended)
  BY <1>3, Resting
<1>6. Proceeds(h, o, ended, client, log, state, end, u, k2, cl2)
  BY <1>4, <1>5, Proceeding
<1> QED
  BY <1>1, <1>2, <1>6, Zenon

LEMMA ReceiveProceeds ==
  ASSUME NEW h, NEW o, NEW n, NEW ended,
         StreamAt(log, state, end, tasks, conn, client, h, o, n, ended),
         NEW c \in Conns, Receive(c)
  PROVE  Proceeds(h, o, ended, client, log', state', end', tasks', conn', client')
<1>1. /\ HistoryOK(h, ended) /\ n \in Nat /\ n <= Len(h) /\ client \in Clients /\ o \in Nat
  BY StreamCounts
<1>2. /\ conn \in [Conns -> Connections] /\ Position(client, n, o)
      /\ \A d \in Conns : ConnOK(conn[d])
      /\ \A d \in Conns : client.conn = d => FeedOK(d, conn[d], client, h, n, ended, o, tasks)
  BY DEF StreamAt
<1>3. PICK k, k2, cl2, e, x :
        /\ k = conn[c] /\ k2 = conn' /\ cl2 = client' /\ e = Head(conn[c].channel.wire)
        /\ x = [k EXCEPT !.channel.wire = Tail(k.channel.wire)]
  OBVIOUS
<1>4. /\ client.conn = c /\ k.channel.wire # << >> /\ k2 = [conn EXCEPT ![c] = x]
      /\ cl2 = [client EXCEPT !.cursor = e.id, !.seen = e.id, !.reads = client.reads + 1,
                              !.sawEnd = IsEnd(e)]
      /\ e = Head(k.channel.wire)
      /\ log' = log /\ state' = state /\ end' = end /\ tasks' = tasks
  BY <1>2, <1>3 DEF Receive
<1>5. ConnOK(k) /\ FeedOK(c, k, client, h, n, ended, o, tasks)
  BY <1>2, <1>3, <1>4
<1>6. Reads(k, x, e, client, cl2)
  BY <1>3, <1>4 DEF Reads
<1>7. Took(c, k, x, client, cl2, h, n, ended, o, tasks)
  BY <1>1, <1>2, <1>5, <1>6, ReceivedIs
<1>8. /\ ConnOK(x) /\ x.call = k.call /\ Position(cl2, n, o) /\ cl2.conn = client.conn
      /\ FeedOK(c, x, cl2, h, n, ended, o, tasks) /\ Gets(client, cl2, Len(h), o, ended)
      /\ DoneOK(cl2, h, ended)
  BY <1>7 DEF Took, Gets, DoneOK
<1>9. Serves(c, conn, x, client, cl2, h, n, ended, o, tasks)
  BY <1>3, <1>4, <1>8 DEF Serves
<1>10. StreamAt(log, state, end, tasks, k2, cl2, h, o, n, ended)
  BY <1>4, <1>9, ConnStep
<1>11. Advances(client, cl2, Len(h), o, ended)
  BY <1>8 DEF Advances
<1>12. Proceeds(h, o, ended, client, log, state, end, tasks, k2, cl2)
  BY <1>10, <1>11, Proceeding
<1> QED
  BY <1>3, <1>4, <1>12, Zenon

(* Eof and Cut.                                                            *)
LEMMA LeaveProceeds ==
  ASSUME NEW h, NEW o, NEW n, NEW ended,
         StreamAt(log, state, end, tasks, conn, client, h, o, n, ended),
         NEW c \in Conns, Eof(c) \/ Cut(c)
  PROVE  Proceeds(h, o, ended, client, log', state', end', tasks', conn', client')
<1>1. client \in Clients
  BY StreamCounts
<1>2. /\ conn \in [Conns -> Connections] /\ Position(client, n, o) /\ DoneOK(client, h, ended)
      /\ \A d \in Conns : ConnOK(conn[d])
      /\ \A d \in Conns : client.conn = d => FeedOK(d, conn[d], client, h, n, ended, o, tasks)
  BY DEF StreamAt
<1>3. PICK k, k2, cl2 : k = conn[c] /\ k2 = conn' /\ cl2 = client'
  OBVIOUS
<1>4. /\ client.conn = c /\ log' = log /\ state' = state /\ end' = end /\ tasks' = tasks
  BY DEF Eof, Cut
<1>5. ConnOK(k) /\ FeedOK(c, k, client, h, n, ended, o, tasks)
  BY <1>2, <1>3, <1>4
<1>6. PICK x : /\ k2 = [conn EXCEPT ![c] = x]
               /\ \/ x = [k EXCEPT !.cut = TRUE]
                  \/ x = [k EXCEPT !.cut = TRUE, !.channel.wire = << >>]
  <2>1. CASE Eof(c)
    <3>1. k2 = [conn EXCEPT ![c] = [k EXCEPT !.cut = TRUE]]
      BY <1>2, <1>3, <2>1 DEF Eof
    <3> QED
      BY <3>1
  <2>2. CASE Cut(c)
    <3>1. k2 = [conn EXCEPT ![c] = [k EXCEPT !.cut = TRUE, !.channel.wire = << >>]]
      BY <1>2, <1>3, <2>2 DEF Cut
    <3> QED
      BY <3>1
  <2> QED
    BY <2>1, <2>2
<1>7. ConnOK(x) /\ x.call = k.call
  BY <1>5, <1>6, CutIs
<1>8. PICK cursor : /\ cl2 = [client EXCEPT !.conn = NoConn, !.cursor = cursor]
                    /\ \/ cursor = client.cursor
                       \/ cursor = Log!NullCursor /\ k.refused
  <2>1. CASE Eof(c)
    <3>1. PICK cursor : cursor = IF k.refused THEN Log!NullCursor ELSE client.cursor
      OBVIOUS
    <3>2. cl2 = [client EXCEPT !.conn = NoConn, !.cursor = cursor]
      BY <1>3, <2>1, <3>1 DEF Eof
    <3> QED
      BY <3>1, <3>2
  <2>2. CASE Cut(c)
    <3>1. cl2 = [client EXCEPT !.conn = NoConn]
      BY <1>3, <2>2 DEF Cut
    <3>2. cl2 = [client EXCEPT !.conn = NoConn, !.cursor = client.cursor]
      BY <1>1, <3>1 DEF Clients
    <3> QED
      BY <3>2
  <2> QED
    BY <2>1, <2>2
<1>9. k.refused => client.seen + 1 < o
  BY <1>5 DEF FeedOK, Refusing
<1>10. Position(cl2, n, o) /\ cl2.conn = NoConn /\ Rests(client, cl2) /\ DoneOK(cl2, h, ended)
  <2>1. cursor = client.cursor \/ (cursor = Log!NullCursor /\ client.seen + 1 < o)
    BY <1>8, <1>9
  <2>2. Position(client, n, o) /\ cl2 = [client EXCEPT !.conn = NoConn, !.cursor = cursor]
    BY <1>2, <1>8
  <2>3. Gone(client, cl2, n, o)
    BY <2>1, <2>2, Disconnected
  <2> QED
    BY <1>2, <2>3 DEF Gone, Rests, DoneOK
<1>11. c # NoConn
  BY StreamAssumptions
<1>12. StreamAt(log, state, end, tasks, k2, cl2, h, o, n, ended)
  <2>1. Serves(c, conn, x, client, cl2, h, n, ended, o, tasks)
    BY <1>3, <1>7, <1>10, <1>11 DEF Serves
  <2> QED
    BY <1>6, <2>1, ConnStep
<1>13. Advances(client, cl2, Len(h), o, ended)
  BY <1>10, Resting
<1>14. Proceeds(h, o, ended, client, log, state, end, tasks, k2, cl2)
  BY <1>12, <1>13, Proceeding
<1> QED
  BY <1>3, <1>4, <1>14, Zenon

LEMMA ReloadProceeds ==
  ASSUME NEW h, NEW o, NEW n, NEW ended,
         StreamAt(log, state, end, tasks, conn, client, h, o, n, ended), Reload
  PROVE  Proceeds(h, o, ended, client, log', state', end', tasks', conn', client')
<1>1. PICK cl2 : cl2 = client'
  OBVIOUS
<1>2. /\ cl2 = [client EXCEPT !.sawEnd = FALSE] /\ client.conn = NoConn /\ client.sawEnd
      /\ log' = log /\ state' = state /\ end' = end /\ tasks' = tasks /\ conn' = conn
  BY <1>1 DEF Reload
<1>3. Position(client, n, o)
  BY DEF StreamAt
<1>4. /\ Position(cl2, n, o) /\ cl2.conn = NoConn /\ cl2.seen = client.seen
      /\ cl2.reads = client.reads /\ ~cl2.sawEnd /\ DoneOK(cl2, h, ended)
  BY <1>2, <1>3, Reloaded DEF DoneOK
<1>5. StreamAt(log, state, end, tasks, conn, cl2, h, o, n, ended)
  BY <1>4, AloneStep
<1>6. Advances(client, cl2, Len(h), o, ended)
  BY <1>2, <1>4 DEF Advances, Returns
<1>7. Proceeds(h, o, ended, client, log, state, end, tasks, conn, cl2)
  BY <1>5, <1>6, Proceeding
<1> QED
  BY <1>1, <1>2, <1>7, Zenon

(* The log a run starts with.                                              *)
LEMMA StartedLog ==
  ASSUME NEW l2, l2 = Log!AppendTo(Log!EmptyLog, Run, "start", "data", "none")
  PROVE  /\ LogOK(l2, FALSE) /\ Len(l2.runs[Run].history) = 1
         /\ Log!OldestRetainedId(l2.runs[Run]) = 1
<1>1. PICK l, rl, rl2, entry :
        /\ l = Log!EmptyLog /\ rl = l.runs[Run] /\ rl2 = l2.runs[Run]
        /\ entry = Log!NewEntry(rl, "start", "data", "none")
  OBVIOUS
<1>2. rl = Log!NoRunLog /\ rl = LogFacts!NoRunLog
  BY <1>1 DEF Log!EmptyLog, Log!NoRunLog, LogFacts!NoRunLog
<1>3. l \in Log!LogType /\ rl \in Log!RunLog
  BY <1>1, SameTypes, SameEmptyLog, LogFacts!EmptyLogType, RunLogType, LogFactsApply,
     StreamAssumptions
<1>4. rl.nextId = 1 /\ rl.entries = << >> /\ rl.history = << >>
  BY <1>2 DEF Log!NoRunLog
<1>5. "start" \in LogFacts!Events /\ "start" \in Log!Events
  BY DEF LogFacts!Events, LogFacts!TerminalEvent, Log!Events, Log!TerminalEvent
<1>6. entry \in Log!Entry /\ entry.event = "start" /\ entry.id = 1
  BY <1>1, <1>4, <1>5 DEF Log!NewEntry, Log!Entry
<1>7. rl2 = Log!Record(rl, entry)
  BY <1>1, <1>3, AppendRecords
<1>8. Append(<< >>, entry) = << entry >>
  OBVIOUS
<1>9. PICK s : s = << entry >>
  OBVIOUS
<1>10. s \in Seq(Log!Entry) /\ Len(s) = 1 /\ s[1] = entry /\ s # << >>
  BY <1>6, <1>9
<1>11. Log!Newest(s, MaxEntries) = s
  <2>1. ~(Len(s) > MaxEntries)
    BY <1>10, StreamAssumptions
  <2> QED
    BY <2>1, Zenon DEF Log!Newest
<1>12. rl2.held /\ rl2.history = s /\ rl2.entries = s /\ ~rl2.compaction
  <2>1. rl2.held /\ rl2.history = s
    BY <1>4, <1>7, <1>8, <1>9 DEF Log!Record
  <2>2. rl2.entries = Log!Newest(Append(rl.entries, entry), MaxEntries)
    BY <1>7 DEF Log!Record
  <2>3. rl2.entries = s
    BY <1>4, <1>8, <1>9, <1>11, <2>2
  <2>4. rl2.compaction = (InMemory /\ entry.event = "end")
    BY <1>7 DEF Log!Record, Log!TerminalEvent
  <2>5. ~rl2.compaction
    BY <1>6, <2>4
  <2> QED
    BY <2>1, <2>3, <2>5
<1>13. l2 \in Log!LogType
  BY <1>1, <1>3, <1>5, SameTypes, SameAppend, LogFacts!AppendToType, LogFactsApply,
     StreamAssumptions
<1>14. LogFacts!RetainsEnd(rl2)
  <2>1. LogFacts!Record(rl, LogFacts!NewEntry(rl, "start", "data", "none")) = rl2
    BY <1>1, <1>7, SameRecord DEF Log!NewEntry, LogFacts!NewEntry
  <2>2. LogFacts!RetainsEnd(rl)
    BY <1>2, LogFacts!NoRunRetainsEnd, LogFactsApply, StreamAssumptions
  <2>3. LogFacts!RetainsEnd(LogFacts!Record(rl, LogFacts!NewEntry(rl, "start", "data", "none")))
    BY <1>3, <1>5, <2>2, SameTypes, LogFacts!RecordRetainsEnd, LogFactsApply, StreamAssumptions
  <2> QED
    BY <2>1, <2>3
<1>15. HistoryOK(s, FALSE)
  <2>1. LogFacts!NumberedFrom(s, 0)
    BY <1>12, <1>14 DEF LogFacts!RetainsEnd
  <2>2. \A i \in 1 .. Len(s) : ~IsEnd(s[i])
    BY <1>6, <1>10 DEF IsEnd
  <2> QED
    BY <1>10, <2>1, <2>2 DEF HistoryOK
<1>16. KeepsEnough(rl2)
  BY <1>12 DEF KeepsEnough
<1>17. LogOK(l2, FALSE)
  BY <1>1, <1>12, <1>13, <1>14, <1>15, <1>16 DEF LogOK
<1>18. Log!OldestRetainedId(rl2) = 1
  BY <1>6, <1>10, <1>12 DEF Log!OldestRetainedId
<1> QED
  BY <1>1, <1>10, <1>12, <1>17, <1>18

LEMMA Holding ==
  ASSUME NEW l, NEW st, NEW e, NEW t, NEW k, NEW cl, NEW h, NEW o, NEW n, NEW ended,
         StreamAt(l, st, e, t, k, cl, h, o, n, ended)
  PROVE  StreamHolds(l, st, e, t, k, cl)
<1>1. h = l.runs[Run].history /\ o = Log!OldestRetainedId(l.runs[Run]) /\ ended \in BOOLEAN
  BY DEF StreamAt, Ended
<1>2. n \in Nat /\ Len(h) \in Nat /\ n <= Len(h)
  BY StreamCounts
<1>3. n \in 0 .. Len(h)
  BY <1>2
<1> QED
  BY <1>1, <1>3, Zenon DEF StreamHolds

LEMMA Held ==
  ASSUME NEW l, NEW st, NEW e, NEW t, NEW k, NEW cl, StreamHolds(l, st, e, t, k, cl)
  PROVE  \E h, o, n, ended : StreamAt(l, st, e, t, k, cl, h, o, n, ended)
BY Zenon DEF StreamHolds

LEMMA InitialStream ==
  ASSUME Init
  PROVE  StreamInv /\ client.seen = 0 /\ client.reads = 0 /\ client.sawEnd = FALSE
         /\ log.runs[Run].nextId = 2 /\ Log!OldestRetainedId(log.runs[Run]) = 1
<1>1. PICK h, o : h = log.runs[Run].history /\ o = Log!OldestRetainedId(log.runs[Run])
  OBVIOUS
<1>2. LogOK(log, FALSE) /\ Len(h) = 1 /\ o = 1
  BY <1>1, StartedLog DEF Init
<1>3. /\ state = "running" /\ end = << >> /\ tasks = << >> /\ conn = [c \in Conns |-> FreeConn]
      /\ drops = 0
      /\ client = [conn |-> NoConn, cursor |-> Log!NullCursor, seen |-> 0, reads |-> 0,
                   sawEnd |-> FALSE]
  BY DEF Init
<1>4. Len(tasks) = 0 /\ tasks \in Seq(Tasks)
  BY <1>3
<1>5. AppendsIn(tasks) = {}
  BY <1>4 DEF AppendsIn
<1>6. Cardinality(AppendsIn(tasks)) = 0
  BY <1>5, FS_EmptySet
<1>7. TasksOK(tasks, h, 1)
  BY <1>2, <1>4, <1>6 DEF TasksOK
<1>8. PhaseOK(state, end, h, 1)
  BY <1>2, <1>3, StreamAssumptions DEF PhaseOK
<1>9. Ended(state, FALSE)
  BY <1>3 DEF Ended
<1>10. ConnOK(FreeConn)
  BY FreeIs
<1>11. conn \in [Conns -> Connections] /\ \A c \in Conns : ConnOK(conn[c])
  BY <1>3, <1>10 DEF ConnOK
<1>12. RepliesOK(tasks, conn)
  BY <1>4 DEF RepliesOK
<1>13. Position(client, 1, o) /\ DoneOK(client, h, FALSE)
  BY <1>3 DEF Position, Clients, DoneOK
<1>14. \A c \in Conns : client.conn # c
  BY <1>3, StreamAssumptions
<1>15. StreamAt(log, state, end, tasks, conn, client, h, o, 1, FALSE)
  BY <1>1, <1>2, <1>7, <1>8, <1>9, <1>11, <1>12, <1>13, <1>14 DEF StreamAt
<1>16. drops \in 0 .. MaxDrops
  BY <1>3, StreamAssumptions
<1>17. PICK ended : ended = FALSE
  OBVIOUS
<1>18. StreamAt(log, state, end, tasks, conn, client, h, o, 1, ended)
  BY <1>15, <1>17, Zenon
<1>19. log.runs[Run].nextId = Len(h) + 1
  BY <1>18, StreamCounts
<1>20. StreamInv
  BY <1>16, <1>18, Holding DEF StreamInv
<1> QED
  BY <1>1, <1>2, <1>3, <1>19, <1>20

(* Every step keeps the invariant, and is a step of what is promised.      *)
LEMMA NextProceeds ==
  ASSUME NEW h, NEW o, NEW n, NEW ended,
         StreamAt(log, state, end, tasks, conn, client, h, o, n, ended), Next
  PROVE  Proceeds(h, o, ended, client, log', state', end', tasks', conn', client')
<1>1. CASE Emit \/ Finish
  BY <1>1, RecordProceeds
<1>2. CASE Compact
  BY <1>2, CompactProceeds
<1>3. CASE EmitSettles \/ FinishSettles
  BY <1>3, SettleProceeds
<1>4. CASE ReplaySettles
  BY <1>4, ReplayProceeds
<1>5. CASE \E c \in Conns : Deliver(c) \/ Return(c) \/ Drain(c) \/ NoticeCut(c)
  BY <1>5, ServerProceeds
<1>6. CASE \E c \in Conns : Request(c)
  BY <1>6, RequestProceeds
<1>7. CASE \E c \in Conns : Receive(c)
  BY <1>7, ReceiveProceeds
<1>8. CASE \E c \in Conns : Eof(c) \/ Cut(c)
  BY <1>8, LeaveProceeds
<1>9. CASE Reload
  BY <1>9, ReloadProceeds
<1> QED
  BY <1>1, <1>2, <1>3, <1>4, <1>5, <1>6, <1>7, <1>8, <1>9 DEF Next

LEMMA DropsBound ==
  ASSUME drops \in 0 .. MaxDrops, [Next]_vars
  PROVE  drops' \in 0 .. MaxDrops
<1>1. drops' = drops \/ (drops < MaxDrops /\ drops' = drops + 1)
  BY DEF Next, vars, Emit, Finish, Compact, EmitSettles, FinishSettles, ReplaySettles, Deliver,
         Return, Drain, NoticeCut, Request, Receive, Eof, Cut, Reload
<1> QED
  BY <1>1, StreamAssumptions

LEMMA StreamStep ==
  ASSUME StreamInv, [Next]_vars
  PROVE  StreamInv'
<1>1. drops' \in 0 .. MaxDrops
  BY DropsBound DEF StreamInv
<1>2. PICK h, o, n, ended : StreamAt(log, state, end, tasks, conn, client, h, o, n, ended)
  BY Held DEF StreamInv
<1>3. CASE Next
  <2>1. Proceeds(h, o, ended, client, log', state', end', tasks', conn', client')
    BY <1>2, <1>3, NextProceeds
  <2>2. PICK h2, o2, n2, ended2 :
          StreamAt(log', state', end', tasks', conn', client', h2, o2, n2, ended2)
    BY <2>1, Zenon DEF Proceeds
  <2>3. StreamHolds(log', state', end', tasks', conn', client')
    BY <2>2, Holding
  <2> QED
    BY <1>1, <2>3 DEF StreamInv
<1>4. CASE UNCHANGED vars
  BY <1>4 DEF vars, StreamInv
<1> QED
  BY <1>3, <1>4

(* The invariant is inductive: it holds in every behaviour.                *)
LEMMA StreamInvariant == Spec => []StreamInv
<1>1. Init => StreamInv
  BY InitialStream
<1>2. StreamInv /\ [Next]_vars => StreamInv'
  BY StreamStep
<1> QED
  BY <1>1, <1>2, PTL DEF Spec

-----------------------------------------------------------------------------
(* What the invariant says of a subscription                               *)

(* In every reachable state the types are right, and no queue and no       *)
(* socket holds more than its limit (sse.ts, enqueue).                     *)
THEOREM TypeCorrect == Spec => []RunStreamTypeOK
<1>1. ASSUME StreamInv PROVE RunStreamTypeOK
  <2>1. PICK h, o, n, ended : StreamAt(log, state, end, tasks, conn, client, h, o, n, ended)
    BY <1>1, Held DEF StreamInv
  <2>2. log \in Log!LogType /\ state \in {"running", "finishing", "terminal"}
    BY <2>1 DEF StreamAt, LogOK, PhaseOK
  <2>3. end \in Entries
    BY <2>1, PhaseIsOver
  <2>4. tasks \in Seq(Tasks) /\ client \in Clients
    BY <2>1, StreamCounts
  <2>5. conn \in [Conns -> Connections]
    BY <2>1 DEF StreamAt
  <2>6. \A c \in Conns : /\ Len(conn[c].channel.queue) <= MaxQueued
                         /\ Len(conn[c].channel.wire) <= HighWater
    BY <2>1 DEF StreamAt, ConnOK, ChannelOK
  <2> QED
    BY <1>1, <2>2, <2>3, <2>4, <2>5, <2>6 DEF RunStreamTypeOK, StreamInv
<1> QED
  BY <1>1, StreamInvariant, PTL

(* In every reachable state the run holds no subscriber of a connection    *)
(* whose handler has returned and whose channel is closed (runs.ts,        *)
(* handleRunEventStreamRequest, and run-lifecycle.ts, stream).             *)
THEOREM SubscribersDoNotLeak == Spec => []NoLeakedSubscriber
<1>1. ASSUME StreamInv PROVE NoLeakedSubscriber
  <2>1. PICK h, o, n, ended : StreamAt(log, state, end, tasks, conn, client, h, o, n, ended)
    BY <1>1, Held DEF StreamInv
  <2>2. \A c \in Conns : ConnOK(conn[c])
    BY <2>1 DEF StreamAt
  <2> QED
    BY <2>2 DEF ConnOK, NoLeakedSubscriber
<1> QED
  BY <1>1, StreamInvariant, PTL

-----------------------------------------------------------------------------
(* Completeness of the live stream                                         *)

(* s is the history h behind its first x entries.                          *)
Behind(s, h, x) ==
  /\ s \in Seq(Log!Entry) /\ Len(s) \in Nat /\ x \in Nat /\ x + Len(s) = Len(h)
  /\ \A i \in 1 .. Len(s) : s[i] = h[x + i]

DueIn(t) == LET appends == Log!Kept(t, AppendsIn(t))
            IN  [i \in 1 .. Len(appends) |-> appends[i].entry]

(* What is due to be notified is what has been recorded and not notified.  *)
LEMMA DueIsBehind ==
  ASSUME NEW t, NEW h \in Seq(Log!Entry), NEW n, TasksOK(t, h, n)
  PROVE  Behind(DueIn(t), h, n)
<1>1. t \in Seq(Tasks) /\ n \in Nat /\ Len(h) \in Nat /\ n + Cardinality(AppendsIn(t)) = Len(h)
  BY LenProperties DEF TasksOK
<1>2. PICK P, L, appends : P = AppendsIn(t) /\ L = Len(t) /\ appends = Log!Kept(t, P)
  OBVIOUS
<1>3. Within(P, L)
  BY <1>1, <1>2, AppendsWithin
<1>4. PICK d \in Nat : d = Cardinality(P)
  BY <1>1, <1>2, AppendsWithin
<1>5. /\ appends = [m \in 1 .. d |-> appends[m]]
      /\ \A m \in 1 .. d : \E i \in P : Below(P, i) = m /\ appends[m] = t[i]
  BY <1>2, <1>3, <1>4, KeptElements
<1>6. Len(appends) = d
  BY <1>4, <1>5
<1>7. ASSUME NEW m \in 1 .. d PROVE appends[m].entry = h[n + m] /\ h[n + m] \in Log!Entry
  <2>1. PICK i \in P : Below(P, i) = m /\ appends[m] = t[i]
    BY <1>5
  <2>2. i \in 1 .. Len(t) /\ t[i].op # "replay" /\ Place(t, i) = m
    BY <1>2, <2>1 DEF AppendsIn, Place
  <2>3. t[i].entry = h[n + m]
    BY <2>2 DEF TasksOK
  <2>4. n + m \in 1 .. Len(h)
    BY <1>1, <1>2, <1>4
  <2> QED
    BY <2>1, <2>3, <2>4, ElementOfSeq
<1>8. PICK due : due = [i \in 1 .. d |-> appends[i].entry]
  OBVIOUS
<1>9. due \in Seq(Log!Entry) /\ Len(due) = d /\ \A i \in 1 .. d : due[i] = h[n + i]
  BY <1>4, <1>7, <1>8
<1>10. n + d = Len(h)
  BY <1>1, <1>2, <1>4
<1>11. DueIn(t) = due
  BY <1>2, <1>6, <1>8 DEF DueIn
<1> QED
  BY <1>1, <1>4, <1>9, <1>10, <1>11 DEF Behind

(* On the wire, in the queue and due: everything behind x.                 *)
LEMMA ComingIsBehind ==
  ASSUME NEW h \in Seq(Log!Entry), NEW n \in Nat, n <= Len(h), NEW ended, NEW x \in Nat,
         NEW ch \in Channels, Carries(ch, h, n, ended, x), Complete(ch, n, x),
         NEW due, Behind(due, h, n), NEW coming, coming = ch.wire \o ch.queue \o due
  PROVE  Behind(coming, h, x)
<1>1. PICK w, q, sent : w = ch.wire /\ q = ch.queue /\ sent = w \o q
  OBVIOUS
<1>2. w \in Seq(Log!Entry) /\ q \in Seq(Log!Entry) /\ due \in Seq(Log!Entry)
  BY <1>1 DEF Channels, Entries, Behind
<1>3. PICK lw, lq, ld \in Nat : lw = Len(w) /\ lq = Len(q) /\ ld = Len(due)
  BY <1>2, LenProperties
<1>4. Len(h) \in Nat /\ x + (lw + lq) = n /\ n + ld = Len(h)
  BY <1>1, <1>3, LenProperties DEF Complete, Behind
<1>5. /\ \A i \in 1 .. lw : w[i] = h[x + i]
      /\ \A i \in 1 .. lq : (x + lw) + i <= Len(h) => q[i] = h[(x + lw) + i]
  BY <1>1, <1>3 DEF Carries
<1>6. \A i \in 1 .. ld : due[i] = h[n + i]
  BY <1>3 DEF Behind
<1>7. /\ sent \in Seq(Log!Entry) /\ Len(sent) = lw + lq
      /\ \A i \in 1 .. lw + lq : sent[i] = IF i <= lw THEN w[i] ELSE q[i - lw]
  <2>1. /\ sent \in Seq(Log!Entry) /\ Len(sent) = Len(w) + Len(q)
        /\ \A i \in 1 .. Len(w) + Len(q) : sent[i] = IF i <= Len(w) THEN w[i] ELSE q[i - Len(w)]
    <3>1. /\ w \o q \in Seq(Log!Entry) /\ Len(w \o q) = Len(w) + Len(q)
          /\ \A i \in 1 .. Len(w) + Len(q) :
               (w \o q)[i] = IF i <= Len(w) THEN w[i] ELSE q[i - Len(w)]
      BY <1>2, ConcatProperties
    <3> QED
      BY <1>1, <3>1, Zenon
  <2> QED
    BY <1>3, <2>1
<1>8. coming = sent \o due
  BY <1>1
<1>9. PICK ls \in Nat : ls = lw + lq
  OBVIOUS
<1>10. /\ coming \in Seq(Log!Entry) /\ Len(coming) = ls + ld
       /\ \A i \in 1 .. ls + ld : coming[i] = IF i <= ls THEN sent[i] ELSE due[i - ls]
  <2>1. /\ coming \in Seq(Log!Entry) /\ Len(coming) = Len(sent) + Len(due)
        /\ \A i \in 1 .. Len(sent) + Len(due) :
             coming[i] = IF i <= Len(sent) THEN sent[i] ELSE due[i - Len(sent)]
    BY <1>2, <1>7, <1>8, ConcatProperties
  <2>2. Len(sent) = ls /\ Len(due) = ld
    BY <1>3, <1>7, <1>9
  <2> QED
    BY <2>1, <2>2
<1>11. ASSUME NEW i \in 1 .. ls + ld PROVE coming[i] = h[x + i]
  <2>1. CASE i <= lw
    <3>1. i \in 1 .. lw /\ i <= ls /\ i \in 1 .. lw + lq
      BY <1>9, <2>1
    <3>2. coming[i] = sent[i]
      BY <1>10, <3>1
    <3>3. sent[i] = w[i]
      BY <1>7, <2>1, <3>1
    <3>4. coming[i] = sent[i] /\ sent[i] = w[i]
      BY <3>2, <3>3
    <3> QED
      BY <1>5, <3>1, <3>4
  <2>2. CASE ~(i <= lw) /\ i <= ls
    <3>1. PICK j \in Nat : i = lw + j
      <4>1. i - lw \in Nat /\ i = lw + (i - lw)
        BY <1>9, <2>2
      <4> QED
        BY <4>1
    <3>2. i - lw = j /\ j \in 1 .. lq /\ (x + lw) + j = x + i
      BY <1>9, <2>2, <3>1
    <3>3. (x + lw) + j <= Len(h)
      BY <1>4, <3>2
    <3>4. q[j] = h[(x + lw) + j]
      BY <1>5, <3>2, <3>3
    <3>5. i \in 1 .. lw + lq
      BY <1>9, <2>2
    <3>6. coming[i] = q[j]
      BY <1>7, <1>10, <2>2, <3>2, <3>5
    <3> QED
      BY <3>2, <3>4, <3>6
  <2>3. CASE ~(i <= ls)
    <3>1. PICK j \in Nat : i = ls + j
      <4>1. i - ls \in Nat /\ i = ls + (i - ls)
        BY <2>3
      <4> QED
        BY <4>1
    <3>2. i - ls = j /\ j \in 1 .. ld /\ n + j = x + i
      BY <1>4, <1>9, <2>3, <3>1
    <3>3. coming[i] = due[j]
      BY <1>10, <2>3, <3>2
    <3> QED
      BY <1>6, <3>2, <3>3
  <2> QED
    BY <2>1, <2>2, <2>3
<1>12. x + (ls + ld) = Len(h) /\ ls + ld \in Nat
  BY <1>4, <1>9
<1> QED
  BY <1>10, <1>11, <1>12 DEF Behind

(* Filtering the history by the cursor x gives what is behind its first x. *)
LEMMA AfterIsBehind ==
  ASSUME NEW h, NEW ended, HistoryOK(h, ended), NEW x, NEW s, Behind(s, h, x)
  PROVE  Log!After(h, x) = s
<1>1. Len(h) \in Nat /\ LogFacts!NumberedFrom(h, 0)
  BY LenProperties DEF HistoryOK
<1>2. PICK m \in Nat : m = Len(s)
  BY DEF Behind
<1>3. s = [i \in 1 .. m |-> s[i]] /\ \A i \in 1 .. m : s[i] = h[x + i]
  BY <1>2 DEF Behind
<1>4. Len(h) = x + m /\ x \in Nat
  BY <1>2 DEF Behind
<1>5. LogFacts!Remainder(h, x, s)
  BY <1>3, <1>4 DEF LogFacts!Remainder
<1>6. x = 0 + x
  BY <1>4
<1>7. LogFacts!After(h, x) = s
  BY <1>1, <1>4, <1>5, <1>6, LogFacts!AfterNumbered, LogFactsApply, StreamAssumptions
<1> QED
  BY <1>7, SameAfter

(* The newest entries of the history are what is behind the others.        *)
LEMMA NewestIsBehind ==
  ASSUME NEW h \in Seq(Log!Entry), NEW x, NEW s, Behind(s, h, x)
  PROVE  s = Log!Newest(h, Len(s))
<1>1. PICK m \in Nat : m = Len(s)
  BY DEF Behind
<1>2. /\ s \in Seq(Log!Entry) /\ Len(h) = x + m /\ x \in Nat /\ Len(h) \in Nat
      /\ \A i \in 1 .. m : s[i] = h[x + i]
  BY <1>1, LenProperties DEF Behind
<1>3. CASE x = 0
  <2>1. m = Len(h)
    BY <1>2, <1>3
  <2>2. s = h
    <3>1. \A i \in 1 .. Len(h) : s[i] = h[i]
      BY <1>2, <1>3, <2>1
    <3> QED
      BY <1>1, <1>2, <2>1, <3>1, SeqEqual
  <2>3. Log!Newest(h, m) = h
    BY <1>2, <2>1 DEF Log!Newest
  <2> QED
    BY <1>1, <2>2, <2>3
<1>4. CASE x # 0
  <2>1. Len(h) > m /\ Len(h) - m + 1 = x + 1
    BY <1>2, <1>4
  <2>2. PICK r : r = SubSeq(h, x + 1, Len(h))
    OBVIOUS
  <2>3. Log!Newest(h, m) = r
    BY <2>1, <2>2 DEF Log!Newest
  <2>4. \A i \in x + 1 .. Len(h) : h[i] \in Log!Entry
    BY <1>2, ElementOfSeq
  <2>5. /\ r \in Seq(Log!Entry)
        /\ Len(r) = IF x + 1 <= Len(h) THEN Len(h) - (x + 1) + 1 ELSE 0
        /\ \A i \in 1 .. Len(h) - (x + 1) + 1 : r[i] = h[(x + 1) + i - 1]
    BY <1>2, <2>2, <2>4, SubSeqProperties
  <2>6. Len(r) = m /\ \A i \in 1 .. m : r[i] = h[x + i]
    BY <1>2, <2>5
  <2>7. s = r
    BY <1>1, <1>2, <2>5, <2>6, SeqEqual
  <2> QED
    BY <1>1, <2>3, <2>7
<1> QED
  BY <1>3, <1>4

Brings(coming, cursor, h) ==
  IF cursor = Log!NullCursor
    THEN coming # << >> /\ coming = Log!Newest(h, Len(coming))
    ELSE coming = Log!After(h, cursor)

LEMMA LiveIsComplete ==
  ASSUME NEW l, NEW st, NEW e, NEW t, NEW k, NEW cl, NEW h, NEW o, NEW n, NEW ended,
         StreamAt(l, st, e, t, k, cl, h, o, n, ended), NEW c \in Conns, cl.conn = c,
         k[c].sub = "live", ~k[c].channel.closed,
         NEW coming, coming = k[c].channel.wire \o k[c].channel.queue \o DueIn(t)
  PROVE  Brings(coming, cl.cursor, h)
<1>1. /\ HistoryOK(h, ended) /\ h \in Seq(Log!Entry) /\ Len(h) \in Nat /\ n \in Nat /\ n <= Len(h)
  BY StreamCounts
<1>2. PICK x : x = k[c]
  OBVIOUS
<1>3. /\ ConnOK(x) /\ TasksOK(t, h, n) /\ FeedOK(c, x, cl, h, n, ended, o, t)
      /\ x.sub = "live" /\ ~x.channel.closed /\ Streams(x)
      /\ coming = x.channel.wire \o x.channel.queue \o DueIn(t)
  BY <1>2 DEF StreamAt, Streams
<1>4. x.channel \in Channels
  BY <1>3 DEF ConnOK, ChannelOK
<1>5. Receiving(x)
  <2>1. x.call \in {"reading", "answered", "delivered", "returned"}
    BY <1>3 DEF ConnOK, Connections
  <2> QED
    BY <1>3, <2>1 DEF ConnOK, Receiving
<1>6. PICK a \in 0 .. Len(h) : Receives(x, cl, h, n, ended, o, a)
  BY <1>3, <1>5 DEF FeedOK
<1>7. /\ Carries(x.channel, h, n, ended, a) /\ Fresh(cl, o, a) /\ Complete(x.channel, n, a)
      /\ cl.cursor = Log!NullCursor => a < Len(h)
  BY <1>3, <1>6 DEF Receives
<1>8. a \in Nat
  BY <1>1, <1>6
<1>9. Behind(DueIn(t), h, n)
  BY <1>1, <1>3, DueIsBehind
<1>10. Behind(coming, h, a)
  BY <1>1, <1>3, <1>4, <1>7, <1>8, <1>9, ComingIsBehind
<1>11. CASE cl.cursor = Log!NullCursor
  <2>1. coming = Log!Newest(h, Len(coming))
    BY <1>1, <1>10, NewestIsBehind
  <2>2. a + Len(coming) = Len(h) /\ a < Len(h) /\ Len(coming) \in Nat
    BY <1>7, <1>10, <1>11 DEF Behind
  <2>3. Len(coming) # 0
    <3>1. PICK m, x1, hh \in Nat : m = Len(coming) /\ x1 = a /\ hh = Len(h)
      BY <1>1, <1>8, <2>2
    <3>2. x1 + m = hh /\ x1 < hh
      BY <2>2, <3>1
    <3>3. m # 0
      BY <3>2
    <3> QED
      BY <3>1, <3>3
  <2>4. coming # << >>
    BY <2>3
  <2> QED
    BY <1>11, <2>1, <2>4, Zenon DEF Brings
<1>12. CASE cl.cursor # Log!NullCursor
  <2>1. a = cl.cursor
    BY <1>7, <1>12 DEF Fresh
  <2>2. Log!After(h, a) = coming
    BY <1>1, <1>10, AfterIsBehind
  <2> QED
    BY <1>12, <2>1, <2>2, Zenon DEF Brings
<1> QED
  BY <1>11, <1>12

(* In every reachable state a live subscription is complete: what is on    *)
(* the wire, in the queue and due is what was recorded after the client's  *)
(* cursor (run-lifecycle.ts, stream).                                      *)
THEOREM LiveStreamsMissNothing == Spec => []LiveStreamIsComplete
<1>1. ASSUME StreamInv PROVE LiveStreamIsComplete
  <2>1. PICK h, o, n, ended : StreamAt(log, state, end, tasks, conn, client, h, o, n, ended)
    BY <1>1, Held DEF StreamInv
  <2>2. h = History
    BY <2>1 DEF StreamAt, History
  <2>3. Due = DueIn(tasks)
    BY Zenon DEF Due, DueIn, Appends, AppendsIn
  <2>4. ASSUME NEW c \in Conns, client.conn = c /\ conn[c].sub = "live" /\ ~conn[c].channel.closed,
               NEW coming, coming = conn[c].channel.wire \o conn[c].channel.queue \o Due
        PROVE  Brings(coming, client.cursor, History)
    <3>1. coming = conn[c].channel.wire \o conn[c].channel.queue \o DueIn(tasks)
      BY <2>3, <2>4, Zenon
    <3>2. Brings(coming, client.cursor, h)
      BY <2>1, <2>4, <3>1, LiveIsComplete
    <3> QED
      BY <2>2, <3>2
  <2>5. ASSUME NEW c \in Conns,
               client.conn = c /\ conn[c].sub = "live" /\ ~conn[c].channel.closed
        PROVE  Brings(conn[c].channel.wire \o conn[c].channel.queue \o Due, client.cursor, History)
    BY <2>4, <2>5
  <2> QED
    BY <2>5 DEF LiveStreamIsComplete, Brings
<1> QED
  BY <1>1, StreamInvariant, PTL

-----------------------------------------------------------------------------
(* The feed                                                                *)

(* A run begins as a feed does, and each step of it is a step of the feed  *)
(* or leaves the feed alone: over every reconnection the client reads the  *)
(* events in order and none twice, but for the end, which it reads once    *)
(* more each time it comes back for a run whose end it has read            *)
(* (run-lifecycle.ts:140-143), and skips none the log still has.  No step  *)
(* that reads an event leaves the feed alone: the reads are counted.       *)
THEOREM StreamIsFeed == Spec => Feed!Init /\ [][Feed!Next]_(Feed!vars)
<1>1. Init => Feed!Init
  <2> SUFFICES ASSUME Init PROVE Feed!Init
    OBVIOUS
  <2>1. /\ client.seen = 0 /\ client.reads = 0 /\ client.sawEnd = FALSE
        /\ log.runs[Run].nextId = 2 /\ Log!OldestRetainedId(log.runs[Run]) = 1
    BY InitialStream
  <2>2. state = "running"
    BY DEF Init
  <2> QED
    BY <2>1, <2>2 DEF Feed!Init
<1>2. StreamInv /\ [Next]_vars => [Feed!Next]_(Feed!vars)
  <2> SUFFICES ASSUME StreamInv, [Next]_vars PROVE [Feed!Next]_(Feed!vars)
    OBVIOUS
  <2>1. CASE Next
    <3>1. PICK h, o, n, ended : StreamAt(log, state, end, tasks, conn, client, h, o, n, ended)
      BY Held DEF StreamInv
    <3>2. Proceeds(h, o, ended, client, log', state', end', tasks', conn', client')
      BY <2>1, <3>1, NextProceeds
    <3>3. PICK h2, o2, n2, ended2 :
            /\ StreamAt(log', state', end', tasks', conn', client', h2, o2, n2, ended2)
            /\ FeedStep(Len(h), o, ended, client, Len(h2), o2, ended2, client')
      BY <3>2, Zenon DEF Proceeds
    <3>4. PICK r, r2, cl, cl2 : r = Len(h) /\ r2 = Len(h2) /\ cl = client /\ cl2 = client'
      OBVIOUS
    <3>5. /\ r \in Nat /\ log.runs[Run].nextId - 1 = r /\ o = Log!OldestRetainedId(log.runs[Run])
          /\ o \in Nat /\ o <= r /\ (ended <=> state # "running") /\ cl \in Clients
      <4>1. /\ r \in Nat /\ log.runs[Run].nextId = r + 1 /\ o \in Nat /\ o <= r
            /\ client \in Clients
        BY <3>1, <3>4, StreamCounts
      <4> QED
        BY <3>1, <3>4, <4>1 DEF StreamAt, Ended
    <3>6. /\ r2 \in Nat /\ log'.runs[Run].nextId - 1 = r2
          /\ o2 = Log!OldestRetainedId(log'.runs[Run]) /\ (ended2 <=> state' # "running")
          /\ cl2 \in Clients
      <4>1. r2 \in Nat /\ log'.runs[Run].nextId = r2 + 1 /\ client' \in Clients
        BY <3>3, <3>4, StreamCounts
      <4> QED
        BY <3>3, <3>4, <4>1 DEF StreamAt, Ended
    <3>7. FeedStep(r, o, ended, cl, r2, o2, ended2, cl2)
      BY <3>3, <3>4
    <3>8. /\ Feed!Record <=>
               /\ ~(state # "running") /\ log'.runs[Run].nextId - 1 = log.runs[Run].nextId - 1 + 1
               /\ (state' # "running") \in BOOLEAN
               /\ Log!OldestRetainedId(log'.runs[Run]) \in
                    Log!OldestRetainedId(log.runs[Run]) .. log.runs[Run].nextId - 1 + 1
               /\ client'.seen = client.seen /\ client'.reads = client.reads
               /\ client'.sawEnd = client.sawEnd
          /\ Feed!Compact <=>
               /\ state # "running"
               /\ Log!OldestRetainedId(log'.runs[Run]) = log.runs[Run].nextId - 1
               /\ Log!OldestRetainedId(log.runs[Run]) < log.runs[Run].nextId - 1
               /\ log'.runs[Run].nextId - 1 = log.runs[Run].nextId - 1
               /\ (state' # "running") = (state # "running")
               /\ client'.seen = client.seen /\ client'.reads = client.reads
               /\ client'.sawEnd = client.sawEnd
      BY DEF Feed!Record, Feed!Compact
    <3>9. (state' # "running") \in BOOLEAN
      OBVIOUS
    <3>10. CASE ~ended /\ r2 = r + 1 /\ o2 \in o .. r + 1 /\ Rests(cl, cl2)
      <4>1. Feed!Record
        BY <3>4, <3>5, <3>6, <3>8, <3>9, <3>10 DEF Rests
      <4> QED
        BY <4>1 DEF Feed!Next
    <3>11. CASE ended2 = ended /\ r2 = r /\ Rests(cl, cl2) /\ (o2 = o \/ (ended /\ o2 = r))
      <4>1. (state' # "running") = (state # "running")
        BY <3>5, <3>6, <3>11
      <4>2. CASE o2 = o
        BY <3>4, <3>5, <3>6, <3>11, <4>1, <4>2 DEF Feed!vars, Rests
      <4>3. CASE ended /\ o2 = r /\ o2 # o
        <5>1. o < r
          BY <3>5, <4>3
        <5>2. Feed!Compact
          BY <3>4, <3>5, <3>6, <3>8, <3>11, <4>1, <4>3, <5>1 DEF Rests
        <5> QED
          BY <5>2 DEF Feed!Next
      <4> QED
        BY <3>11, <4>2, <4>3
    <3>12. CASE ended2 = ended /\ r2 = r /\ o2 = o /\ Returns(cl, cl2)
      <4>1. (state' # "running") = (state # "running")
        BY <3>5, <3>6, <3>12
      <4>2. client.sawEnd /\ client'.sawEnd = FALSE
        BY <3>4, <3>6, <3>12 DEF Returns, Clients
      <4>3. Feed!ComeBack
        BY <3>4, <3>5, <3>6, <3>12, <4>1, <4>2 DEF Feed!ComeBack, Returns
      <4> QED
        BY <4>3 DEF Feed!Next
    <3>13. CASE ended2 = ended /\ r2 = r /\ o2 = o /\ Gets(cl, cl2, r, o, ended)
      <4>1. (state' # "running") = (state # "running")
        BY <3>5, <3>6, <3>13
      <4>2. /\ cl.seen \in Nat /\ cl2.seen \in Nat /\ cl2.seen <= r
            /\ client'.reads = client.reads + 1
        BY <3>4, <3>5, <3>6, <3>13 DEF Gets, Clients
      <4>3. ASSUME NEW event, event = client'.seen PROVE Feed!Read(event)
        <5>1. client'.sawEnd = (state # "running" /\ event = log.runs[Run].nextId - 1)
          <6>1. cl2.sawEnd = (ended /\ cl2.seen = r)
            BY <3>13 DEF Gets
          <6>2. (ended /\ cl2.seen = r) = (state # "running" /\ event = log.runs[Run].nextId - 1)
            BY <3>4, <3>5, <4>3
          <6> QED
            BY <3>4, <6>1, <6>2
        <5> QED
          BY <3>4, <3>5, <3>6, <3>13, <4>1, <4>2, <4>3, <5>1 DEF Feed!Read
      <4>4. CASE cl2.seen = cl.seen + 1
        <5>1. cl.seen < r
          BY <3>5, <4>2, <4>4
        <5>2. Feed!Read(client.seen + 1)
          BY <3>4, <4>3, <4>4
        <5>3. Feed!See
          BY <3>4, <3>5, <5>1, <5>2 DEF Feed!See
        <5> QED
          BY <5>3 DEF Feed!Next
      <4>5. CASE cl.seen + 1 < o /\ cl2.seen \in cl.seen + 2 .. o
        <5>1. Feed!Read(client'.seen)
          BY <4>3
        <5>2. Feed!Skip
          BY <3>4, <3>5, <4>5, <5>1 DEF Feed!Skip
        <5> QED
          BY <5>2 DEF Feed!Next
      <4>6. CASE ended /\ ~cl.sawEnd /\ cl.seen = r /\ cl2.seen = r
        <5>1. Feed!Read(log.runs[Run].nextId - 1)
          BY <3>4, <3>5, <4>3, <4>6
        <5>2. Feed!Repeat
          BY <3>4, <3>5, <4>6, <5>1 DEF Feed!Repeat
        <5> QED
          BY <5>2 DEF Feed!Next
      <4> QED
        BY <3>13, <4>4, <4>5, <4>6 DEF Gets
    <3> QED
      BY <3>7, <3>10, <3>11, <3>12, <3>13 DEF FeedStep, Advances
  <2>2. CASE UNCHANGED vars
    BY <2>2 DEF vars, Feed!vars
  <2> QED
    BY <2>1, <2>2
<1> QED
  BY <1>1, <1>2, StreamInvariant, PTL DEF Spec
=============================================================================
