---------------------------- MODULE RunLifecycle ----------------------------
(***************************************************************************)
(* The run registry of the daemon, packages/daemon/src/run-lifecycle.ts,   *)
(* on top of the event log: every transition that must survive is an       *)
(* append, and memory changes only once the append has settled.            *)
(*                                                                         *)
(* Calls are asynchronous.  A call that appends puts a request on pending; *)
(* Settle takes the oldest request and commits or fails it, together with  *)
(* the continuation that waits for it.  Transactions of the kernel-backed  *)
(* adapter settle in call order (packages/db/src/kernel/turn-lock.ts), so  *)
(* pending is FIFO; with the synchronous adapters the request settles      *)
(* within the same turn of the event loop, a special case of this.         *)
(* A call made while the start append is pending waits for it (the await   *)
(* record.startPromise of each method): it is the same call made later.    *)
(***************************************************************************)
EXTENDS Integers, Sequences, FiniteSets, SequencesExt

CONSTANTS
  Runs,                  (* run ids; ORDER BY run_id is the order of Nat   *)
  IdemKeys, NoKey,       (* idempotency keys, and a start without one      *)
  NoRun,                 (* no entry in the idempotency index              *)
  MaxTerminalRuns,       (* maxTerminalRuns                                *)
  DropEventsOnEviction,  (* dropEventsOnEviction                           *)
  SlowRunEnabled,        (* slowRunThresholdMs is not null                 *)
  WatchChoices,          (* may start be given inactivityTimeoutMs         *)
  ResumableChoices,      (* the resumable flags drivers pass to finish     *)
  Cancellable,           (* runs a client may cancel                       *)
  MaxEntries, MaxRuns, InMemory, MaxCursor,    (* see EventLog             *)
  MaxPending,            (* bounds the model: requests in flight           *)
  MaxSuspensions,        (* bounds the model: nested slow-run suspensions  *)
  MaxFailures,           (* bounds the model: appends that fail            *)
  MaxCrashes             (* bounds the model: crashes of the process       *)

ASSUME RunsAreOrdered      == Runs \subseteq Nat /\ IsFiniteSet(Runs)
ASSUME NullsAssumption     == NoRun \notin Runs /\ NoKey \notin IdemKeys
ASSUME OptionsAssumption   == /\ MaxTerminalRuns \in Nat \ {0}
                              /\ DropEventsOnEviction \in BOOLEAN
                              /\ SlowRunEnabled \in BOOLEAN
                              /\ WatchChoices \subseteq BOOLEAN
                              /\ ResumableChoices \subseteq BOOLEAN
                              /\ Cancellable \subseteq Runs
ASSUME LogOptionsAssumption == /\ MaxEntries \in Nat \ {0} /\ MaxRuns \in Nat
                               /\ MaxCursor \in Nat /\ InMemory \in BOOLEAN

VARIABLES
  log,            (* the event log                                         *)
  rec,            (* runs: the record of each run                          *)
  index,          (* idempotencyIndex                                      *)
  terminalOrder,  (* terminalRunOrder                                      *)
  timers,         (* runs whose retention timer is armed                   *)
  parked,         (* runs with a parked terminal waiter                    *)
  pending,        (* appends in flight, oldest first                       *)
  boot,           (* progress of rehydrate                                 *)
  resumes,        (* history variable: resumes of each run since its start *)
  failures,       (* appends that failed so far                            *)
  crashes         (* crashes so far                                        *)

vars == << log, rec, index, terminalOrder, timers, parked, pending, boot,
           resumes, failures, crashes >>

(* What the lifecycle writes into entries: the key of a start, the         *)
(* resumable flag of an end.                                               *)
RunPayloads == [key : IdemKeys \cup {NoKey}, resumable : BOOLEAN]

Log == INSTANCE EventLog WITH Payloads <- RunPayloads, Keys <- {}

-----------------------------------------------------------------------------
(* Records                                                                 *)

Phases == {"absent", "starting", "running", "finishing", "terminal"}

(***************************************************************************)
(* A run's record.  phase folds status.state with the two promises that    *)
(* reserve a transition: starting is running with startPromise set and     *)
(* finishing is running with finishPromise set.  watchdog and slow are     *)
(* the two activity watchdogs: "off" is undefined or cancelled, "expired"  *)
(* has fired and is re-armed by the next activity.  endId is the id of     *)
(* terminalEndEntry, 0 for undefined.  told says that the driver listener  *)
(* has been called with the cancellation request.                          *)
(***************************************************************************)
WatchdogStates == {"off", "armed", "expired"}

RunRecord == [phase           : Phases,
              key             : IdemKeys \cup {NoKey},
              resumable       : BOOLEAN,
              endId           : Nat,
              cancelRequested : BOOLEAN,
              listening       : BOOLEAN,
              told            : BOOLEAN,
              watchdog        : WatchdogStates,
              slow            : WatchdogStates,
              suspensions     : Nat]

NewRecord(key) ==
  [phase |-> "starting", key |-> key, resumable |-> FALSE, endId |-> 0,
   cancelRequested |-> FALSE, listening |-> FALSE, told |-> FALSE,
   watchdog |-> "off", slow |-> "off", suspensions |-> 0]

NoRecord == [NewRecord(NoKey) EXCEPT !.phase = "absent"]

Present(r) == rec[r].phase # "absent"
Live(r)    == rec[r].phase \in {"running", "finishing"}

NoteActivity(watchdog) == IF watchdog = "off" THEN "off" ELSE "armed"

SlowWindow == IF SlowRunEnabled THEN "armed" ELSE "off"

-----------------------------------------------------------------------------
(* Requests                                                                *)

Request == [op        : {"start", "emit", "end"},
            run       : Runs,
            watched   : BOOLEAN,
            resumable : BOOLEAN,
            by        : {"driver", "inactivity", "slow"}]

StartRequest(r, watched) ==
  [op |-> "start", run |-> r, watched |-> watched, resumable |-> FALSE, by |-> "driver"]
EmitRequest(r, by) ==
  [op |-> "emit", run |-> r, watched |-> FALSE, resumable |-> FALSE, by |-> by]
EndRequest(r, resumable) ==
  [op |-> "end", run |-> r, watched |-> FALSE, resumable |-> resumable, by |-> "driver"]

Up == boot.phase = "up"

AppendToLog(l, r, event, key, resumable) ==
  Log!AppendTo(l, r, event, [key |-> key, resumable |-> resumable], NoKey)

EntryId(l, r) == l.runs[r].nextId

-----------------------------------------------------------------------------
(* Terminal retention                                                      *)

(* clearIdempotencyIndexEntryIfMatching                                    *)
Unindex(idx, key, r) ==
  IF key # NoKey /\ idx[key] = r THEN [idx EXCEPT ![key] = NoRun] ELSE idx

DropIfConfigured(l, r) == IF DropEventsOnEviction THEN Log!DropFrom(l, r) ELSE l

(***************************************************************************)
(* trackTerminalRun with enforceTerminalCap, on the records, index and log *)
(* the caller has reached.  The cap loop runs at most once, because the    *)
(* list was within the cap before (TerminalBookkeeping).  An eviction by   *)
(* the cap leaves the victim's retention timer armed, as in the code.      *)
(***************************************************************************)
TrackTerminal(r, recs, idx, l) ==
  LET order == Append(terminalOrder, r)
      v     == Head(order)
  IN  /\ timers' = timers \cup {r}
      /\ IF Len(order) > MaxTerminalRuns
           THEN /\ terminalOrder' = Tail(order)
                /\ rec'   = [recs EXCEPT ![v] = NoRecord]
                /\ index' = Unindex(idx, recs[v].key, v)
                /\ log'   = DropIfConfigured(l, v)
           ELSE /\ terminalOrder' = order
                /\ rec'   = recs
                /\ index' = idx
                /\ log'   = l

(* evictTerminalRun, called by the retention timer.                        *)
RetentionTimer(r) ==
  /\ r \in timers
  /\ timers' = timers \ {r}
  /\ terminalOrder' = RemoveFirst(terminalOrder, r)
  /\ IF Present(r)
       THEN /\ rec'   = [rec EXCEPT ![r] = NoRecord]
            /\ index' = Unindex(index, rec[r].key, r)
            /\ log'   = DropIfConfigured(log, r)
       ELSE UNCHANGED << rec, index, log >>
  /\ UNCHANGED << parked, pending, boot, resumes, failures, crashes >>

-----------------------------------------------------------------------------
(* start, emit, finish: the calls                                          *)

(* A generated id: nothing in memory or in the log knows it.               *)
Fresh(r) == ~Present(r) /\ ~log.runs[r].held /\ r \notin timers

(***************************************************************************)
(* start with a new key, or with none.  A start whose key is indexed       *)
(* returns the indexed run and changes nothing.                            *)
(***************************************************************************)
Start(r, key, watched) ==
  /\ Up /\ Fresh(r) /\ Len(pending) < MaxPending
  /\ key # NoKey => index[key] = NoRun
  /\ rec' = [rec EXCEPT ![r] = NewRecord(key)]
  /\ index' = IF key = NoKey THEN index ELSE [index EXCEPT ![key] = r]
  /\ pending' = Append(pending, StartRequest(r, watched))
  /\ resumes' = [resumes EXCEPT ![r] = 0]
  /\ UNCHANGED << log, terminalOrder, timers, parked, boot, failures, crashes >>

(* Variant: emit refuses terminal runs only, not runs being finished.      *)
EmitWhileFinishing(r, kind) ==
  /\ Up /\ Len(pending) < MaxPending
  /\ log.runs[r].nextId <= MaxCursor
  /\ Live(r)
  /\ pending' = Append(pending, EmitRequest(r, "driver"))
  /\ UNCHANGED << log, rec, index, terminalOrder, timers, parked, boot, resumes, failures, crashes >>

(***************************************************************************)
(* emit by a driver.  It throws once finishing has begun.  Only an agent   *)
(* event is activity for the slow-run notice.                              *)
(***************************************************************************)
Emit(r, kind) ==
  /\ Up /\ Len(pending) < MaxPending
  /\ log.runs[r].nextId <= MaxCursor
  /\ rec[r].phase = "running"
  /\ rec' = [rec EXCEPT ![r].watchdog = NoteActivity(@),
                        ![r].slow = IF kind = "agent" THEN NoteActivity(@) ELSE @]
  /\ pending' = Append(pending, EmitRequest(r, "driver"))
  /\ UNCHANGED << log, index, terminalOrder, timers, parked, boot, resumes, failures, crashes >>

(* Variant: finishPromise is not looked at, every finish appends.          *)
FinishTwice(r, resumable) ==
  /\ Up
  /\ rec[r].phase \in {"running", "finishing"}
  /\ rec' = [rec EXCEPT ![r].phase = "finishing"]
  /\ pending' = Append(pending, EndRequest(r, resumable))
  /\ UNCHANGED << log, index, terminalOrder, timers, parked, boot, resumes, failures, crashes >>

(* finish: reserves the transition.  A second finish joins the first.      *)
Finish(r, resumable) ==
  /\ Up
  /\ rec[r].phase = "running"
  /\ rec' = [rec EXCEPT ![r].phase = "finishing"]
  /\ pending' = Append(pending, EndRequest(r, resumable))
  /\ UNCHANGED << log, index, terminalOrder, timers, parked, boot, resumes, failures, crashes >>

-----------------------------------------------------------------------------
(* start, emit, finish: the continuations                                  *)

CommitStart(q) ==
  /\ log' = AppendToLog(log, q.run, "start", rec[q.run].key, FALSE)
  /\ rec' = [rec EXCEPT ![q.run].phase = "running",
                        ![q.run].watchdog = IF q.watched THEN "armed" ELSE "off",
                        ![q.run].slow = SlowWindow]
  /\ pending' = Tail(pending)
  /\ UNCHANGED << index, terminalOrder, timers, parked >>

(* Variant: the index entry survives the rollback of its record.           *)
FailStartKeepsKey(q) ==
  /\ rec' = [rec EXCEPT ![q.run] = NoRecord]
  /\ pending' = Tail(pending)
  /\ UNCHANGED << log, index, terminalOrder, timers, parked >>

(* The record and the index entry are rolled back.                         *)
FailStart(q) ==
  /\ rec' = [rec EXCEPT ![q.run] = NoRecord]
  /\ index' = Unindex(index, rec[q.run].key, q.run)
  /\ pending' = Tail(pending)
  /\ UNCHANGED << log, terminalOrder, timers, parked >>

(***************************************************************************)
(* An event is recorded.  When the inactivity handler emitted it, the      *)
(* handler goes on to finish the run for good (handleInactivityTimeout).   *)
(***************************************************************************)
CommitEmit(q) ==
  /\ log' = AppendToLog(log, q.run, "agent", NoKey, FALSE)
  /\ IF q.by = "inactivity" /\ rec[q.run].phase = "running"
       THEN /\ rec' = [rec EXCEPT ![q.run].phase = "finishing"]
            /\ pending' = Append(Tail(pending), EndRequest(q.run, FALSE))
       ELSE /\ pending' = Tail(pending)
            /\ UNCHANGED rec
  /\ UNCHANGED << index, terminalOrder, timers, parked >>

(* The rejection reaches the emitter; a watchdog handler reports it.       *)
FailEmit(q) ==
  /\ pending' = Tail(pending)
  /\ UNCHANGED << log, rec, index, terminalOrder, timers, parked >>

(* The end entry exists: only now does the run become terminal.            *)
Terminated(r, resumable, endId) ==
  [rec EXCEPT ![r].phase = "terminal",
              ![r].watchdog = "off",
              ![r].slow = "off",
              ![r].resumable = resumable,
              ![r].endId = endId]

(* Variant: the parked waiters are not resolved.                           *)
CommitEndSilently(q) ==
  /\ TrackTerminal(q.run,
                   Terminated(q.run, q.resumable, EntryId(log, q.run)),
                   index,
                   AppendToLog(log, q.run, "end", NoKey, q.resumable))
  /\ pending' = Tail(pending)
  /\ UNCHANGED parked

CommitEnd(q) ==
  /\ TrackTerminal(q.run,
                   Terminated(q.run, q.resumable, EntryId(log, q.run)),
                   index,
                   AppendToLog(log, q.run, "end", NoKey, q.resumable))
  /\ parked' = parked \ {q.run}
  /\ pending' = Tail(pending)

(* finishPromise is cleared and the run stays running.                     *)
FailEnd(q) ==
  /\ rec' = [rec EXCEPT ![q.run].phase = "running"]
  /\ pending' = Tail(pending)
  /\ UNCHANGED << log, index, terminalOrder, timers, parked >>

Commit ==
  /\ pending # << >>
  /\ LET q == Head(pending)
     IN  \/ q.op = "start" /\ CommitStart(q)
         \/ q.op = "emit"  /\ CommitEmit(q)
         \/ q.op = "end"   /\ CommitEnd(q)
  /\ UNCHANGED << boot, resumes, failures, crashes >>

Fail ==
  /\ pending # << >>
  /\ failures < MaxFailures
  /\ LET q == Head(pending)
     IN  \/ q.op = "start" /\ FailStart(q)
         \/ q.op = "emit"  /\ FailEmit(q)
         \/ q.op = "end"   /\ FailEnd(q)
  /\ failures' = failures + 1
  /\ UNCHANGED << boot, resumes, crashes >>

-----------------------------------------------------------------------------
(* resume, cancel, waiting                                                 *)

(* Variants: untrackTerminalRun leaves the retention timer armed, or the   *)
(* run on the list of terminal runs.                                       *)
ResumeKeepsTimer(r) ==
  /\ Up
  /\ log.runs[r].nextId <= MaxCursor
  /\ rec[r].phase = "terminal" /\ rec[r].resumable
  /\ terminalOrder' = RemoveFirst(terminalOrder, r)
  /\ rec' = [rec EXCEPT ![r].phase = "running", ![r].resumable = FALSE, ![r].endId = 0]
  /\ resumes' = [resumes EXCEPT ![r] = @ + 1]
  /\ UNCHANGED << log, index, timers, parked, pending, boot, failures, crashes >>

ResumeKeepsOrder(r) ==
  /\ Up
  /\ log.runs[r].nextId <= MaxCursor
  /\ rec[r].phase = "terminal" /\ rec[r].resumable
  /\ timers' = timers \ {r}
  /\ rec' = [rec EXCEPT ![r].phase = "running", ![r].resumable = FALSE, ![r].endId = 0]
  /\ resumes' = [resumes EXCEPT ![r] = @ + 1]
  /\ UNCHANGED << log, index, terminalOrder, parked, pending, boot, failures, crashes >>

(***************************************************************************)
(* resume: only a terminal, resumable run.  Nothing is appended; the slow  *)
(* window is armed afresh, the inactivity watchdog is not.                 *)
(***************************************************************************)
Resume(r) ==
  /\ Up
  /\ log.runs[r].nextId <= MaxCursor
  /\ rec[r].phase = "terminal" /\ rec[r].resumable
  /\ terminalOrder' = RemoveFirst(terminalOrder, r)
  /\ timers' = timers \ {r}
  /\ rec' = [rec EXCEPT ![r].phase = "running",
                        ![r].resumable = FALSE,
                        ![r].endId = 0,
                        ![r].cancelRequested = FALSE,
                        ![r].told = FALSE,
                        ![r].slow = SlowWindow,
                        ![r].suspensions = 0]
  /\ resumes' = [resumes EXCEPT ![r] = @ + 1]
  /\ UNCHANGED << log, index, parked, pending, boot, failures, crashes >>

(* cancel: records the intent and calls the driver's listener, if any.     *)
Cancel(r) ==
  /\ Up
  /\ r \in Cancellable
  /\ rec[r].phase = "running"
  /\ rec' = [rec EXCEPT ![r].cancelRequested = TRUE,
                        ![r].told = @ \/ rec[r].listening]
  /\ UNCHANGED << log, index, terminalOrder, timers, parked, pending, boot,
                  resumes, failures, crashes >>

(* Variant: a listener only hears of requests made after it subscribed.    *)
OnCancelRequestedLater(r) ==
  /\ Up
  /\ r \in Cancellable
  /\ Present(r) /\ ~rec[r].listening
  /\ rec' = [rec EXCEPT ![r].listening = TRUE]
  /\ UNCHANGED << log, index, terminalOrder, timers, parked, pending, boot,
                  resumes, failures, crashes >>

(* onCancelRequested: a request made earlier is replayed to the listener.  *)
OnCancelRequested(r) ==
  /\ Up
  /\ r \in Cancellable
  /\ Present(r) /\ ~rec[r].listening
  /\ rec' = [rec EXCEPT ![r].listening = TRUE,
                        ![r].told = rec[r].cancelRequested]
  /\ UNCHANGED << log, index, terminalOrder, timers, parked, pending, boot,
                  resumes, failures, crashes >>

(* The driver of an attempt unsubscribes.                                  *)
StopListening(r) ==
  /\ Up
  /\ rec[r].listening
  /\ rec' = [rec EXCEPT ![r].listening = FALSE, ![r].told = FALSE]
  /\ UNCHANGED << log, index, terminalOrder, timers, parked, pending, boot,
                  resumes, failures, crashes >>

(* waitForTerminal on a run that is not terminal yet.                      *)
WaitForTerminal(r) ==
  /\ Up
  /\ rec[r].phase \in {"running", "finishing"}
  /\ parked' = parked \cup {r}
  /\ UNCHANGED << log, rec, index, terminalOrder, timers, pending, boot,
                  resumes, failures, crashes >>

(* The waiter's signal aborts.                                             *)
AbortWait(r) ==
  /\ r \in parked
  /\ parked' = parked \ {r}
  /\ UNCHANGED << log, rec, index, terminalOrder, timers, pending, boot,
                  resumes, failures, crashes >>

-----------------------------------------------------------------------------
(* Watchdogs                                                               *)

(* Variant: the inactivity handler reports the silence as any driver would *)
(* report it, and leaves it to the driver to finish the run.               *)
InactivityReport(r) ==
  /\ Up /\ Len(pending) < MaxPending
  /\ rec[r].watchdog = "armed"
  /\ rec' = [rec EXCEPT ![r].watchdog = "expired"]
  /\ IF rec[r].phase = "running"
       THEN pending' = Append(pending, EmitRequest(r, "driver"))
       ELSE UNCHANGED pending
  /\ UNCHANGED << log, index, terminalOrder, timers, parked, boot, resumes, failures, crashes >>

(***************************************************************************)
(* The inactivity watchdog fires: its handler emits, which is activity of  *)
(* its own and re-arms the timer.  During a pending finish the emit        *)
(* throws, the handler reports it and the watchdog stays expired.          *)
(***************************************************************************)
InactivityTimeout(r) ==
  /\ Up /\ Len(pending) < MaxPending
  /\ rec[r].watchdog = "armed"
  /\ IF rec[r].phase = "running"
       THEN /\ rec' = [rec EXCEPT ![r].slow = NoteActivity(@)]
            /\ pending' = Append(pending, EmitRequest(r, "inactivity"))
       ELSE /\ rec' = [rec EXCEPT ![r].watchdog = "expired"]
            /\ UNCHANGED pending
  /\ UNCHANGED << log, index, terminalOrder, timers, parked, boot, resumes, failures, crashes >>

(* The slow-run notice fires: an agent event, so both watchdogs re-arm.    *)
SlowRunNotice(r) ==
  /\ Up /\ Len(pending) < MaxPending
  /\ log.runs[r].nextId <= MaxCursor
  /\ rec[r].slow = "armed"
  /\ IF rec[r].phase = "running"
       THEN /\ rec' = [rec EXCEPT ![r].watchdog = NoteActivity(@)]
            /\ pending' = Append(pending, EmitRequest(r, "slow"))
       ELSE /\ rec' = [rec EXCEPT ![r].slow = "expired"]
            /\ UNCHANGED pending
  /\ UNCHANGED << log, index, terminalOrder, timers, parked, boot, resumes, failures, crashes >>

(* Drivers suspend the notice around calls of unbounded duration.          *)
SuspendSlowRunNotice(r) ==
  /\ Up
  /\ Live(r) /\ rec[r].suspensions < MaxSuspensions
  /\ rec' = [rec EXCEPT ![r].suspensions = @ + 1, ![r].slow = "off"]
  /\ UNCHANGED << log, index, terminalOrder, timers, parked, pending, boot,
                  resumes, failures, crashes >>

(* Variants: any resume re-arms; the count has no floor.                   *)
ResumeSlowRunNoticeEarly(r) ==
  /\ Up
  /\ Live(r) /\ rec[r].suspensions > 0
  /\ rec' = [rec EXCEPT ![r].suspensions = @ - 1, ![r].slow = SlowWindow]
  /\ UNCHANGED << log, index, terminalOrder, timers, parked, pending, boot,
                  resumes, failures, crashes >>

ResumeSlowRunNoticeUnfloored(r) ==
  /\ Up
  /\ Live(r) /\ MaxSuspensions > 0
  /\ rec' = [rec EXCEPT ![r].suspensions = @ - 1,
                        ![r].slow = IF rec[r].suspensions > 1 THEN @ ELSE SlowWindow]
  /\ UNCHANGED << log, index, terminalOrder, timers, parked, pending, boot,
                  resumes, failures, crashes >>

(* Only the last open suspension re-arms, with a new window.               *)
ResumeSlowRunNotice(r) ==
  /\ Up
  /\ Live(r) /\ MaxSuspensions > 0
  /\ LET open == IF rec[r].suspensions > 0 THEN rec[r].suspensions - 1 ELSE 0
     IN  rec' = [rec EXCEPT ![r].suspensions = open,
                            ![r].slow = IF open > 0 THEN @ ELSE SlowWindow]
  /\ UNCHANGED << log, index, terminalOrder, timers, parked, pending, boot,
                  resumes, failures, crashes >>

(* The in-memory log compacts an ended run.                                *)
CompactLog(r) ==
  /\ Log!Compact(r)
  /\ UNCHANGED << rec, index, terminalOrder, timers, parked, pending, boot,
                  resumes, failures, crashes >>

-----------------------------------------------------------------------------
(* Crash and rehydration                                                   *)

(* toScan: listed runs that are not restored yet; orphans: restored ones   *)
(* without an end.  Both are worked off in the order of the ids.           *)
Booted == [phase |-> "up", toScan |-> {}, orphans |-> {}]

First(r, S) == r \in S /\ \A x \in S : r <= x

(***************************************************************************)
(* The process dies and a new one boots over the durable log: everything   *)
(* in memory is gone, rehydrate lists the run ids the log knows, in order. *)
(* A rehydrate that fails because an append fails aborts the boot, which   *)
(* is a crash during boot.                                                 *)
(***************************************************************************)
Crash ==
  /\ ~InMemory
  /\ crashes < MaxCrashes
  /\ crashes' = crashes + 1
  /\ rec' = [r \in Runs |-> NoRecord]
  /\ index' = [k \in IdemKeys |-> NoRun]
  /\ terminalOrder' = << >>
  /\ timers' = {}
  /\ parked' = {}
  /\ pending' = << >>
  /\ boot' = [phase |-> "rehydrating", toScan |-> Log!Held(log), orphans |-> {}]
  /\ UNCHANGED << log, resumes, failures >>

(* The first start entry gives the key, the last end entry the outcome.    *)
StartKey(entries) ==
  IF \E i \in 1 .. Len(entries) : entries[i].event = "start"
    THEN entries[CHOOSE i \in 1 .. Len(entries) :
                   /\ entries[i].event = "start"
                   /\ \A j \in 1 .. (i - 1) : entries[j].event # "start"].data.key
    ELSE NoKey

LastEnd(entries) ==
  IF \E i \in 1 .. Len(entries) : entries[i].event = "end"
    THEN CHOOSE i \in 1 .. Len(entries) :
           /\ entries[i].event = "end"
           /\ \A j \in (i + 1) .. Len(entries) : entries[j].event # "end"
    ELSE 0

RehydratedRecord(entries) ==
  LET end == LastEnd(entries)
      new == NewRecord(StartKey(entries))
  IN  IF end = 0 THEN [new EXCEPT !.phase = "running"]
      ELSE [new EXCEPT !.phase = "terminal",
                       !.resumable = entries[end].data.resumable,
                       !.endId = entries[end].id]

(* rehydrateOne.  A run with no usable log is skipped.                     *)
RehydrateOne ==
  /\ boot.phase = "rehydrating"
  /\ \E r \in Runs :
       LET entries == Log!Replay(log, r, Log!NullCursor).entries
           new     == RehydratedRecord(entries)
           recs    == [rec EXCEPT ![r] = new]
           idx     == IF new.key = NoKey THEN index ELSE [index EXCEPT ![new.key] = r]
           live    == new.phase = "running"
       IN  /\ First(r, boot.toScan)
           /\ IF entries = << >>
                THEN /\ boot' = [boot EXCEPT !.toScan = @ \ {r}]
                     /\ UNCHANGED << log, rec, index, terminalOrder, timers >>
                ELSE /\ boot' = [boot EXCEPT !.toScan = @ \ {r},
                                             !.orphans = IF live THEN @ \cup {r} ELSE @]
                     /\ IF live
                          THEN /\ rec' = recs /\ index' = idx
                               /\ UNCHANGED << log, terminalOrder, timers >>
                          ELSE TrackTerminal(r, recs, idx, log)
  /\ UNCHANGED << parked, pending, resumes, failures, crashes >>

(* Variant: an orphan is only finished while the list has room.            *)
FinishOrphanIfRoom ==
  /\ boot.phase = "rehydrating" /\ boot.toScan = {}
  /\ Len(terminalOrder) < MaxTerminalRuns
  /\ \E r \in Runs :
       /\ First(r, boot.orphans)
       /\ TrackTerminal(r, Terminated(r, TRUE, EntryId(log, r)), index,
                        AppendToLog(log, r, "end", NoKey, TRUE))
       /\ boot' = [boot EXCEPT !.orphans = @ \ {r}]
  /\ UNCHANGED << parked, pending, resumes, failures, crashes >>

(* The runs the log holds no end of are finished: failed, resumable.       *)
FinishOrphan ==
  /\ boot.phase = "rehydrating" /\ boot.toScan = {}
  /\ \E r \in Runs :
       /\ First(r, boot.orphans)
       /\ TrackTerminal(r, Terminated(r, TRUE, EntryId(log, r)), index,
                        AppendToLog(log, r, "end", NoKey, TRUE))
       /\ boot' = [boot EXCEPT !.orphans = @ \ {r}]
  /\ UNCHANGED << parked, pending, resumes, failures, crashes >>

(* Variant: the server does not wait for the orphans.                      *)
BootDoneEarly ==
  /\ boot.phase = "rehydrating" /\ boot.toScan = {}
  /\ boot' = Booted
  /\ UNCHANGED << log, rec, index, terminalOrder, timers, parked, pending, resumes,
                  failures, crashes >>

BootDone ==
  /\ boot.phase = "rehydrating" /\ boot.toScan = {} /\ boot.orphans = {}
  /\ boot' = Booted
  /\ UNCHANGED << log, rec, index, terminalOrder, timers, parked, pending, resumes,
                  failures, crashes >>

-----------------------------------------------------------------------------
Init ==
  /\ log = Log!EmptyLog
  /\ rec = [r \in Runs |-> NoRecord]
  /\ index = [k \in IdemKeys |-> NoRun]
  /\ terminalOrder = << >>
  /\ timers = {}
  /\ parked = {}
  /\ pending = << >>
  /\ boot = Booted
  /\ resumes = [r \in Runs |-> 0]
  /\ failures = 0
  /\ crashes = 0

Next ==
  \/ \E r \in Runs, key \in IdemKeys \cup {NoKey}, watched \in WatchChoices : Start(r, key, watched)
  \/ \E r \in Runs, kind \in {"agent", "stdout"} : Emit(r, kind)
  \/ \E r \in Runs, resumable \in ResumableChoices : Finish(r, resumable)
  \/ Commit
  \/ Fail
  \/ \E r \in Runs : Resume(r)
  \/ \E r \in Runs : Cancel(r)
  \/ \E r \in Runs : OnCancelRequested(r)
  \/ \E r \in Runs : StopListening(r)
  \/ \E r \in Runs : WaitForTerminal(r)
  \/ \E r \in Runs : AbortWait(r)
  \/ \E r \in Runs : RetentionTimer(r)
  \/ \E r \in Runs : InactivityTimeout(r)
  \/ \E r \in Runs : SlowRunNotice(r)
  \/ \E r \in Runs : SuspendSlowRunNotice(r)
  \/ \E r \in Runs : ResumeSlowRunNotice(r)
  \/ \E r \in Runs : CompactLog(r)
  \/ Crash
  \/ RehydrateOne
  \/ FinishOrphan
  \/ BootDone

(***************************************************************************)
(* Appends settle, boot runs to its end and timers fire.  Clients and      *)
(* drivers owe nothing.                                                    *)
(***************************************************************************)
Fairness ==
  /\ WF_vars(Commit)
  /\ WF_vars(RehydrateOne) /\ WF_vars(FinishOrphan) /\ WF_vars(BootDone)
  /\ \A r \in Runs : WF_vars(InactivityTimeout(r))

Spec == Init /\ [][Next]_vars /\ Fairness

-----------------------------------------------------------------------------
(* Properties                                                              *)

Boots == [phase : {"up", "rehydrating"}, toScan : SUBSET Runs, orphans : SUBSET Runs]

RunLifecycleTypeOK ==
  /\ log \in Log!LogType
  /\ rec \in [Runs -> RunRecord]
  /\ index \in [IdemKeys -> Runs \cup {NoRun}]
  /\ terminalOrder \in Seq(Runs)
  /\ timers \subseteq Runs
  /\ parked \subseteq Runs
  /\ pending \in Seq(Request)
  /\ boot \in Boots
  /\ resumes \in [Runs -> Nat]
  /\ failures \in Nat /\ crashes \in Nat

(***************************************************************************)
(* start's replay lookup never meets a run requireRun cannot find: an      *)
(* indexed key names a present record that carries this very key, through  *)
(* rollbacks, evictions by timer and by cap, restarts and resumes.         *)
(***************************************************************************)
IndexSound ==
  \A k \in IdemKeys :
    index[k] # NoRun => Present(index[k]) /\ rec[index[k]].key = k

(***************************************************************************)
(* Starting twice with the same key returns the original run: while a      *)
(* record with a key is retained, the key is indexed to it, so no second   *)
(* run can start under that key (StartRunInput.idempotencyKey).            *)
(***************************************************************************)
RetainedKeyIsIndexed ==
  \A r \in Runs :
    Present(r) /\ rec[r].key # NoKey => index[rec[r].key] = r

(***************************************************************************)
(* The retention list is exactly the retained terminal runs, each once,    *)
(* within the cap, each with its timer armed; a timer that is armed for a  *)
(* run that is no longer terminal would evict a live one.                  *)
(***************************************************************************)
TerminalBookkeeping ==
  /\ ToSet(terminalOrder) = {r \in Runs : rec[r].phase = "terminal"}
  /\ IsInjective(terminalOrder)
  /\ Len(terminalOrder) <= MaxTerminalRuns
  /\ ToSet(terminalOrder) \subseteq timers
  /\ \A r \in timers : ~Live(r) /\ rec[r].phase # "starting"

(* A waiter is parked only on a run that something can still finish.       *)
NoStrandedWaiter == \A r \in parked : Live(r)

(***************************************************************************)
(* One terminal outcome per attempt: the log of a run never records more   *)
(* ends than the run had attempts, whoever raced to finish it: driver,     *)
(* inactivity handler, second caller or the next process.                  *)
(***************************************************************************)
Ends(r) == Cardinality({i \in 1 .. Len(log.runs[r].history) :
                          log.runs[r].history[i].event = "end"})

EndsWithinAttempts == \A r \in Runs : Ends(r) <= 1 + resumes[r]

(***************************************************************************)
(* A terminal run's log is closed: its last entry is the end its status    *)
(* was taken from (rehydrate: "an honest terminal outcome").               *)
(***************************************************************************)
TerminalLogClosed ==
  \A r \in Runs :
    rec[r].phase = "terminal" /\ log.runs[r].held =>
      LET h == log.runs[r].history
      IN  h # << >> /\ h[Len(h)].event = "end" /\ h[Len(h)].id = rec[r].endId

(* An open suspension keeps the slow-run notice silent.                    *)
SuspendedNoticeIsOff ==
  \A r \in Runs : rec[r].suspensions > 0 => rec[r].slow = "off"

(* A driver that listens has been told of a request, whichever came first. *)
CancelReachesDriver ==
  \A r \in Runs : rec[r].cancelRequested /\ rec[r].listening => rec[r].told

(***************************************************************************)
(* Nothing takes the record of a live run away but the death of the        *)
(* process: not the retention timer of its previous attempt, not the cap.  *)
(***************************************************************************)
LiveRecordsKept ==
  [][\A r \in Runs : Live(r) /\ rec'[r].phase = "absent" => crashes' # crashes]_vars

(***************************************************************************)
(* Cursors are monotonic per run (protocol event-log.ts): whatever the log *)
(* of a registered run records next gets a higher cursor, whether entries  *)
(* were evicted, the run was resumed or the process restarted, and the log *)
(* of a run that is live is never forgotten, for then its cursors would    *)
(* start again.                                                            *)
(***************************************************************************)
CursorNeverReused ==
  [][\A r \in Runs :
       Present(r) /\ log'.runs[r].history # log.runs[r].history =>
         \/ log'.runs[r].nextId > log.runs[r].nextId
         \/ log'.runs[r].history = << >> /\ ~Live(r)']_vars

(* A boot hands over no run that is still advertised as live.              *)
BootLeavesNoOrphan ==
  [][~Up /\ boot'.phase = "up" => \A r \in Runs : ~Live(r)]_vars

(* A restart always completes.                                             *)
RehydrationEnds == (boot.phase = "rehydrating") ~> Up

(***************************************************************************)
(* A run whose inactivity watchdog is armed and whose driver falls silent  *)
(* (the bound on cursors makes every driver fall silent) does end.         *)
(***************************************************************************)
InactivityEndsRun ==
  \A r \in Runs : (rec[r].watchdog = "armed") ~> ~Live(r)
============================================================================
