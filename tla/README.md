# Formal models of the Jini run core

Jini's daemon runs AI agents. A *run* is started by an HTTP request, produces
events while its driver works, ends once, may be resumed, and is watched by
browsers over server-sent events. A durable chat puts an answer above the runs:
when a run dies, another one continues it. Below them lie a storage kernel whose
turn lock orders everything written to one database file, and an outbox that
sends effects at most once. These modules model those parts. TLC checks them on
small instances; TLAPS proves the main invariants for every instance. Paths
below are relative to `src/packages/`.

## 1. The system

### Components that are modelled

| Component | State | Operations | What makes it correct |
|---|---|---|---|
| Event log (`daemon/src/event-log.ts`, `daemon/src/store/event-log/sqlite*.ts`) | entries, next cursor, dedupe index and retention timer of each run; list of ended runs | append, replay, drop, retention timer, run cap | cursors grow; a replay is never silently incomplete; limits are met at the cost of ended runs only |
| Run lifecycle (`daemon/src/run-lifecycle.ts`, `close-status.ts`) | records, idempotency index, list and timers of terminal runs, parked waiters, two watchdogs per run, appends in flight | start, emit, finish, resume, cancel, onCancelRequested, waitForTerminal, suspend/resume of the slow-run notice, timers, rehydrate | one end per attempt; nothing is recorded after it; index and records agree; live runs are kept; restarts complete |
| Run stream (`daemon/src/http/runs.ts`, `http-kit/src/sse.ts`) | subscribers and their replay buffers, handler progress, queue and socket of each channel | stream, notify, replay, unsubscribe, enqueue/pump/drain, close | every retained event in order and none twice, but the end again for a client that comes back; nothing leaks |
| Turn lock and storage kernel (`db/src/kernel/turn-lock.ts`, `kernel-core.ts`) | turns out and FIFO queue of each file; the scopes and turns of each call chain; legacy transactions | run, transaction, owned transaction, backupTo, nested in one another; acquire, release | a transaction is alone on its file; turns come in order, are lost on no way out of a call, and come |
| Fenced outbox (`infra/src/events/outbox/`) | rows with status, claim token, attempts, owner; transactions; where each worker's pass is; pumps | enqueue, commit, rollback, recover, claim, authorize, beginDispatch, dispatch, complete, start/stop of the pump | what may have been sent is not sent again by itself; no claim stays open; stop is final |
| Durable chat runs (`chat/src/server/durable-runs/`, `chat/src/store/runtime/`) | the answer's row with its attempt generation, recovery budget, stop flag and open tool calls; coordinators at their awaits; the daemon's executor | accept, cancelPending, recover, advance, settle, checkpoint, guardTool, completeTool | recoveries are bounded; a saved call of unknown outcome is not let through again; a stop fences; the answer ends |

How they interact. The lifecycle calls the log and waits for it: every
transition that must survive is an append, and memory changes only in the
continuation after the append. The log knows nothing of the lifecycle; it
recognises the end of a run by the event's name, so the two can differ about
which runs are live. The kernel-backed log appends inside a turn of the storage
kernel, so appends settle in the order they were asked for: what `RunLifecycle`
takes for granted of its requests is `NoOvertaking` of `StorageKernel`. The
stream registers a subscriber with the lifecycle *before* it asks the log for a
replay, and merges both. The HTTP handler owns the channel and the subscriber
and must release both whichever goes first. `server/src/kernel-base.ts` waits for
`rehydrate` before it serves. The coordinators of a durable chat see a run only
through probes and watchers of the daemon; what keeps two of them, a stop and an
old run apart is one compare-and-set in a storage transaction. Writers enqueue
outbox rows in the transaction of their own data; workers on other hosts see
the rows when that commits.

What is hard there: every method awaits in the middle, so calls interleave at
each append, probe and lease; timers fire long after the state they were armed
in; the process may die between any two steps; leases end on clocks that
disagree; limits remove data that somebody may still ask for; clients lose
connections and come back with an old cursor.

### Components that are not modelled

`PROJECT.json` lists them all. Those with a protocol worth modelling, in order:

| Component | State | What is hard | What makes it correct |
|---|---|---|---|
| Session coordination (`daemon/src/session-coordination.ts`) | live runs per conversation, tail promises | tail deletion, stopping peers that end late | one start section per conversation at a time |
| Legacy outbox and webhook delivery (`infra/src/events/outbox/worker.ts`, `integrations/src/webhooks/`) | rows or deliveries with lease and attempts | a late handler writes without a fence, a stop in mid-batch, claims handed back late | at least once; attempts are bounded; every row settles |
| Durable run subscription (`chat/src/core/assistant-client/durable-run-subscription.ts`) | stream epochs, reconnect timer | frames of an old stream, reads in flight | one stream per subscription |
| Supervisor (`sidecar/src/supervisor.ts`) | current child, retry timer, readiness work | exit, termination and shutdown in any order | never two children, recovery after a crash, shutdown is final |
| File lock (`platform/src/fs/file-lock.ts`) | lock file, owner token and inode | stale break between check and unlink | exclusion up to the residual race its header admits |

The other packages (user interface, administration, agents' command lines,
plug-ins, memory, commerce, documentation) are form handling, rendering, prompt
building or single-row database work, and are not modelled.

## 2. Modules

| Module | Models | Rests on |
|---|---|---|
| `EventLog` | both log adapters; `InMemory` chooses | |
| `RunLifecycle` | the registry, composed with the log | `EventLog` (instance) |
| `SseChannel` | the server's SSE channel, as operators on one value | |
| `RunFeed` | abstract: what a reader of a run is promised | |
| `RunStream` | stream, handler, channel, socket and client, composed with the log; implements `RunFeed` | `EventLog`, `SseChannel`, `RunFeed` (instances) |
| `TurnLock` | the turn lock of one file, as operators on one value | |
| `StorageKernel` | kernels, nested calls and legacy transactions, composed with the locks | `TurnLock` |
| `OutboxPromise` | abstract: what the outbox promises of each intent | |
| `Outbox` | fenced rows, transactions, workers and pumps; implements `OutboxPromise` | `OutboxPromise` (instance) |
| `DurableRuns` | one durable answer: store, coordinators, executors | |
| `SequenceLemmas` | lemmas about `RemoveFirst`, `Min`, `ToSet` | TLAPS |
| `EventLogProofs`, `RunLifecycleProofs`, `TurnLockProofs`, `StorageKernelProofs`, `OutboxProofs`, `DurableRunsProofs`, `RunStreamProofs` | the theorems | the module they are about |
| `MCEventLog`, `MCRunLifecycle`, `MCRunStream`, `MCStorageKernel`, `MCOutbox`, `MCDurableRuns` | instances for TLC | |

`PROJECT.json` maps each definition to the lines it stands for.

**EventLog.** `log` is a record: `runs[r]` is the `RunLog` of a run (`held` is
membership in the map), `ended` is `endedRuns` in insertion order. `AppendTo` is
the whole of `append`: dedupe check, FIFO cap, phase of the run, run cap. The
operations are operators from log value to log value, so that `RunLifecycle` and
`RunStream` apply them inside their own steps. `history` is a history variable.
`Kept` is `Array.prototype.filter` by positions; `SelectSeq` says the same but is
recursive, so nothing could be proved of it. `MCEventLog` has TLC evaluate that
the two agree (`AfterIsFilter`).

**RunLifecycle.** `phase` folds `status.state` with the two promises that
reserve a transition: "starting" has `startPromise`, "finishing" has
`finishPromise`. A call that appends puts a request on `pending`; `Commit` and
`Fail` settle the oldest one together with the continuation of its caller. So
every other call may happen at every await. The order is that of
`db/src/kernel/turn-lock.ts`; the synchronous adapters are the case where the
request settles at once. A crash empties memory and keeps the durable log; the
boot that follows works off the run ids the log knows in their order
(`boot.toScan`), then finishes the runs it found live (`boot.orphans`).
`RetentionTimer`, `CompactLog`, `InactivityTimeout` and `SlowRunNotice` are the
timers; they may fire at any time after they are armed.

**RunStream.** `tasks` are the continuations of appends and replays in order. A
replay takes its snapshot when asked; its answer is delivered any time after the
continuations before it, which includes every order the adapters produce.
`BurstFits` bounds the appends the driver has in flight at once (see Bounds).
`conn[c]` is the server's side of a connection, `client` the browser, which
keeps the id of the last event read, comes back with it, and starts over when
the server reports a gap. Socket and client are external: their actions are
what the code relies on (a bounded socket buffer, `drain`, `close`,
`Last-Event-ID`).

**RunFeed.** What was recorded, the oldest retained, whether the run ended, how
far the reader got, how many events it has read, and whether it is done with the
run. The reader advances by one, or skips what the log has lost; an ended run is
read to the end. Nothing is read twice, with one exception that
`run-lifecycle.ts:140-143` documents: a reader that is done and comes back gets
the end once more (`ComeBack`, `Repeat`). `reads` grows with every event read, so
that a repeated one is no stutter of the feed.

**TurnLock, StorageKernel.** A lock is its counters and its queue; `Acquire` and
`Release` are the two methods, neither of which awaits. `stack[c]` holds the
calls a call chain is inside of, innermost last, each with how it came to its
body (`via`): a turn of its own, the scope of an enclosing call, or a legacy
transaction it joined. The scopes that `AsyncLocalStorage` carries, `heldLocks`
and `ownTransactions` are read off the stacks (`InScope`, `InTransaction`,
`HoldsLock`, `OwnOpen`). Asking for a turn and going on with it are two steps
(`TakingTurn`, `Start`), since the `await` of `acquire` resumes in a later
microtask even when the turn was free; `End` is a body that settles, whichever
way. `ForeignBegin` and `ForeignEnd` are legacy code on the same connection.

**Outbox.** `rows` are the stored rows, `tx` the writers' units of work,
`worker[w]` says where the pass of a worker is and which claims it holds. Each
await of `worker.ts` ends an action: recover, claim, next row, authorize,
beginDispatch, its answer, dispatch, complete. Time is a set of workers on whose
clock a lease has ended; it grows at any moment (`LeaseEnds`), so nothing relies
on clocks that agree. `begins` are calls of beginDispatch nobody waits for any
more and that may still be executed (`LateBegin`). A worker may die anywhere;
another process takes its place.

**OutboxPromise.** Per intent: absent, queued, or an outcome, and the number of
tries that may have had their effect. It is sent at most once; a try is taken
back only when the host confirms that it had no effect; outcomes stand.

**DurableRuns.** `row` is the answer's row; its `run` counts the generations of
attempts, which is what the compare-and-set compares. `coord[p]` is a
`recover()` or `accept()` call at one of its awaits, with the run id it has read.
`exec` is the daemon's executor of the owning attempt and `watched` whether this
host follows it; both are ports, modelled from their use. `tools` are guarded
tool calls under way, which may belong to replaced attempts; `effects` counts
those whose outcome the row does not hold. `guardTool` saves a call only when it
comes with a tool-use id (`GuardTool`). One without passes the same test
(`Allowed`) and leaves nothing behind (`GuardUnnamed`); `unnamed` counts those.

## 3. What is checked

| Run | Instance | Distinct states | Shows |
|---|---|---|---|
| `event_log` | 3 runs, run cap 1, 2 entries per run, up to 4 cursors, one dedupe key | about 57,000 | `ReplayIsExact`, `EvictableExactlyEnded`, `RunCapSparesOnlyLive`, `RetainedKeysDistinct`, `LiveRunsKept`, `EndedRunsShrink` |
| `run_lifecycle_durable` | 2 runs over the SQLite log, terminal cap 1, 2 appends in flight, 1 failure, 2 crashes, all ends resumable | about 296,000 | `IndexSound`, `TerminalBookkeeping`, `NoStrandedWaiter`, `EndsWithinAttempts`, `LiveRecordsKept`, `CursorNeverReused`, `BootLeavesNoOrphan`, `RehydrationEnds` |
| `run_lifecycle_watchdogs` | 1 run over the in-memory log, both watchdogs, cancellation, 2 nested suspensions, log dropped on eviction | about 14,000 | `TerminalLogClosed`, `SuspendedNoticeIsOff`, `CancelReachesDriver`, `InactivityEndsRun` |
| `run_stream` | 1 run of up to 5 events over a log that keeps 3, 2 connections, queue of 1, socket of 1, 1 cut or reload | about 284,000 | `LiveStreamIsComplete`, `NoLeakedSubscriber`, `ImplementsFeed` |
| `storage_kernel` | 3 call chains, two of which nest, 2 kernels on 1 file, legacy transactions on one of them | about 140,000 | `TurnsExclude`, `LockCountsTurns`, `NoLostGrant`, `NoOvertaking`, `EveryTurnComes` |
| `outbox` | 1 intent, 1 transaction, 2 workers of which 1 is stopped, 3 tokens, 2 attempts, 1 late beginDispatch | about 128,000 | `SentAtMostOnce`, `StopIsFinal`, `KeepsPromise`, `EveryClaimResolves` |
| `durable_runs` | 2 coordinators, 1 tool call, recovery limit 1, 2 inputs, 1 call without an id | about 714,000 | `RecoveryBounded`, `UnknownCallsNotRepeated`, `StopFences`, `AnswerEnds` |

Each passing run checks its module's type invariant too, once per module. Each
property is stated in words above its definition. Each one is violated by at
least one plausible change of the code: the variants that stand beside the
definitions they change (`CompactRunToOldest`, `FailStartKeepsKey`,
`GrantsOne`, `RecoverAsUnsent`, `CanAdvanceStopped` and so on) are those changes,
and `PROJECT.json` says which property each breaks.

### Five disagreements between the code and what it says of itself

| Run | What happens |
|---|---|
| `cursor_reuse` | `resume` appends nothing, so the in-memory log still counts the run as ended until its next event. If another run's append meets the run cap first, the live run's log is evicted and its next event gets cursor 1 again. `daemon/src/event-log.ts:78-79` says a run "resumed since" is never evicted. |
| `stale_end` | `rehydrate` takes any end in the log for the outcome. A run that was resumed and live when the process died comes back as terminal with the outcome of the previous attempt and gets no end of its own. `daemon/src/run-lifecycle.ts:893-894` promises "an honest terminal outcome". |
| `key_after_restart` | After a first run with a key was evicted from memory and a second one was started, a restart restores both; the index names one of them. When that one is evicted, the key is free although the other is retained. `daemon/src/run-lifecycle.ts:40-41` says a second start returns the original run. |
| `spent_watchdog` | The inactivity watchdog fires while the end is being appended: its event is refused and it is spent. If that append fails, the run stays live and nothing arms the watchdog again. It takes a log whose append outlasts a timer, as the kernel adapter's may. `daemon/src/run-lifecycle.ts:782` says that "the watchdog stays armed" then. |
| `nested_begin` | `transaction()` asks whether a legacy transaction is open before it waits for its turn (`db/src/kernel/kernel-core.ts:118`) and not after. One opened meanwhile on the same connection makes its `BEGIN` fail. Lines 49-51 say that kernel calls join it "instead of failing on a nested `BEGIN`". An owned transaction asks again (line 120). |

`CursorNeverReused` therefore holds in `run_lifecycle_durable` (the durable log
evicts no runs) and fails with the in-memory log; `TerminalLogClosed` holds
without a crash and fails with one; `InactivityEndsRun` holds while appends
succeed and fails with one that does not; the properties of the kernel hold
although a `BEGIN` may fail, since a call that fails gives its turn back.

### Bounds

`MaxCursor` bounds the cursors handed out per run; two more than the per-run cap
lets the cap evict, the run end, resume and end again. Three runs against a run
cap of one let one append evict several runs and let it find none to evict. Two
runs against a terminal cap of one make every second end evict. Two appends in
flight are enough for each pair of calls to race. Two crashes let the second
one hit the boot that follows the first, between any two of its steps, or a
process that has already restarted once. One connection cut by the client,
together with those the server closes at an overflow, gives reconnects from
every phase; or one reload makes a client that is done come back. The longest queue and the socket buffer hold one event, so overflow
and backpressure come at once. Payloads are never looked at and have one value.

Kernel: `MaxDepth` is two for two of the chains, so each kind of call nests in
each other one, on the same and on the other connection; `MaxCalls` lets a chain
make a second nested call after it returned from the first. Three chains make a
queue with a holder and two waiters of any kinds, which is what a release that
grants several turns, or stops at an exclusive one, needs.

Outbox: the fence is per row, so rows interact only through the batch of a
worker; one row with two workers gives every race for it. Three tokens let a
row be claimed while two older claims of it are still in some hand. Two attempts
let a confirmed failure be retried once and the next one exhaust the policy.
`MaxLate` bounds the lost calls under way at once to one; the proofs need no
such bound.

Durable runs: two coordinators race at every await, which is what the
compare-and-set is for. `MaxInputs` bounds the requests to accept the answer and
the spent budgets that new progress refreshes; with two of them an answer lives
through up to three generations. One call is enough: calls are kept apart by
their canonical input and never interact. `MaxUnnamed` lets it pass once without
an id: before, after and between saved ones, in each generation. The proofs hold
for any bound.

`BurstFits` of `RunStream` is a bound that the proofs rest on too: the driver has
fewer appends in flight at once than the log keeps entries. Without it TLC finds
a corner (a cap of 2, a queue of 4): four emits in one tick against a log that
keeps two; a reader without a cursor subscribes and asks when the log holds 3 and
4 and their subscribers have not been notified. The replay delivers 3 and 4, and
`deliverUndeliveredEvents` then delivers 2 from the buffer, which is not among
them: the newer event before the older one, although the comment at
`daemon/src/run-lifecycle.ts:1129-1131` says that a reconnect cannot "observe the
live event ahead of older history". The SQLite log keeps 2000 entries unless told
otherwise (`sqlite-policy.ts:10`) and the in-memory log all of them, so drivers
stay far below the bound; the driver of a spawned child has one emit in flight at
a time (`agent-executor/events.ts:412`).

Deadlock is not checked: a bounded model stops when its counters are used up,
and the real system may be idle for ever.

### Fairness

`RunLifecycle`: pending appends settle, a boot goes on, and an armed inactivity
timer fires. These are promises and timers of the event loop. Drivers and
clients owe nothing. `RunStream`: continuations run, a socket that can drain
does and reports its closing, and a client that wants the run reads and
reconnects. No driver has to end its run: liveness is about runs that ended.
`StorageKernel`: a resolved promise runs on and every body settles; the code
cannot do anything about one that does not. New calls and legacy transactions
owe nothing. `Outbox`: processes are started again, timers fire, a pass goes on
(each of its waits has a timeout in the code), leases end on each clock, and
recovery does not fail every time (strong fairness: a pass may end before it,
but not for ever). A dispatch owes nothing but an answer or its timeout.
`DurableRuns`: some coordinator goes on or is triggered again by the host, not
every probe of a dead run fails (strong fairness: probes of a live run may come
in between), and a run the daemon accepted starts and ends. `EventLog` has
safety properties only.

## 4. What is proved

For every value of the constants, from the assumptions named in the modules
(sets that are finite, null values outside of them, caps that are natural
numbers). Induction is over steps; each proof has one case per action.

**Event log** (`EventLogProofs`).

- `TypeCorrect`: `Spec => []EventLogTypeOK`.
- `EvictableRunsAreEnded`: `Spec => []EvictableExactlyEnded`. `endedRuns` is
  exactly the held runs whose last entry is the end, each once, and a retention
  timer is armed for such runs only.
- `LiveRunsAreKept`: `Spec => LiveRunsKept`. A run whose last event is not the
  end is forgotten only by its own drop or by the append of its own end, when
  the run cap leaves it no room.
- `RunCapIsMet`: `Spec => []RunCapSparesOnlyLive`. Over the cap only when there
  is nothing to evict.
- `RetriesLeaveNoCopy`: `Spec => []RetainedKeysDistinct`. Retained entries carry
  distinct dedupe keys.
- `ReplaysAreExact`: `Spec => []ReplayIsExact`. A replay answers with exactly the
  retained events after the cursor, and reports a gap exactly when it has lost
  one the reader has not seen.

`EventLogTypeOK` is inductive by itself. `EvictableExactlyEnded` is not, as a
statement about sequences of entries alone: the step that evicts needs that the
list has no duplicates, else removing a run's first occurrence would leave it
evictable; the step that appends needs that entries are never empty for a held
run, else "last entry" means nothing. The invariant is
`EventLogTypeOK /\ (InMemory => Exact(log))`, with `Exact` for the three facts
together. Each operator of the log has a lemma that it preserves `Exact`, and
`NextKeepsExact` joins them. `LiveRunsKept` follows from the same invariant: the
run cap takes from `endedRuns` only, and those are the ended runs. `CapHolds`
counts held runs; it rests on `Exact`, since what the cap removes from the list
must be as many held runs. `KeysKnown` says that cursors name one entry and that
the dedupe index names the entry that carries a key: two retained entries with
one key would have one cursor. It survives every cut because a cut keeps the end
of the entries (`NewestElements`) and the evidence for what it keeps.
`ReplayIsExact` needs `RetainsEnd`: the history is numbered from 1 on without a
hole, and what is retained is its end. Then the entries after a cursor are
consecutive, and to filter them (`Kept`) is to cut them off (`AfterNumbered`).
`SequenceLemmas` proves what is needed of `RemoveFirst` from its definition.

**Run lifecycle** (`RunLifecycleProofs`).

- `RegistryTypeIsCorrect`, `IndexIsSound` (`IndexSound`), `RetentionIsExact`
  (`TerminalBookkeeping`), `WaitersAreNotStranded` (`NoStrandedWaiter`),
  `SuspensionSilences` (`SuspendedNoticeIsOff`), `CancellationArrives`
  (`CancelReachesDriver`), `LiveRecordsAreKept`, `BootFinishesOrphans`
  (`BootLeavesNoOrphan`).
- `OneOutcomePerAttempt`: `Spec => []EndsWithinAttempts`, for both adapters and
  any number of deaths.
- `TerminalLogsAreClosed`: `Spec => [](crashes = 0 => TerminalLogClosed)`. The
  premise is what the code needs: after a death it does not hold (`stale_end`).
- `CursorsAreMonotonic`: `ASSUME ~InMemory PROVE Spec => CursorNeverReused`. The
  in-memory log reuses cursors (`cursor_reuse`).

The invariants hold of the registry only because of what is in flight and of
what a boot has still to do, so `LifecycleInv` adds both. `PendingOK`: a start
in flight has a starting run, an end a finishing one, and no run has two of
them; otherwise the continuation of one call would end a run another call has
evicted. `BootOK`: while the process boots nothing is in flight, a run that is
yet to be scanned is unknown and has no timer, and the live runs are the
orphans. `Shape` joins index, retention list, timers and waiters. It is stated
of values, so that a step that changes two records (the run that ends and the
one the cap evicts) is two uses of one lemma (`UpdateShape`); the steps of the
log come from `EventLogProofs`. The cap loop is a single eviction because the
list was within the cap before, which the same invariant shows.

The last three are about the history of a run's log. What any action may do to
one run, its record, its log and its count of resumes at once, is one of nine
things (`Step`: recorded, closed, resumed, restored and so on), and `NextSteps`
shows it action by action. `HistoryInv` then has one case per kind: at most one
end per attempt, and a run whose attempt is over, so far as the ends go, has its
end as the last entry, so that a boot takes it for over too (`RunHistoryOK`).
This needs `EmitsOK`: an emit in flight has a live run and is never behind the
end of its run in the queue. Otherwise an event could follow the end, the boot
would take the run for an orphan and give it a second end. `ClosedInv` says that
a terminal run's log is closed while no process has died.

**Run stream** (`RunStreamProofs`).

- `TypeCorrect` (`RunStreamTypeOK`, which holds the limits of queue and socket),
  `SubscribersDoNotLeak` (`NoLeakedSubscriber`), `LiveStreamsMissNothing`
  (`LiveStreamIsComplete`).
- `StreamIsFeed`: `Spec => Feed!Init /\ [][Feed!Next]_(Feed!vars)`, the safety
  half of `ImplementsFeed`.

All four follow from `StreamInv`. It is stated of three numbers, the length of
the history, the oldest entry `o` that is retained and the number `n` of entries
whose subscribers have been notified, instead of sequences of events: each
buffer, queue and wire is a stretch of the history, and the parts say where it
begins and ends.

| Part | Says |
|---|---|
| `LogOK` | The history is numbered from 1 on and ends with the end once that is recorded; the log retains its end, and as much of it as its cap allows while the run goes on |
| `TasksOK` | The appends under way are the entries after `n`, in their order |
| `PhaseOK` | A terminal run has all its entries notified and keeps its end entry; while it runs, the entries under way fit into the log |
| `ConnOK`, `RepliesOK` | What sub, call, owner and channel of a connection allow of each other; one replay per call |
| `DoneOK` | The client is done only when the run has ended and it has read everything |
| `Position` | The client's cursor is the last event it has seen, one of those notified; without a cursor it has seen none, or the log has lost the next one |
| `FeedOK`, `Collects` | While the replay is read, its answer and the buffer join without a hole and reach up to `n`, and begin where the client is |
| `FeedOK`, `Receives`, `Carries` | Once live, the wire and the queue are the entries after the client's position, up to `n` (or up to where the channel closed) |

`LiveStreamIsComplete` is not inductive: it is what is left of `Collects` when the
answer and the buffer have been delivered. The heart is `CaughtUp`: that the
buffer without the answered events is the rest of the answer (`Collected`), which
is where `BurstFits` is needed. `Moves` says of every operation of the channel
that it takes from the front of the queue and adds to the end of the wire, so
each of them keeps `Carries`. `Proceeds` joins the invariant and the refinement:
each action leads to a state where `StreamAt` holds, and is a step of the feed
(`FeedStep`) on the way there. Emit and Finish map to Record, Compact to Compact,
Receive to See, to Skip when the event is the first of an answer that begins with
what is retained, or to Repeat when it is the end for a client that has it; Reload
maps to ComeBack. Everything else is a stutter, and no Receive is one: `reads` of
the feed is the number of events the client has read. That the end is repeated
only after a return is what `DoneOK` and the last case of `Receives` say: a client
that has read the end is on no connection that still brings it anything.

**Turn lock and kernel** (`TurnLockProofs`, `StorageKernelProofs`).

- `KernelTypesHold`, `TurnsStayExclusive` (`TurnsExclude`), `LocksCountRight`
  (`LockCountsTurns`), `NoGrantIsLost` (`NoLostGrant`), `NobodyIsOvertaken`
  (`NoOvertaking`).

The invariant `KernelInv` has two parts beside the types. `StackOK`, per chain:
only the innermost call has not reached its body, and only for a turn of its
own; a chain has one turn of a file at most. This is what the check of
`heldLocks` gives, and without it a chain could queue behind itself. `FileInv`,
per file, says that the lock is what the stacks say: the counters are the
holders and an exclusive holder is alone (`HeldIs`), the queue lists each
waiting call once (`QueueIs`), and its head does not fit (`HeadBlocked`).
`TurnLockProofs` proves of the lock alone that taking, queueing up, giving back
and granting keep these three, and that grants go to the front of the queue
(`GrantedInOrder`); `StorageKernelProofs` shows that every call of a kernel does
one of them and that its stack changes accordingly.

**Outbox** (`OutboxProofs`).

- `OutboxTypeCorrect`, `AtMostOnce` (`SentAtMostOnce`), `StopIsFinalAlways`
  (`StopIsFinal`), `OutboxKeepsPromise` (`KeepsPromise`).

`SentAtMostOnce` is not inductive: what rules out a second dispatch is where
the workers are. `OutboxInv` adds that no two workers hold claims with one token
(`OneHolder`); that a worker between the marker and its completion is the only
one for its row (`OneSender`), that the row still has its marker and token or
was written off, and that `sent` is what that worker did (`SendersOK`); and
that a row without the marker has not been sent (`UnmarkedUnsent`). Steps that
start no dispatch are covered by one lemma (`QuietStep`); the marker, the
dispatch and the completion have their own. The refinement maps a row to
"absent" until its transaction has committed, to "queued" while it is pending,
leased or dispatching, and to its outcome after that. Commit maps to Commit,
StartDispatch to Send, a confirmed failure to NoEffect, Complete to Settle (or to
a stutter when it returns the row to the queue), Recover to WriteOff; everything
else is a stutter.

**Durable runs** (`DurableRunsProofs`).

- `DurableRunsTypeCorrect`, `RecoveryIsBounded` (`RecoveryBounded`),
  `NoUnknownCallIsRepeated` (`UnknownCallsNotRepeated`), `StopFencesAlways`
  (`StopFences`).

`RecoveryBounded` needs `BudgetHeld`: a coordinator that is past the budget's
check and still knows the owning run has seen budget left; every step that
spends budget changes the run, so such a coordinator is refused.
`UnknownCallsNotRepeated` needs `EffectsSaved`: the row holds exactly the calls
with an effect of unknown outcome, each once, across generations. The theorem is
about calls that were saved: while one of unknown outcome is, the same call is
let through neither with an id nor without (`Allowed` does not look at the id).
It says nothing of a call that came without an id (see section 5).

Every invariant and every action property that a run checks is proved. What stays
with TLC is liveness (`EndedRunsShrink`, `RehydrationEnds`, `InactivityEndsRun`,
`EveryTurnComes`, `EveryClaimResolves`, `AnswerEnds`, and that `RunStream` keeps
the fairness of `RunFeed`), since fairness speaks of ENABLED, which is out of the
prover's reach; and that `Kept` is `SelectSeq` (`AfterIsFilter`), which is defined
by recursion and would need induction over sequences.

## 5. What is left out

- Event log: `appendWithResult`, `retentionPolicy: 'reject'`, the order of the
  kernel adapter's hops before a turn is taken, and an append that fails after
  it was committed.
- Replay cursors that are not numbers.
- Run lifecycle: explicit run ids, which callers use in tests only (`Fresh` is
  the guard that stands for `randomUUID`); `delegatedResultCorrelation`;
  suspending the slow-run notice while the start is pending, which generated ids
  rule out; `maxTerminalRuns` of zero; a per-run cap of zero.
- Run stream: `channel.end()` and the handler's error paths, the AG-UI stream,
  and a subscriber that stays on through a resume (one attempt is modelled).
- `MaxRuns` equal to the number of runs stands for no run cap.
- Storage kernel: chains that fork (`Promise.all` inside a body, detached work);
  a body that joined a legacy transaction and outlives it; in-memory databases;
  drivers without the lock. Two chains that take the turns of two files in
  opposite orders wait for each other for ever: the kernel leaves the order to
  its callers, and the checked instance has one file. The safety theorems hold
  for any number of files.
- Outbox: the paths of `worker.ts` and `drainer.ts` for stores without fences;
  digests, which only decide what an enqueue of a known key answers; a
  `complete()` that never settles.
- Durable runs: the slot a conversation has for one answer and several answers
  at once (the browser's write of a queued row in
  `run-guarded-chat-store.ts:21-41` does not go through it); sessions and native
  resume; answers that wait for the user; engines other than the daemon;
  what a checkpoint of the run's own stream saves of a call that came to the guard
  without an id (it could only refuse more);
  `cancel({runId})` with the id of a replaced attempt; the state of replaced
  executors, whose writes are fenced; the recovery window's number, which a pause
  may reset (time is an arbitrary choice).

A limit of the code, which `UnknownCallsNotRepeated` therefore leaves room for: a
tool call without a tool-use id (it is optional) is let through and not saved
(`durable-run-store.ts:426`; `durable-run-store.test.ts:405-410` wants it so), so
the guard lets an identical call through again although the outcome of the first
is unknown. `GuardUnnamed` models it.

Known hazards that no property covers are in `PROJECT.json` with the reason.

## 6. Plan

1. `SessionCoordination` composed with the waiters of `RunLifecycle`.
2. The legacy outbox and webhook delivery, as variants of `Outbox` without
   fences and with at-least-once delivery.
3. The browser's side of `DurableRuns`: one stream per subscription.
4. `Supervisor`, then `FileLock`.
5. Proofs: composition. `RunStream` and `RunLifecycle` have the log in common, but
   each its own registry; a run of several attempts seen through a stream.
