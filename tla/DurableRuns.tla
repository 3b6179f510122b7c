---------------------------- MODULE DurableRuns ----------------------------
(***************************************************************************)
(* One answer of a durable chat (chat/src/server/durable-runs and          *)
(* chat/src/store/runtime): it is accepted, executed by a run, and when    *)
(* the run dies continued by the next one, until it is settled or the      *)
(* budget is spent.  Every operation of the store is one locked            *)
(* transaction and one action here.  The coordinators (two hosts, or two   *)
(* calls of one) interleave at their awaits.                               *)
(*                                                                         *)
(* The daemon that executes runs, its probes and the host's watchers and   *)
(* triggers are ports of this code; they are modelled from their use.      *)
(* The recovery window and the staleness of an answer are clocks: they may *)
(* be found to have run out whenever the budget is weighed.                *)
(***************************************************************************)
EXTENDS Integers

CONSTANTS Coordinators,  \* recover() and accept() calls that may be under way
          Calls,         \* tool calls, by tool and canonical input
          RecoveryLimit, \* RECOVERY_LIMIT
          MaxInputs,     \* bound: requests to accept the answer and refreshed budgets
          MaxUnnamed     \* bound: times a call is let through without an id

ASSUME DurableRunsAssumption ==
  RecoveryLimit \in Nat \ {0} /\ MaxInputs \in Nat /\ MaxUnnamed \in Nat

VARIABLES row,      \* the answer's message and attempt rows
          exec,     \* the daemon's executor of the attempt that owns the answer
          watched,  \* whether a watcher of the host is attached to that attempt
          coord,    \* [Coordinators -> Coordinator]
          tools,    \* tool calls under way: guarded and not completed
          effects,  \* history: effects of each call whose outcome the row does not hold
          unnamed,  \* history: how often each call was let through without an id
          inputs    \* requests and refreshed budgets left, of MaxInputs

vars == << row, exec, watched, coord, tools, effects, unnamed, inputs >>

Active   == {"queued", "running"}
Settled  == {"succeeded", "failed", "canceled"}

(* A row's run counts generations: the attempt that owns it.  open: saved  *)
(* tool calls without a result.  young: the attempt began less than 10 s   *)
(* ago.                                                                    *)
Row == [status : {"absent"} \cup Active \cup Settled, run : Nat, recoveryCount : Nat,
        young : BOOLEAN, cancel : BOOLEAN, open : SUBSET (Calls \X Nat)]

Executors == {"none", "sent", "running", "succeeded", "failed"}

Steps == {"idle", "probe", "resolve", "fence", "advance", "check", "launch", "finalize", "settle"}
Coordinator == [at : Steps, run : Nat, failed : BOOLEAN, final : Settled]

NoRow == [status |-> "absent", run |-> 0, recoveryCount |-> 0, young |-> FALSE,
          cancel |-> FALSE, open |-> {}]
Given(step, g, failed) == [at |-> step, run |-> g, failed |-> failed, final |-> "failed"]
Idle == Given("idle", 0, FALSE)

IsActive == row.status \in Active
CanExecute(g) == IsActive /\ row.run = g /\ ~row.cancel

Init ==
  /\ row = NoRow /\ exec = "none" /\ watched = FALSE
  /\ coord = [p \in Coordinators |-> Idle]
  /\ tools = {} /\ effects = [c \in Calls |-> 0] /\ unnamed = effects
  /\ inputs = MaxInputs

At(p, step) == coord[p].at = step
Goto(p, step) == coord' = [coord EXCEPT ![p].at = step]
Return(p) == coord' = [coord EXCEPT ![p] = Idle]

(* finalize() fences the attempt and then settles it.                      *)
Finalize(p, g, status) ==
  coord' = [coord EXCEPT ![p] = [at |-> "finalize", run |-> g, failed |-> FALSE, final |-> status]]

-----------------------------------------------------------------------------
(* Acceptance and cancellation                                             *)

(* accept(): the first request stores the answer; a repeated one gets it   *)
(* back, and sends it to the daemon again while it is queued.              *)
Accept(p) ==
  /\ At(p, "idle") /\ inputs > 0
  /\ inputs' = inputs - 1
  /\ IF row.status = "absent"
     THEN /\ row' = [NoRow EXCEPT !.status = "queued", !.run = 1, !.young = TRUE]
          /\ coord' = [coord EXCEPT ![p] = Given("launch", 1, FALSE)]
          /\ UNCHANGED << exec, watched >>
     ELSE IF row.status = "queued" /\ row.recoveryCount = 0 /\ ~row.cancel
     THEN /\ coord' = [coord EXCEPT ![p] = Given("launch", row.run, FALSE)]
          /\ UNCHANGED << row, exec, watched >>
     ELSE /\ watched' = TRUE
          /\ UNCHANGED << row, exec, coord >>
  /\ UNCHANGED << tools, effects, unnamed >>

(* cancelPending(): a stop that beats the acceptance leaves a settled row; *)
(* otherwise the stop is recorded on the row, whatever attempt owns it.    *)
CancelPending ==
  /\ IF row.status = "absent"
     THEN row' = [NoRow EXCEPT !.status = "canceled", !.run = 1]
     ELSE row' = [row EXCEPT !.cancel = TRUE]
  /\ UNCHANGED << exec, watched, coord, tools, effects, unnamed, inputs >>

-----------------------------------------------------------------------------
(* The store                                                               *)

(* New output or a tool event earns a fresh budget; only one that was      *)
(* spent counts against MaxInputs.                                         *)
FreshBudget(r) == [r EXCEPT !.recoveryCount = 0]
Refresh == IF row.recoveryCount = 0 THEN UNCHANGED inputs
           ELSE inputs > 0 /\ inputs' = inputs - 1

(* Variant: only a run that was seen running is settled.                   *)
SettleRunning(g, status) ==
  row' = IF row.status = "running" /\ row.run = g
         THEN [row EXCEPT !.status = status, !.young = FALSE] ELSE row

(* Every statement that writes an attempt's outcome matches its run id and *)
(* a status that is not terminal.                                          *)
Settle(g, status) ==
  row' = IF IsActive /\ row.run = g THEN [row EXCEPT !.status = status, !.young = FALSE] ELSE row

(* Variants: the generation, the stop or the saved events are not read     *)
(* under the lock.                                                         *)
CanAdvanceAnyRun(g) == IsActive /\ ~row.cancel
CanAdvanceStopped(g) == IsActive /\ row.run = g
AdvancedBlank == [row EXCEPT !.run = @ + 1, !.status = "queued", !.recoveryCount = @ + 1,
                             !.young = TRUE, !.open = {}]

(* advance(): one compare-and-set gives the answer to the next generation. *)
(* Its saved events are those of the row now, not those of the probe.      *)
CanAdvance(g) == CanExecute(g)
Advanced == [row EXCEPT !.run = @ + 1, !.status = "queued", !.recoveryCount = @ + 1,
                        !.young = TRUE]

-----------------------------------------------------------------------------
(* recover()                                                               *)

(* The reload after an await ends a decision about a row that changed.     *)
GoesOn(p, next) ==
  IF next = "resolve" THEN Goto(p, next)
  ELSE coord' = [coord EXCEPT ![p] = IF next = "idle" THEN Idle
                                     ELSE Given(next, row.run, FALSE)]

Reload(p, next) ==
  IF ~IsActive \/ row.run # coord[p].run THEN Return(p)
  ELSE IF row.cancel THEN Finalize(p, row.run, "canceled")
  ELSE GoesOn(p, next)

(* A trigger with an expected run id does nothing for another one.         *)
Recover(p, g, failed) ==
  /\ At(p, "idle") /\ IsActive /\ row.run = g
  /\ IF row.cancel
     THEN Finalize(p, g, "canceled")
     ELSE coord' = [coord EXCEPT ![p] = Given("probe", g, failed)]
  /\ UNCHANGED << row, exec, tools, effects, unnamed, inputs >>

(* boot, browser: no expectation.                                          *)
Discover(p) == Recover(p, row.run, FALSE) /\ UNCHANGED watched

(* A watcher whose window passed asks again; one that saw its run end in   *)
(* failure reports that and is done.                                       *)
WatchTimeout(p) == watched /\ Recover(p, row.run, FALSE) /\ UNCHANGED watched
AttemptFailed(p) ==
  /\ watched /\ exec = "failed"
  /\ Recover(p, row.run, TRUE)
  /\ watched' = FALSE

(* The daemon knows a run that runs, may still hold one that ended, and    *)
(* answers 404 for any other; a transport failure says nothing.  A live    *)
(* run is watched again, an uncertain one too.  A reported failure needs   *)
(* no probe.                                                               *)
StillOurs(p) == IsActive /\ row.run = coord[p].run /\ ~row.cancel

ProbeDead(p) ==
  /\ At(p, "probe")
  /\ coord[p].failed \/ row.run # coord[p].run \/ exec # "running"
  /\ Reload(p, "resolve")
  /\ UNCHANGED << row, exec, watched, tools, effects, unnamed, inputs >>

ProbeLive(p) ==
  /\ At(p, "probe") /\ ~coord[p].failed
  /\ Reload(p, "idle")
  /\ watched' = (watched \/ StillOurs(p))
  /\ UNCHANGED << row, exec, tools, effects, unnamed, inputs >>

(* A dead run's diagnostics may leave nothing to repeat.                   *)
Diagnose(p) ==
  /\ At(p, "resolve")
  /\ \E status \in {"failed", "canceled"} : Finalize(p, coord[p].run, status)
  /\ UNCHANGED << row, exec, watched, tools, effects, unnamed, inputs >>

(* Otherwise the budget decides: the number of recoveries, the time since  *)
(* the last progress, the recovery window.                                 *)
Exhausted == row.recoveryCount >= RecoveryLimit

(* A queued attempt may not have reached the daemon yet.                   *)
Waits(p) == row.young /\ ~coord[p].failed

Resolve(p) ==
  /\ At(p, "resolve")
  /\ \/ StillOurs(p) /\ Finalize(p, coord[p].run, "failed") /\ UNCHANGED watched
     \/ /\ StillOurs(p) => ~Exhausted
        /\ Reload(p, IF Waits(p) THEN "idle" ELSE "fence")
        /\ watched' = (watched \/ (StillOurs(p) /\ Waits(p)))
  /\ UNCHANGED << row, exec, tools, effects, unnamed, inputs >>

(* cancelAttempt() stops the run at the daemon, or does not reach it.      *)
CancelAttempt(p) ==
  /\ \/ UNCHANGED exec
     \/ row.run = coord[p].run /\ exec = "running" /\ exec' = "failed"
  /\ Goto(p, IF At(p, "fence") THEN "advance" ELSE "settle")
  /\ UNCHANGED << row, watched, tools, effects, unnamed, inputs >>

Fence(p) == (At(p, "fence") \/ At(p, "finalize")) /\ CancelAttempt(p)

(* Variant: a refused advance counts as done.                              *)
AdvanceUnchecked(p) ==
  /\ At(p, "advance")
  /\ IF CanAdvance(coord[p].run)
     THEN row' = Advanced /\ exec' = "none" /\ watched' = FALSE
     ELSE UNCHANGED << row, exec, watched >>
  /\ coord' = [coord EXCEPT ![p].at = "check", ![p].run = row.run + 1]
  /\ UNCHANGED << tools, effects, unnamed, inputs >>

Advance(p) ==
  /\ At(p, "advance")
  /\ IF CanAdvance(coord[p].run)
     THEN /\ row' = Advanced
          /\ exec' = "none" /\ watched' = FALSE
          /\ coord' = [coord EXCEPT ![p].at = "check", ![p].run = row.run + 1]
     ELSE Return(p) /\ UNCHANGED << row, exec, watched >>
  /\ UNCHANGED << tools, effects, unnamed, inputs >>

(* The row is read again before anything is launched.                      *)
CheckNext(p) ==
  /\ At(p, "check")
  /\ CASE row.run # coord[p].run                -> Return(p)
       [] row.run = coord[p].run /\ row.cancel  -> Finalize(p, row.run, "canceled")
       [] OTHER                                 -> Goto(p, "launch")
  /\ UNCHANGED << row, exec, watched, tools, effects, unnamed, inputs >>

(* The start request is idempotent by run id; it may get lost.             *)
Launch(p) ==
  /\ At(p, "launch")
  /\ \/ row.run = coord[p].run /\ exec = "none" /\ exec' = "sent"
     \/ UNCHANGED exec
  /\ watched' = (watched \/ row.run = coord[p].run)
  /\ Return(p)
  /\ UNCHANGED << row, tools, effects, unnamed, inputs >>

SettleFinal(p) ==
  /\ At(p, "settle")
  /\ Settle(coord[p].run, coord[p].final)
  /\ Return(p)
  /\ UNCHANGED << exec, watched, tools, effects, unnamed, inputs >>

-----------------------------------------------------------------------------
(* The executors.  One of an older attempt may still run; what it does is  *)
(* fenced, so its state is not kept.                                       *)

Execute ==
  /\ exec = "sent"
  /\ exec' \in {"running", "none"}
  /\ UNCHANGED << row, watched, coord, tools, effects, unnamed, inputs >>

RunEnds ==
  /\ exec = "running"
  /\ exec' \in {"succeeded", "failed", "none"}
  /\ UNCHANGED << row, watched, coord, tools, effects, unnamed, inputs >>

(* checkpoint(): a replayed prefix is no progress, new output is.          *)
Checkpoint ==
  /\ exec \notin {"none", "sent"} /\ watched /\ IsActive
  /\ \/ row' = [row EXCEPT !.status = "running"] /\ UNCHANGED inputs
     \/ row' = FreshBudget([row EXCEPT !.status = "running"]) /\ Refresh
  /\ UNCHANGED << exec, watched, coord, tools, effects, unnamed >>

(* The watcher settles a run that ended well.                              *)
SettleEnd ==
  /\ watched /\ exec = "succeeded"
  /\ Settle(row.run, "succeeded")
  /\ watched' = FALSE
  /\ UNCHANGED << exec, coord, tools, effects, unnamed, inputs >>

(* guardTool(): a call is let through only for the attempt that owns the   *)
(* answer, and not while the outcome of the same call is unknown.  It may  *)
(* reach the store after its run was found dead, or from a run that was    *)
(* replaced.                                                               *)
Unknown(c) == \E use \in row.open : use[1] = c
Allowed(g, c) == CanExecute(g) /\ ~Unknown(c)

(* A call with a tool-use id: its use is saved in the same transaction.    *)
GuardTool(g, c) ==
  /\ << c, g >> \notin tools
  /\ Allowed(g, c)
  /\ row' = FreshBudget([row EXCEPT !.open = @ \cup {<< c, g >>}])
  /\ tools' = tools \cup {<< c, g >>}
  /\ effects' = [effects EXCEPT ![c] = @ + 1]
  /\ Refresh
  /\ UNCHANGED << exec, watched, coord, unnamed >>

(* The id is optional.  A call without one passes the same test and leaves *)
(* nothing behind, so the same call is let through again.                  *)
GuardUnnamed(g, c) ==
  /\ unnamed[c] < MaxUnnamed
  /\ Allowed(g, c)
  /\ unnamed' = [unnamed EXCEPT ![c] = @ + 1]
  /\ UNCHANGED << row, exec, watched, coord, tools, effects, inputs >>

(* completeTool(): the result is saved if its attempt still owns the       *)
(* answer.  A tool whose run died may never come to it.                    *)
CompleteTool(c, g) ==
  /\ << c, g >> \in tools
  /\ tools' = tools \ {<< c, g >>}
  /\ IF row.run = g /\ IsActive
     THEN /\ row' = FreshBudget([row EXCEPT !.open = @ \ {<< c, g >>}])
          /\ effects' = [effects EXCEPT ![c] = @ - 1]
     ELSE /\ row' = IF row.run = g THEN FreshBudget(row) ELSE row
          /\ UNCHANGED effects
  /\ UNCHANGED << exec, watched, coord, unnamed, inputs >>

-----------------------------------------------------------------------------
(* Time and deaths                                                         *)

GraceEnds ==
  /\ IsActive /\ row.young
  /\ row' = [row EXCEPT !.young = FALSE]
  /\ UNCHANGED << exec, watched, coord, tools, effects, unnamed, inputs >>

(* The host dies: its watchers are gone, its coordinators never go on.     *)
HostDies ==
  /\ watched
  /\ watched' = FALSE
  /\ UNCHANGED << row, exec, coord, tools, effects, unnamed, inputs >>

Coordinate(p) ==
  \/ ProbeDead(p) \/ ProbeLive(p) \/ Diagnose(p) \/ Resolve(p) \/ Fence(p) \/ Advance(p)
  \/ CheckNext(p) \/ Launch(p) \/ SettleFinal(p)

Next ==
  \/ CancelPending \/ GraceEnds \/ HostDies
  \/ Execute \/ RunEnds \/ Checkpoint \/ SettleEnd
  \/ \E p \in Coordinators :
       Accept(p) \/ Discover(p) \/ WatchTimeout(p) \/ AttemptFailed(p) \/ Coordinate(p)
  \/ \E g \in 1 .. row.run, c \in Calls :
       GuardTool(g, c) \/ GuardUnnamed(g, c) \/ CompleteTool(c, g)

(* While the answer is open some coordinator's awaits settle or the host   *)
(* triggers recovery again, and not every probe of a dead run fails; a run *)
(* the daemon accepted starts and ends.                                    *)
Fairness ==
  /\ WF_vars(\E p \in Coordinators : Coordinate(p) \/ Discover(p))
  /\ SF_vars(\E p \in Coordinators : ProbeDead(p))
  /\ WF_vars(Execute \/ RunEnds \/ GraceEnds)

Spec == Init /\ [][Next]_vars /\ Fairness

-----------------------------------------------------------------------------
DurableRunsTypeOK ==
  /\ row \in Row
  /\ exec \in Executors /\ watched \in BOOLEAN
  /\ coord \in [Coordinators -> Coordinator]
  /\ \A p \in Coordinators : coord[p].run <= row.run
  /\ tools \subseteq Calls \X (1 .. row.run)
  /\ effects \in [Calls -> Nat] /\ unnamed \in [Calls -> Nat]
  /\ inputs \in Nat

(* Coordinators that weigh the budget and advance later never spend it     *)
(* twice: an answer without progress is continued RECOVERY_LIMIT times.    *)
RecoveryBounded == row.recoveryCount <= RecoveryLimit

(* While the outcome of a saved call is unknown to the answer, no attempt  *)
(* is let through with the same call, with a tool-use id or without one    *)
(* (continuation.ts:6).  Nothing is promised of a call that came without   *)
(* an id: it is not saved.                                                 *)
UnknownCallsNotRepeated ==
  [][\A c \in Calls :
       effects[c] > 0 => effects'[c] <= effects[c] /\ unnamed'[c] = unnamed[c]]_vars

(* From the stop on no attempt takes the answer over and no tool call is   *)
(* let through, whatever was already under way.                            *)
StopFences ==
  [][row.cancel /\ IsActive =>
       /\ row'.run = row.run
       /\ \A c \in Calls : effects'[c] <= effects[c] /\ unnamed'[c] = unnamed[c]]_vars

(* An answer that makes no progress any more is not left open: whatever    *)
(* crashes, dies or overtakes, it is settled in the end.                   *)
AnswerEnds == IsActive ~> ~IsActive
=============================================================================
