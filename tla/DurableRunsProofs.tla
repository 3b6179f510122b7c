------------------------- MODULE DurableRunsProofs -------------------------
(***************************************************************************)
(* Theorems about a durable answer, for every set of coordinators and tool *)
(* calls and every recovery limit.                                         *)
(***************************************************************************)
EXTENDS DurableRuns, TLAPS

-----------------------------------------------------------------------------
(* Where a coordinator goes                                                *)

(* A coordinator's next state is a good one of a generation that exists.   *)
CoordOK(p, r) == coord'[p] \in Coordinator /\ coord'[p].run <= r

LEMMA GivenType ==
  ASSUME NEW step \in Steps, NEW g \in Nat, NEW failed \in BOOLEAN
  PROVE  /\ Given(step, g, failed) \in Coordinator
         /\ Given(step, g, failed).at = step /\ Given(step, g, failed).run = g
<1>1. "failed" \in Settled
  BY DEF Settled
<1>2. [at |-> step, run |-> g, failed |-> failed, final |-> "failed"]
        \in [at : Steps, run : Nat, failed : BOOLEAN, final : Settled]
  BY <1>1, Zenon
<1> QED
  BY <1>2, Zenon DEF Given, Coordinator

LEMMA IdleType == Idle \in Coordinator /\ Idle.at = "idle" /\ Idle.run = 0
<1>1. "idle" \in Steps /\ 0 \in Nat /\ FALSE \in BOOLEAN
  BY DEF Steps
<1> QED
  BY <1>1, GivenType, Zenon DEF Idle

LEMMA CoordMoves ==
  ASSUME DurableRunsTypeOK, NEW p \in Coordinators, NEW x \in Coordinator,
         coord' = [coord EXCEPT ![p] = x]
  PROVE  /\ coord' \in [Coordinators -> Coordinator]
         /\ coord'[p] = x
         /\ \A q \in Coordinators \ {p} : coord'[q] = coord[q]
BY DEF DurableRunsTypeOK

LEMMA ReturnMoves ==
  ASSUME DurableRunsTypeOK, NEW p \in Coordinators, Return(p)
  PROVE  coord' = [coord EXCEPT ![p] = Idle] /\ CoordOK(p, row.run)
BY IdleType DEF Return, CoordOK, DurableRunsTypeOK, Row

LEMMA GotoMoves ==
  ASSUME DurableRunsTypeOK, NEW p \in Coordinators, NEW step \in Steps, Goto(p, step)
  PROVE  /\ CoordOK(p, row.run)
         /\ coord' = [coord EXCEPT ![p].at = step]
         /\ coord'[p].at = step /\ coord'[p].run = coord[p].run
BY DEF Goto, CoordOK, DurableRunsTypeOK, Coordinator

LEMMA FinalizeMoves ==
  ASSUME DurableRunsTypeOK, NEW p \in Coordinators, NEW g \in 0 .. row.run,
         NEW status \in Settled, Finalize(p, g, status)
  PROVE  /\ CoordOK(p, row.run)
         /\ \A q \in Coordinators \ {p} : coord'[q] = coord[q]
         /\ coord'[p].at = "finalize"
         /\ coord' \in [Coordinators -> Coordinator]
BY DEF Finalize, CoordOK, DurableRunsTypeOK, Coordinator, Row, Steps

LEMMA ReloadMoves ==
  ASSUME DurableRunsTypeOK, NEW p \in Coordinators, NEW next \in {"idle", "resolve", "fence"},
         Reload(p, next)
  PROVE  /\ CoordOK(p, row.run)
         /\ \A q \in Coordinators \ {p} : coord'[q] = coord[q]
         /\ coord' \in [Coordinators -> Coordinator]
         /\ coord'[p].at = "fence" => next = "fence" /\ StillOurs(p) /\ coord'[p].run = row.run
         /\ coord'[p].at # "advance"
<1>1. row.run \in Nat /\ coord[p] \in Coordinator /\ coord[p].run <= row.run
      /\ coord \in [Coordinators -> Coordinator]
  BY DEF DurableRunsTypeOK, Row
<1>2. CASE ~IsActive \/ row.run # coord[p].run
  <2>1. Return(p)
    BY <1>2, Zenon DEF Reload
  <2>2. coord' = [coord EXCEPT ![p] = Idle]
    BY <2>1 DEF Return
  <2> QED
    BY <1>1, <2>2, IdleType DEF CoordOK
<1>3. CASE IsActive /\ row.run = coord[p].run /\ row.cancel
  <2>1. Finalize(p, row.run, "canceled")
    BY <1>3, Zenon DEF Reload
  <2> QED
    BY <1>1, <2>1, FinalizeMoves DEF Settled
<1>4. CASE IsActive /\ row.run = coord[p].run /\ ~row.cancel
  <2>1. GoesOn(p, next) /\ StillOurs(p)
    BY <1>4, Zenon DEF Reload, StillOurs
  <2>2. CASE next = "resolve"
    <3>1. Goto(p, "resolve")
      BY <2>1, <2>2, Zenon DEF GoesOn
    <3>2. /\ CoordOK(p, row.run) /\ coord'[p].at = "resolve"
          /\ coord' = [coord EXCEPT ![p].at = "resolve"]
      BY <3>1, GotoMoves DEF Steps
    <3> QED
      BY <1>1, <3>2 DEF CoordOK
  <2>3. CASE next = "idle"
    <3>1. coord' = [coord EXCEPT ![p] = Idle]
      BY <2>1, <2>3 DEF GoesOn
    <3> QED
      BY <1>1, <3>1, IdleType, CoordMoves DEF CoordOK
  <2>4. CASE next = "fence"
    <3>1. coord' = [coord EXCEPT ![p] = Given("fence", row.run, FALSE)]
      BY <2>1, <2>4 DEF GoesOn
    <3>2. "fence" \in Steps /\ FALSE \in BOOLEAN
      BY DEF Steps
    <3>3. /\ Given("fence", row.run, FALSE) \in Coordinator
          /\ Given("fence", row.run, FALSE).at = "fence"
          /\ Given("fence", row.run, FALSE).run = row.run
      BY <1>1, <3>2, GivenType, Zenon
    <3> QED
      <4> DEFINE x == Given("fence", row.run, FALSE)
      <4> HIDE DEF x
      <4>1. /\ coord' \in [Coordinators -> Coordinator] /\ coord'[p] = x
            /\ \A q \in Coordinators \ {p} : coord'[q] = coord[q]
        BY <3>1, <3>3, CoordMoves DEF x
      <4>2. x \in Coordinator /\ x.at = "fence" /\ x.run = row.run
        BY <3>3 DEF x
      <4>3. coord'[p].at # "advance" /\ CoordOK(p, row.run) /\ coord'[p].run = row.run
        BY <1>1, <4>1, <4>2 DEF CoordOK
      <4> QED
        BY <2>1, <2>4, <4>1, <4>3
  <2> QED
    BY <2>2, <2>3, <2>4
<1> QED
  BY <1>2, <1>3, <1>4 DEF IsActive
-----------------------------------------------------------------------------
(* The inductive invariant                                                 *)

(* A coordinator about to continue the generation it inspected leaves room *)
(* for one more.                                                           *)
BudgetHeld ==
  \A p \in Coordinators :
    coord[p].at \in {"fence", "advance"} /\ coord[p].run = row.run
      => row.recoveryCount < RecoveryLimit

(* The row holds exactly the calls with an effect nobody knows the outcome *)
(* of, each once, and every call under way is one of them.                 *)
EffectsSaved ==
  /\ tools \subseteq row.open
  /\ \A u, v \in row.open : u[1] = v[1] => u = v
  /\ \A c \in Calls : effects[c] = IF Unknown(c) THEN 1 ELSE 0

NewIsBlank == row.status = "absent" => row = NoRow

DurableInv == DurableRunsTypeOK /\ BudgetHeld /\ RecoveryBounded /\ EffectsSaved /\ NewIsBlank

(* A step of one coordinator that leaves the row alone.                    *)
CoordGood(p) ==
  /\ coord' \in [Coordinators -> Coordinator] /\ CoordOK(p, row.run)
  /\ \A q \in Coordinators \ {p} : coord'[q] = coord[q]
  /\ coord'[p].at \in {"fence", "advance"} /\ coord'[p].run = row.run
       => row.recoveryCount < RecoveryLimit

Frame ==
  /\ exec' \in Executors /\ watched' \in BOOLEAN
  /\ row' = row /\ tools' = tools /\ effects' = effects
  /\ unnamed' \in [Calls -> Nat] /\ inputs' \in Nat

LEMMA CoordStepKeeps ==
  ASSUME DurableInv, NEW p \in Coordinators, CoordGood(p), Frame
  PROVE  DurableInv'
<1>1. DurableRunsTypeOK'
  BY DEF DurableInv, DurableRunsTypeOK, CoordGood, Frame, CoordOK
<1>2. BudgetHeld'
  BY DEF DurableInv, BudgetHeld, CoordGood, Frame
<1>3. RecoveryBounded'
  BY DEF DurableInv, RecoveryBounded, Frame
<1>4. EffectsSaved'
  BY DEF DurableInv, EffectsSaved, Frame, Unknown
<1>5. NewIsBlank'
  BY DEF DurableInv, NewIsBlank, Frame, NoRow
<1> QED
  BY <1>1, <1>2, <1>3, <1>4, <1>5 DEF DurableInv

(* A step that changes the row but neither its generation nor its saved    *)
(* calls, and spends no recovery.                                          *)
RowStep ==
  /\ row' \in Row /\ row'.run = row.run /\ row'.open = row.open
  /\ row' = row \/ row'.status # "absent"
  /\ row'.recoveryCount \in {0, row.recoveryCount}
  /\ exec' \in Executors /\ watched' \in BOOLEAN /\ inputs' \in Nat
  /\ coord' = coord /\ tools' = tools /\ effects' = effects /\ unnamed' \in [Calls -> Nat]

LEMMA RowStepKeeps ==
  ASSUME DurableInv, RowStep
  PROVE  DurableInv'
<1>1. DurableRunsTypeOK'
  BY DEF DurableInv, DurableRunsTypeOK, RowStep
<1>2. BudgetHeld' /\ RecoveryBounded'
  BY DurableRunsAssumption
     DEF DurableInv, BudgetHeld, RecoveryBounded, RowStep, DurableRunsTypeOK, Row
<1>3. EffectsSaved'
  BY DEF DurableInv, EffectsSaved, RowStep, Unknown
<1>4. NewIsBlank'
  BY DEF DurableInv, NewIsBlank, RowStep, NoRow
<1> QED
  BY <1>1, <1>2, <1>3, <1>4 DEF DurableInv
-----------------------------------------------------------------------------
(* The steps                                                               *)

LEMMA FinalizeGood ==
  ASSUME DurableInv, NEW p \in Coordinators, NEW g \in 0 .. row.run, NEW status \in Settled,
         Finalize(p, g, status)
  PROVE  CoordGood(p)
BY FinalizeMoves DEF CoordGood, DurableInv

LEMMA ReturnGood ==
  ASSUME DurableInv, NEW p \in Coordinators, Return(p)
  PROVE  CoordGood(p)
<1>1. coord' = [coord EXCEPT ![p] = Idle] /\ CoordOK(p, row.run)
  BY ReturnMoves DEF DurableInv
<1> QED
  BY <1>1, IdleType, CoordMoves DEF CoordGood, DurableInv

LEMMA GotoGood ==
  ASSUME DurableInv, NEW p \in Coordinators, NEW step \in Steps, Goto(p, step),
         step \in {"fence", "advance"} => At(p, "fence")
  PROVE  CoordGood(p)
<1>1. /\ CoordOK(p, row.run)
      /\ coord' = [coord EXCEPT ![p].at = step]
      /\ coord'[p].at = step /\ coord'[p].run = coord[p].run
  BY GotoMoves DEF DurableInv
<1>2. coord \in [Coordinators -> Coordinator]
  BY DEF DurableInv, DurableRunsTypeOK
<1>3. coord' \in [Coordinators -> Coordinator]
  BY <1>1, <1>2 DEF CoordOK
<1>4. ASSUME step \in {"fence", "advance"}, coord[p].run = row.run
      PROVE  row.recoveryCount < RecoveryLimit
  BY <1>4 DEF DurableInv, BudgetHeld, At
<1>5. \A q \in Coordinators \ {p} : coord'[q] = coord[q]
  BY <1>1, <1>2
<1> QED
  BY <1>1, <1>3, <1>4, <1>5 DEF CoordGood

LEMMA GivenGood ==
  ASSUME DurableInv, NEW p \in Coordinators, NEW step \in Steps \ {"fence", "advance"},
         NEW g \in 0 .. row.run, NEW failed \in BOOLEAN,
         coord' = [coord EXCEPT ![p] = Given(step, g, failed)]
  PROVE  CoordGood(p)
<1> DEFINE x == Given(step, g, failed)
<1>1. x \in Coordinator /\ x.at = step /\ x.run = g
  <2>1. g \in Nat /\ step \in Steps
    BY DEF DurableInv, DurableRunsTypeOK, Row
  <2> QED
    BY <2>1, GivenType, Zenon
<1> HIDE DEF x
<1>2. /\ coord' \in [Coordinators -> Coordinator]
      /\ coord'[p] = x
      /\ \A q \in Coordinators \ {p} : coord'[q] = coord[q]
  BY <1>1, CoordMoves DEF DurableInv, x
<1>3. coord'[p].at \notin {"fence", "advance"} /\ coord'[p].run = g /\ coord'[p] \in Coordinator
  BY <1>1, <1>2
<1>4. CoordOK(p, row.run)
  BY <1>3 DEF CoordOK, DurableInv, DurableRunsTypeOK, Row
<1> QED
  BY <1>2, <1>3, <1>4 DEF CoordGood

LEMMA ReloadGood ==
  ASSUME DurableInv, NEW p \in Coordinators, NEW next \in {"idle", "resolve", "fence"},
         Reload(p, next), next = "fence" /\ StillOurs(p) => ~Exhausted
  PROVE  CoordGood(p)
<1>1. row.recoveryCount \in Nat /\ RecoveryLimit \in Nat
  BY DurableRunsAssumption DEF DurableInv, DurableRunsTypeOK, Row
<1>2. /\ CoordOK(p, row.run)
      /\ \A q \in Coordinators \ {p} : coord'[q] = coord[q]
      /\ coord' \in [Coordinators -> Coordinator]
      /\ coord'[p].at = "fence" => next = "fence" /\ StillOurs(p) /\ coord'[p].run = row.run
      /\ coord'[p].at # "advance"
  BY ReloadMoves DEF DurableInv
<1>3. coord'[p].at = "fence" => row.recoveryCount < RecoveryLimit
  <2> SUFFICES ASSUME coord'[p].at = "fence" PROVE row.recoveryCount < RecoveryLimit
    OBVIOUS
  <2>1. ~Exhausted
    BY <1>2
  <2> QED
    BY <1>1, <2>1 DEF Exhausted
<1> QED
  BY <1>2, <1>3, Zenon DEF CoordGood

LEMMA RecoverGood ==
  ASSUME DurableInv, NEW p \in Coordinators, NEW failed \in BOOLEAN,
         Recover(p, row.run, failed)
  PROVE  CoordGood(p)
<1>1. row.run \in 0 .. row.run
  BY DEF DurableInv, DurableRunsTypeOK, Row
<1>2. CASE row.cancel
  BY <1>1, <1>2, FinalizeGood DEF Recover, Settled
<1>3. CASE ~row.cancel
  <2>1. "probe" \in Steps \ {"fence", "advance"}
    BY DEF Steps
  <2>2. coord' = [coord EXCEPT ![p] = Given("probe", row.run, failed)]
    BY <1>3 DEF Recover
  <2> QED
    BY <1>1, <2>1, <2>2, GivenGood
<1> QED
  BY <1>2, <1>3

(* A trigger, or a coordinator's step other than its two writes.           *)
LEMMA CoordinatorKeeps ==
  ASSUME DurableInv, NEW p \in Coordinators,
         \/ Discover(p) \/ WatchTimeout(p) \/ AttemptFailed(p)
         \/ ProbeDead(p) \/ ProbeLive(p) \/ Diagnose(p) \/ Resolve(p) \/ Fence(p)
         \/ CheckNext(p) \/ Launch(p)
  PROVE  DurableInv'
<1>1. /\ row.run \in Nat /\ exec \in Executors /\ watched \in BOOLEAN /\ inputs \in Nat
      /\ unnamed \in [Calls -> Nat]
      /\ coord[p].run \in 0 .. row.run
  BY DEF DurableInv, DurableRunsTypeOK, Row, Coordinator
<1>2. CASE Discover(p) \/ WatchTimeout(p) \/ AttemptFailed(p)
  <2>1. CoordGood(p)
    BY <1>2, RecoverGood DEF Discover, WatchTimeout, AttemptFailed
  <2>2. Frame
    BY <1>1, <1>2 DEF Discover, WatchTimeout, AttemptFailed, Recover, Frame
  <2> QED
    BY <2>1, <2>2, CoordStepKeeps
<1>3. CASE ProbeDead(p)
  <2>1. CoordGood(p)
    BY <1>3, ReloadGood DEF ProbeDead
  <2> QED
    BY <1>1, <1>3, <2>1, CoordStepKeeps DEF ProbeDead, Frame
<1>4. CASE ProbeLive(p)
  <2>1. CoordGood(p)
    BY <1>4, ReloadGood DEF ProbeLive
  <2>2. Frame
    BY <1>1, <1>4 DEF ProbeLive, Frame
  <2> QED
    BY <2>1, <2>2, CoordStepKeeps
<1>5. CASE Diagnose(p)
  <2>1. CoordGood(p)
    BY <1>1, <1>5, FinalizeGood DEF Diagnose, Settled
  <2> QED
    BY <1>1, <1>5, <2>1, CoordStepKeeps DEF Diagnose, Frame
<1>6. CASE Resolve(p)
  <2>1. CoordGood(p)
    <3>1. CASE Finalize(p, coord[p].run, "failed")
      BY <1>1, <3>1, FinalizeGood DEF Settled
    <3>2. CASE /\ StillOurs(p) => ~Exhausted
               /\ Reload(p, IF Waits(p) THEN "idle" ELSE "fence")
      BY <3>2, ReloadGood
    <3> QED
      BY <1>6, <3>1, <3>2 DEF Resolve
  <2>2. Frame
    BY <1>1, <1>6 DEF Resolve, Frame
  <2> QED
    BY <2>1, <2>2, CoordStepKeeps
<1>7. CASE Fence(p)
  <2>1. CoordGood(p)
    <3>1. CASE At(p, "fence")
      BY <1>7, <3>1, GotoGood DEF Fence, CancelAttempt, Steps
    <3>2. CASE ~At(p, "fence")
      BY <1>7, <3>2, GotoGood DEF Fence, CancelAttempt, Steps
    <3> QED
      BY <3>1, <3>2
  <2>2. Frame
    BY <1>1, <1>7 DEF Fence, CancelAttempt, Frame, Executors
  <2> QED
    BY <2>1, <2>2, CoordStepKeeps
<1>8. CASE CheckNext(p)
  <2>1. CoordGood(p)
    <3>1. CASE row.run # coord[p].run
      BY <1>8, <3>1, ReturnGood DEF CheckNext
    <3>2. CASE row.run = coord[p].run /\ row.cancel
      BY <1>1, <1>8, <3>2, FinalizeGood DEF CheckNext, Settled
    <3>3. CASE row.run = coord[p].run /\ ~row.cancel
      BY <1>8, <3>3, GotoGood DEF CheckNext, Steps
    <3> QED
      BY <3>1, <3>2, <3>3
  <2> QED
    BY <1>1, <1>8, <2>1, CoordStepKeeps DEF CheckNext, Frame
<1>9. CASE Launch(p)
  <2>1. CoordGood(p)
    BY <1>9, ReturnGood DEF Launch
  <2>2. Frame
    BY <1>1, <1>9 DEF Launch, Frame, Executors
  <2> QED
    BY <2>1, <2>2, CoordStepKeeps
<1> QED
  BY <1>2, <1>3, <1>4, <1>5, <1>6, <1>7, <1>8, <1>9
(* The first request, and every repeated one.                              *)
LEMMA AcceptKeeps ==
  ASSUME DurableInv, NEW p \in Coordinators, Accept(p)
  PROVE  DurableInv'
<1>1. /\ row \in Row /\ row.run \in Nat /\ inputs' \in Nat
      /\ exec \in Executors /\ watched \in BOOLEAN /\ unnamed \in [Calls -> Nat]
      /\ coord \in [Coordinators -> Coordinator]
      /\ \A q \in Coordinators : coord[q].run \in 0 .. row.run
  BY DEF DurableInv, DurableRunsTypeOK, Row, Accept, Coordinator
<1>2. "launch" \in Steps \ {"fence", "advance"} /\ FALSE \in BOOLEAN
  BY DEF Steps
<1>3. CASE row.status = "absent"
  <2> DEFINE x == Given("launch", 1, FALSE)
  <2>1. x \in Coordinator /\ x.at = "launch" /\ x.run = 1
    BY <1>2, GivenType, Zenon
  <2>2. coord' = [coord EXCEPT ![p] = x] /\ row' = [NoRow EXCEPT !.status = "queued",
                                                                !.run = 1, !.young = TRUE]
    BY <1>3 DEF Accept
  <2> HIDE DEF x
  <2>3. row = NoRow
    BY <1>3 DEF DurableInv, NewIsBlank
  <2>4. /\ row' \in Row /\ row'.run = 1 /\ row'.recoveryCount = 0 /\ row'.open = {}
        /\ row'.status = "queued" /\ row.run = 0
    BY <2>2, <2>3 DEF NoRow, Row, Active
  <2>5. tools' = {} /\ effects' = [c \in Calls |-> 0] /\ tools = {}
    <3>1. tools = {} /\ \A c \in Calls : ~Unknown(c)
      BY <2>3 DEF DurableInv, EffectsSaved, NoRow, Unknown
    <3>2. effects = [c \in Calls |-> 0]
      BY <3>1 DEF DurableInv, EffectsSaved, DurableRunsTypeOK
    <3> QED
      BY <3>1, <3>2 DEF Accept
  <2>6. /\ coord' \in [Coordinators -> Coordinator]
        /\ \A q \in Coordinators : coord'[q].run <= 1
    BY <1>1, <2>1, <2>2, <2>4
  <2>7. DurableRunsTypeOK'
    BY <1>1, <1>3, <2>4, <2>5, <2>6 DEF Accept, DurableRunsTypeOK
  <2>8. BudgetHeld' /\ RecoveryBounded'
    BY <2>4, DurableRunsAssumption DEF BudgetHeld, RecoveryBounded
  <2>9. EffectsSaved' /\ NewIsBlank'
    BY <2>4, <2>5 DEF EffectsSaved, NewIsBlank, Unknown
  <2> QED
    BY <2>7, <2>8, <2>9 DEF DurableInv
<1>4. CASE row.status = "queued" /\ row.recoveryCount = 0 /\ ~row.cancel
  <2>1. CoordGood(p)
    <3>1. coord' = [coord EXCEPT ![p] = Given("launch", row.run, FALSE)]
      BY <1>4 DEF Accept
    <3>2. row.run \in 0 .. row.run
      BY <1>1
    <3> QED
      BY <1>2, <3>1, <3>2, GivenGood
  <2> QED
    BY <1>1, <1>4, <2>1, CoordStepKeeps DEF Accept, Frame
<1>5. CASE /\ row.status # "absent"
           /\ ~(row.status = "queued" /\ row.recoveryCount = 0 /\ ~row.cancel)
  <2>1. RowStep
    BY <1>1, <1>5 DEF Accept, RowStep
  <2> QED
    BY <2>1, RowStepKeeps
<1> QED
  BY <1>3, <1>4, <1>5
(* The steps that write the row and keep its generation and saved calls.   *)
LEMMA SettleStep ==
  ASSUME DurableInv, NEW g, NEW status \in Settled, Settle(g, status)
  PROVE  /\ row' \in Row /\ row'.run = row.run /\ row'.open = row.open
         /\ row' = row \/ row'.status # "absent"
         /\ row'.recoveryCount = row.recoveryCount
BY DEF Settle, DurableInv, DurableRunsTypeOK, Row, Settled

LEMMA RowKeeps ==
  ASSUME DurableInv,
         Execute \/ RunEnds \/ Checkpoint \/ SettleEnd \/ GraceEnds \/ HostDies
  PROVE  DurableInv'
<1>1. /\ row \in Row /\ exec \in Executors /\ watched \in BOOLEAN /\ inputs \in Nat
      /\ unnamed \in [Calls -> Nat]
  BY DEF DurableInv, DurableRunsTypeOK
<1>2. CASE Execute \/ RunEnds \/ HostDies
  <2>1. RowStep
    BY <1>1, <1>2 DEF Execute, RunEnds, HostDies, RowStep, Executors
  <2> QED
    BY <2>1, RowStepKeeps
<1>3. CASE Checkpoint
  <2>1. RowStep
    <3> DEFINE r1 == [row EXCEPT !.status = "running"]
               r2 == [r1 EXCEPT !.recoveryCount = 0]
    <3>1. r1 \in Row /\ r1.run = row.run /\ r1.open = row.open /\ r1.status = "running"
          /\ r1.recoveryCount = row.recoveryCount
      BY <1>1 DEF Row, Active
    <3>2. r2 \in Row /\ r2.run = row.run /\ r2.open = row.open /\ r2.status = "running"
          /\ r2.recoveryCount = 0
      BY <1>1 DEF Row, Active
    <3>3. row' = r1 \/ row' = r2
      BY <1>3 DEF Checkpoint, FreshBudget
    <3>4. inputs' \in Nat
      BY <1>1, <1>3 DEF Checkpoint, Refresh
    <3>5. UNCHANGED << exec, watched, coord, tools, effects, unnamed >>
      BY <1>3 DEF Checkpoint
    <3> HIDE DEF r1, r2
    <3> QED
      BY <1>1, <3>1, <3>2, <3>3, <3>4, <3>5 DEF RowStep
  <2> QED
    BY <2>1, RowStepKeeps
<1>4. CASE SettleEnd
  <2>1. RowStep
    BY <1>1, <1>4, SettleStep DEF SettleEnd, RowStep, Settled
  <2> QED
    BY <2>1, RowStepKeeps
<1>5. CASE GraceEnds
  <2>1. RowStep
    BY <1>1, <1>5 DEF GraceEnds, RowStep, IsActive, Row, Active
  <2> QED
    BY <2>1, RowStepKeeps
<1> QED
  BY <1>2, <1>3, <1>4, <1>5

(* A settling coordinator's write and its return.                          *)
LEMMA SettleFinalKeeps ==
  ASSUME DurableInv, NEW p \in Coordinators, SettleFinal(p)
  PROVE  DurableInv'
<1>1. coord[p].final \in Settled
  BY DEF DurableInv, DurableRunsTypeOK, Coordinator
<1>2. /\ row' \in Row /\ row'.run = row.run /\ row'.open = row.open
      /\ row' = row \/ row'.status # "absent"
      /\ row'.recoveryCount = row.recoveryCount
  BY <1>1, SettleStep DEF SettleFinal
<1>3. CoordGood(p)
  BY ReturnGood DEF SettleFinal
<1>4. UNCHANGED << exec, watched, tools, effects, unnamed, inputs >>
  BY DEF SettleFinal
<1>5. DurableRunsTypeOK'
  BY <1>2, <1>3, <1>4 DEF DurableInv, DurableRunsTypeOK, CoordGood, CoordOK
<1>6. BudgetHeld' /\ RecoveryBounded'
  BY <1>2, <1>3 DEF DurableInv, BudgetHeld, RecoveryBounded, CoordGood
<1>7. EffectsSaved' /\ NewIsBlank'
  BY <1>2, <1>4 DEF DurableInv, EffectsSaved, NewIsBlank, Unknown
<1> QED
  BY <1>5, <1>6, <1>7 DEF DurableInv

LEMMA CancelPendingKeeps ==
  ASSUME DurableInv, CancelPending
  PROVE  DurableInv'
<1>1. /\ row \in Row /\ exec \in Executors /\ watched \in BOOLEAN /\ inputs \in Nat
      /\ unnamed \in [Calls -> Nat]
      /\ \A q \in Coordinators : coord[q].run <= row.run /\ coord[q] \in Coordinator
  BY DEF DurableInv, DurableRunsTypeOK
<1>2. CASE row.status = "absent"
  <2>1. row = NoRow /\ row' = [NoRow EXCEPT !.status = "canceled", !.run = 1]
    BY <1>2 DEF DurableInv, NewIsBlank, CancelPending
  <2>2. /\ row' \in Row /\ row'.run = 1 /\ row'.recoveryCount = 0 /\ row'.open = row.open
        /\ row'.status = "canceled" /\ row.run = 0 /\ row.open = {}
    BY <2>1 DEF NoRow, Row, Settled
  <2>3. UNCHANGED << exec, watched, coord, tools, effects, unnamed, inputs >>
    BY DEF CancelPending
  <2>4. tools = {}
    BY <2>2 DEF DurableInv, EffectsSaved
  <2>5. DurableRunsTypeOK'
    BY <1>1, <2>2, <2>3, <2>4 DEF DurableInv, DurableRunsTypeOK, Coordinator
  <2>6. BudgetHeld' /\ RecoveryBounded'
    BY <2>2, DurableRunsAssumption DEF BudgetHeld, RecoveryBounded
  <2>7. EffectsSaved' /\ NewIsBlank'
    BY <2>2, <2>3 DEF DurableInv, EffectsSaved, NewIsBlank, Unknown
  <2> QED
    BY <2>5, <2>6, <2>7 DEF DurableInv
<1>3. CASE row.status # "absent"
  <2>1. RowStep
    BY <1>1, <1>3 DEF CancelPending, RowStep, Row
  <2> QED
    BY <2>1, RowStepKeeps
<1> QED
  BY <1>2, <1>3
(* The compare-and-set gives the answer to the next generation.            *)
LEMMA AdvanceKeeps ==
  ASSUME DurableInv, NEW p \in Coordinators, Advance(p)
  PROVE  DurableInv'
<1>1. /\ row \in Row /\ row.run \in Nat /\ row.recoveryCount \in Nat /\ inputs \in Nat
      /\ exec \in Executors /\ watched \in BOOLEAN /\ unnamed \in [Calls -> Nat]
      /\ coord \in [Coordinators -> Coordinator]
      /\ \A q \in Coordinators : coord[q].run <= row.run
  BY DEF DurableInv, DurableRunsTypeOK, Row
<1>2. CASE CanAdvance(coord[p].run)
  <2>1. /\ row' = Advanced /\ exec' = "none" /\ watched' = FALSE
        /\ coord' = [coord EXCEPT ![p].at = "check", ![p].run = row.run + 1]
        /\ UNCHANGED << tools, effects, unnamed, inputs >>
    BY <1>2 DEF Advance
  <2>2. row.status \in Active /\ coord[p].run = row.run /\ coord[p].at = "advance"
    BY <1>2 DEF Advance, At, CanAdvance, CanExecute, IsActive
  <2>3. /\ row' \in Row /\ row'.run = row.run + 1 /\ row'.open = row.open
        /\ row'.recoveryCount = row.recoveryCount + 1 /\ row'.status = "queued"
    <3> DEFINE r1 == [row EXCEPT !.run = row.run + 1]
               r2 == [r1 EXCEPT !.status = "queued"]
               r3 == [r2 EXCEPT !.recoveryCount = row.recoveryCount + 1]
    <3>1. row' = [r3 EXCEPT !.young = TRUE]
      <4>1. Advanced = [r3 EXCEPT !.young = TRUE]
        BY <1>1, Zenon DEF Advanced, Row
      <4> QED
        BY <2>1, <4>1
    <3>2. /\ r1 \in Row /\ r1.run = row.run + 1 /\ r1.open = row.open
          /\ r1.recoveryCount = row.recoveryCount
      BY <1>1 DEF Row
    <3> HIDE DEF r1
    <3>3. /\ r2 \in Row /\ r2.run = row.run + 1 /\ r2.open = row.open /\ r2.status = "queued"
      BY <3>2 DEF Row, Active
    <3> HIDE DEF r2
    <3>4. /\ r3 \in Row /\ r3.run = row.run + 1 /\ r3.open = row.open /\ r3.status = "queued"
          /\ r3.recoveryCount = row.recoveryCount + 1
      BY <1>1, <3>3 DEF Row
    <3> HIDE DEF r3
    <3> QED
      BY <3>1, <3>4 DEF Row
  <2>4. /\ coord' \in [Coordinators -> Coordinator]
        /\ coord'[p].at = "check" /\ coord'[p].run = row.run + 1
        /\ \A q \in Coordinators \ {p} : coord'[q] = coord[q]
    BY <1>1, <2>1 DEF Coordinator, Steps
  <2>5. row.recoveryCount < RecoveryLimit
    BY <2>2 DEF DurableInv, BudgetHeld
  <2>6. DurableRunsTypeOK'
    <3>1. \A q \in Coordinators : coord'[q].run <= row'.run
      BY <1>1, <2>3, <2>4 DEF Coordinator
    <3>2. tools' \subseteq Calls \X (1 .. row'.run)
      BY <1>1, <2>1, <2>3 DEF DurableInv, DurableRunsTypeOK
    <3> QED
      BY <1>1, <2>1, <2>3, <2>4, <3>1, <3>2 DEF DurableInv, DurableRunsTypeOK, Executors
  <2>7. BudgetHeld'
    <3>1. \A q \in Coordinators \ {p} : coord'[q].run # row'.run
      BY <1>1, <2>3, <2>4 DEF Coordinator
    <3> QED
      BY <2>4, <3>1 DEF BudgetHeld
  <2>8. RecoveryBounded'
    BY <1>1, <2>3, <2>5, DurableRunsAssumption DEF RecoveryBounded
  <2>9. EffectsSaved' /\ NewIsBlank'
    BY <2>1, <2>3 DEF DurableInv, EffectsSaved, NewIsBlank, Unknown
  <2> QED
    BY <2>6, <2>7, <2>8, <2>9 DEF DurableInv
<1>3. CASE ~CanAdvance(coord[p].run)
  <2>1. CoordGood(p)
    BY <1>3, ReturnGood DEF Advance
  <2> QED
    BY <1>1, <1>3, <2>1, CoordStepKeeps DEF Advance, Frame
<1> QED
  BY <1>2, <1>3

(* A call is let through: its use is saved in the same transaction.        *)
LEMMA GuardToolKeeps ==
  ASSUME DurableInv, NEW c \in Calls, NEW g \in 1 .. row.run, GuardTool(g, c)
  PROVE  DurableInv'
<1> DEFINE use == << c, g >>
<1>1. /\ row \in Row /\ row.run \in Nat /\ row.open \subseteq Calls \X Nat /\ inputs' \in Nat
      /\ row.status \in Active /\ tools' = tools \cup {use}
      /\ UNCHANGED << exec, watched, coord, unnamed >>
  BY DEF DurableInv, DurableRunsTypeOK, Row, GuardTool, Allowed, Refresh, CanExecute, IsActive
<1>2. row' = [[row EXCEPT !.open = row.open \cup {use}] EXCEPT !.recoveryCount = 0]
  BY DEF GuardTool, FreshBudget
<1>3. use \in Calls \X Nat /\ use[1] = c
  BY <1>1
<1>4. /\ row' \in Row /\ row'.run = row.run /\ row'.recoveryCount = 0
      /\ row'.open = row.open \cup {use} /\ row'.status = row.status
  BY <1>1, <1>2, <1>3 DEF Row
<1>5. \A u \in row.open : u[1] # c
  BY DEF GuardTool, Allowed, Unknown
<1>6. effects \in [Calls -> Nat] /\ effects' = [effects EXCEPT ![c] = 1]
  <2>1. effects[c] = 0
    BY <1>5 DEF DurableInv, EffectsSaved, Unknown
  <2> QED
    BY <2>1 DEF DurableInv, DurableRunsTypeOK, GuardTool
<1>7. DurableRunsTypeOK'
  <2>1. tools' \subseteq Calls \X (1 .. row'.run)
    BY <1>1, <1>4 DEF DurableInv, DurableRunsTypeOK
  <2> QED
    BY <1>1, <1>4, <1>6, <2>1 DEF DurableInv, DurableRunsTypeOK
<1>8. BudgetHeld' /\ RecoveryBounded'
  BY <1>4, DurableRunsAssumption DEF BudgetHeld, RecoveryBounded
<1>9. EffectsSaved'
  <2> HIDE DEF use
  <2>1. tools' \subseteq row'.open
    BY <1>1, <1>4 DEF DurableInv, EffectsSaved
  <2>2. \A u, v \in row'.open : u[1] = v[1] => u = v
    BY <1>3, <1>4, <1>5 DEF DurableInv, EffectsSaved
  <2>3. \A d \in Calls : Unknown(d)' <=> Unknown(d) \/ d = c
    BY <1>3, <1>4 DEF Unknown
  <2>4. \A d \in Calls : effects'[d] = IF Unknown(d)' THEN 1 ELSE 0
    BY <1>6, <2>3 DEF DurableInv, EffectsSaved
  <2> QED
    BY <2>1, <2>2, <2>4 DEF EffectsSaved
<1>10. NewIsBlank'
  BY <1>1, <1>4 DEF NewIsBlank, Active
<1> QED
  BY <1>7, <1>8, <1>9, <1>10 DEF DurableInv

(* A call without an id is only counted.                                   *)
LEMMA GuardUnnamedKeeps ==
  ASSUME DurableInv, NEW c \in Calls, NEW g \in 1 .. row.run, GuardUnnamed(g, c)
  PROVE  DurableInv'
<1>1. /\ row \in Row /\ exec \in Executors /\ watched \in BOOLEAN /\ inputs \in Nat
      /\ unnamed \in [Calls -> Nat]
  BY DEF DurableInv, DurableRunsTypeOK
<1>2. /\ UNCHANGED << row, exec, watched, coord, tools, effects, inputs >>
      /\ unnamed' = [unnamed EXCEPT ![c] = unnamed[c] + 1]
  BY DEF GuardUnnamed
<1>3. RowStep
  BY <1>1, <1>2 DEF RowStep, Row
<1> QED
  BY <1>3, RowStepKeeps

(* The result is saved where the attempt still owns the answer.            *)
LEMMA CompleteToolKeeps ==
  ASSUME DurableInv, NEW c \in Calls, NEW g \in 1 .. row.run, CompleteTool(c, g)
  PROVE  DurableInv'
<1> DEFINE use == << c, g >>
<1>1. /\ row \in Row /\ row.open \subseteq Calls \X Nat /\ tools' = tools \ {use}
      /\ use \in tools /\ use \in row.open /\ use[1] = c
      /\ exec \in Executors /\ watched \in BOOLEAN /\ inputs \in Nat
      /\ UNCHANGED << exec, watched, coord, unnamed, inputs >>
  BY DEF DurableInv, DurableRunsTypeOK, EffectsSaved, Row, CompleteTool
<1>2. /\ row' \in Row /\ row'.run = row.run /\ row'.status = row.status
      /\ row'.recoveryCount \in {0, row.recoveryCount}
  <2> DEFINE r1 == [row EXCEPT !.open = row.open \ {use}]
             r2 == [r1 EXCEPT !.recoveryCount = 0]
             r3 == [row EXCEPT !.recoveryCount = 0]
  <2>1. row' \in {r2, r3, row}
    BY DEF CompleteTool, FreshBudget
  <2>2. r1 \in Row /\ r1.run = row.run /\ r1.status = row.status
    BY <1>1 DEF Row
  <2>3. /\ r2 \in Row /\ r2.run = row.run /\ r2.status = row.status /\ r2.recoveryCount = 0
    BY <2>2 DEF Row
  <2>4. /\ r3 \in Row /\ r3.run = row.run /\ r3.status = row.status /\ r3.recoveryCount = 0
    BY <1>1 DEF Row
  <2> HIDE DEF r2, r3
  <2> QED
    BY <1>1, <2>1, <2>3, <2>4
<1>3. row.status # "absent"
  BY <1>1 DEF DurableInv, NewIsBlank, NoRow
<1>4. BudgetHeld' /\ RecoveryBounded' /\ NewIsBlank'
  BY <1>1, <1>2, <1>3, DurableRunsAssumption
     DEF DurableInv, BudgetHeld, RecoveryBounded, NewIsBlank, DurableRunsTypeOK, Row
<1>5. CASE row.run = g /\ IsActive
  <2>1. /\ row' = [[row EXCEPT !.open = row.open \ {use}] EXCEPT !.recoveryCount = 0]
        /\ effects' = [effects EXCEPT ![c] = effects[c] - 1]
    BY <1>5 DEF CompleteTool, FreshBudget
  <2>2. row'.open = row.open \ {use}
    BY <1>1, <2>1 DEF Row
  <2>3. Unknown(c) /\ effects[c] = 1
    BY <1>1 DEF DurableInv, EffectsSaved, Unknown
  <2>4. effects \in [Calls -> Nat] /\ effects' = [effects EXCEPT ![c] = 0]
    BY <2>1, <2>3 DEF DurableInv, DurableRunsTypeOK
  <2> HIDE DEF use
  <2>5. DurableRunsTypeOK'
    BY <1>1, <1>2, <2>4 DEF DurableInv, DurableRunsTypeOK
  <2>6. \A d \in Calls : Unknown(d)' <=> Unknown(d) /\ d # c
    BY <1>1, <2>2 DEF DurableInv, EffectsSaved, Unknown
  <2>7. EffectsSaved'
    <3>1. tools' \subseteq row'.open
      BY <1>1, <2>2 DEF DurableInv, EffectsSaved
    <3>2. \A u, v \in row'.open : u[1] = v[1] => u = v
      BY <2>2 DEF DurableInv, EffectsSaved
    <3>3. \A d \in Calls : effects'[d] = IF Unknown(d)' THEN 1 ELSE 0
      BY <2>4, <2>6 DEF DurableInv, EffectsSaved
    <3> QED
      BY <3>1, <3>2, <3>3 DEF EffectsSaved
  <2> QED
    BY <1>4, <2>5, <2>7 DEF DurableInv
<1>6. CASE ~(row.run = g /\ IsActive)
  <2>1. row'.open = row.open /\ effects' = effects
    BY <1>1, <1>6 DEF CompleteTool, FreshBudget, Row
  <2> HIDE DEF use
  <2>2. DurableRunsTypeOK'
    BY <1>1, <1>2, <2>1 DEF DurableInv, DurableRunsTypeOK
  <2>3. EffectsSaved'
    BY <1>1, <2>1 DEF DurableInv, EffectsSaved, Unknown
  <2> QED
    BY <1>4, <2>2, <2>3 DEF DurableInv
<1> QED
  BY <1>5, <1>6

LEMMA StutterKeeps ==
  ASSUME DurableInv, UNCHANGED vars
  PROVE  DurableInv'
BY DEF DurableInv, DurableRunsTypeOK, BudgetHeld, RecoveryBounded, EffectsSaved, NewIsBlank,
       Unknown, NoRow, vars

LEMMA InitHolds ==
  ASSUME Init
  PROVE  DurableInv
<1>1. /\ row = NoRow /\ NoRow \in Row /\ NoRow.run = 0 /\ NoRow.recoveryCount = 0
      /\ NoRow.open = {}
  BY DEF Init, NoRow, Row
<1>2. DurableRunsTypeOK
  <2>1. coord \in [Coordinators -> Coordinator] /\ \A p \in Coordinators : coord[p].run = 0
    BY IdleType DEF Init
  <2>2. /\ exec \in Executors /\ watched \in BOOLEAN /\ inputs \in Nat
        /\ tools = {} /\ effects \in [Calls -> Nat] /\ unnamed \in [Calls -> Nat]
    BY DurableRunsAssumption DEF Init, Executors
  <2> QED
    BY <1>1, <2>1, <2>2 DEF DurableRunsTypeOK
<1>3. BudgetHeld /\ RecoveryBounded /\ EffectsSaved /\ NewIsBlank
  BY <1>1, DurableRunsAssumption
     DEF Init, BudgetHeld, RecoveryBounded, EffectsSaved, NewIsBlank, Unknown
<1> QED
  BY <1>2, <1>3 DEF DurableInv

LEMMA StepKeeps ==
  ASSUME DurableInv, [Next]_vars
  PROVE  DurableInv'
<1>1. CASE CancelPending
  BY <1>1, CancelPendingKeeps
<1>2. CASE Execute \/ RunEnds \/ Checkpoint \/ SettleEnd \/ GraceEnds \/ HostDies
  BY <1>2, RowKeeps
<1>3. ASSUME NEW p \in Coordinators,
             Accept(p) \/ Discover(p) \/ WatchTimeout(p) \/ AttemptFailed(p) \/ Coordinate(p)
      PROVE  DurableInv'
  BY <1>3, AcceptKeeps, CoordinatorKeeps, AdvanceKeeps, SettleFinalKeeps DEF Coordinate
<1>4. ASSUME NEW g \in 1 .. row.run, NEW c \in Calls,
             GuardTool(g, c) \/ GuardUnnamed(g, c) \/ CompleteTool(c, g)
      PROVE  DurableInv'
  BY <1>4, GuardToolKeeps, GuardUnnamedKeeps, CompleteToolKeeps
<1>5. CASE UNCHANGED vars
  BY <1>5, StutterKeeps
<1> QED
  BY <1>1, <1>2, <1>3, <1>4, <1>5 DEF Next

LEMMA DurableInvariant == Spec => []DurableInv
<1>1. Init => DurableInv
  BY InitHolds
<1>2. DurableInv /\ [Next]_vars => DurableInv'
  BY StepKeeps
<1> QED
  BY <1>1, <1>2, PTL DEF Spec

-----------------------------------------------------------------------------
(* The theorems                                                            *)

(* The stored answer, the executor and the coordinators are always of      *)
(* their types, and no coordinator works for a generation that does not    *)
(* exist (durable-run-store.ts, recover.ts).                               *)
THEOREM DurableRunsTypeCorrect == Spec => []DurableRunsTypeOK
<1>1. DurableInv => DurableRunsTypeOK
  BY DEF DurableInv
<1> QED
  BY <1>1, DurableInvariant, PTL

(* However many coordinators weigh the budget before one of them advances, *)
(* no answer is continued more than RecoveryLimit times without progress   *)
(* (recover.ts:107-112, durable-run-store.ts:326-351).                     *)
THEOREM RecoveryIsBounded == Spec => []RecoveryBounded
<1>1. DurableInv => RecoveryBounded
  BY DEF DurableInv
<1> QED
  BY <1>1, DurableInvariant, PTL

(* A step lets no call through: none is saved or counted once more.        *)
LetsNoneThrough ==
  \A c \in Calls : effects'[c] <= effects[c] /\ unnamed'[c] = unnamed[c]

(* Only guardTool lets a call through, and only one that it allows.        *)
LEMMA CallsPassGuard ==
  ASSUME DurableInv, [Next]_vars
  PROVE  \/ LetsNoneThrough
         \/ \E c \in Calls :
              /\ ~Unknown(c) /\ ~row.cancel
              /\ \A d \in Calls \ {c} : effects'[d] = effects[d] /\ unnamed'[d] = unnamed[d]
<1>1. effects \in [Calls -> Nat] /\ unnamed \in [Calls -> Nat]
  BY DEF DurableInv, DurableRunsTypeOK
<1>2. effects' = effects /\ unnamed' = unnamed => LetsNoneThrough
  BY <1>1 DEF LetsNoneThrough
<1>3. CASE \/ CancelPending \/ GraceEnds \/ HostDies
           \/ Execute \/ RunEnds \/ Checkpoint \/ SettleEnd \/ UNCHANGED vars
  BY <1>2, <1>3 DEF CancelPending, GraceEnds, HostDies, Execute, RunEnds, Checkpoint, SettleEnd,
                    vars
<1>4. ASSUME NEW p \in Coordinators,
             \/ Accept(p) \/ Discover(p) \/ WatchTimeout(p) \/ AttemptFailed(p)
             \/ Coordinate(p)
      PROVE  LetsNoneThrough
  BY <1>2, <1>4 DEF Accept, Discover, WatchTimeout, AttemptFailed, Recover, Coordinate, ProbeDead,
                    ProbeLive, Diagnose, Resolve, Fence, CancelAttempt, Advance, CheckNext, Launch,
                    SettleFinal
<1>5. ASSUME NEW g \in 1 .. row.run, NEW c \in Calls, CompleteTool(c, g)
      PROVE  LetsNoneThrough
  <2>1. effects' = effects \/ effects' = [effects EXCEPT ![c] = effects[c] - 1]
    BY <1>5 DEF CompleteTool
  <2> QED
    BY <1>1, <1>5, <2>1 DEF CompleteTool, LetsNoneThrough
<1>6. ASSUME NEW g \in 1 .. row.run, NEW c \in Calls, GuardTool(g, c) \/ GuardUnnamed(g, c)
      PROVE  /\ ~Unknown(c) /\ ~row.cancel
             /\ \A d \in Calls \ {c} : effects'[d] = effects[d] /\ unnamed'[d] = unnamed[d]
  BY <1>1, <1>6 DEF GuardTool, GuardUnnamed, Allowed, CanExecute
<1> QED
  BY <1>3, <1>4, <1>5, <1>6 DEF Next

(* A call that was saved with its tool-use id and whose outcome the answer *)
(* does not hold is not let through again while that is so, with an id or  *)
(* without one, by any attempt (durable-run-store.ts:418-444).             *)
THEOREM NoUnknownCallIsRepeated == Spec => UnknownCallsNotRepeated
<1> DEFINE Kept == \A c \in Calls :
                     effects[c] > 0 => effects'[c] <= effects[c] /\ unnamed'[c] = unnamed[c]
<1>1. ASSUME DurableInv, [Next]_vars, NEW c \in Calls, effects[c] > 0
      PROVE  effects'[c] <= effects[c] /\ unnamed'[c] = unnamed[c]
  <2>1. Unknown(c) /\ effects[c] \in Nat
    BY <1>1 DEF DurableInv, EffectsSaved, DurableRunsTypeOK
  <2>2. CASE LetsNoneThrough
    BY <2>2 DEF LetsNoneThrough
  <2>3. CASE ~LetsNoneThrough
    <3>1. PICK d \in Calls :
            /\ ~Unknown(d)
            /\ \A x \in Calls \ {d} : effects'[x] = effects[x] /\ unnamed'[x] = unnamed[x]
      BY <1>1, <2>3, CallsPassGuard
    <3>2. c # d
      BY <2>1, <3>1
    <3> QED
      BY <2>1, <3>1, <3>2
  <2> QED
    BY <2>2, <2>3
<1>2. DurableInv /\ [Next]_vars => [Kept]_vars
  BY <1>1
<1>3. Spec => [][Kept]_vars
  BY <1>2, DurableInvariant, PTL DEF Spec
<1> QED
  BY <1>3 DEF UnknownCallsNotRepeated

(* From the moment a stop is recorded on an open answer no attempt takes   *)
(* it over and no tool call is let through (durable-run-store.ts:128-130,  *)
(* 326-351, 418-429).                                                      *)
THEOREM StopFencesAlways == Spec => StopFences
<1> DEFINE Fenced == row.cancel /\ IsActive =>
                       /\ row'.run = row.run
                       /\ \A c \in Calls : effects'[c] <= effects[c] /\ unnamed'[c] = unnamed[c]
<1>1. ASSUME DurableInv, [Next]_vars, row.cancel, IsActive
      PROVE  row'.run = row.run
  <2>1. row \in Row /\ row.status # "absent"
    BY <1>1 DEF DurableInv, DurableRunsTypeOK, IsActive, Active
  <2>2. CASE \/ CancelPending \/ GraceEnds \/ Checkpoint
             \/ Execute \/ RunEnds \/ HostDies \/ UNCHANGED vars
    BY <2>1, <2>2 DEF CancelPending, GraceEnds, Checkpoint, FreshBudget, Execute, RunEnds, HostDies,
                      vars, Row
  <2>3. CASE SettleEnd
    BY <1>1, <2>3, SettleStep DEF SettleEnd, Settled
  <2>4. ASSUME NEW p \in Coordinators, SettleFinal(p)
        PROVE  row'.run = row.run
    <3>1. coord[p].final \in Settled
      BY <1>1 DEF DurableInv, DurableRunsTypeOK, Coordinator
    <3> QED
      BY <1>1, <2>4, <3>1, SettleStep DEF SettleFinal
  <2>5. ASSUME NEW p \in Coordinators,
               \/ Accept(p) \/ Advance(p)
               \/ Discover(p) \/ WatchTimeout(p) \/ AttemptFailed(p)
               \/ ProbeDead(p) \/ ProbeLive(p) \/ Diagnose(p) \/ Resolve(p) \/ Fence(p)
               \/ CheckNext(p) \/ Launch(p)
        PROVE  row' = row
    BY <1>1, <2>1, <2>5 DEF Accept, Advance, CanAdvance, CanExecute, Discover, WatchTimeout,
         AttemptFailed, Recover, ProbeDead, ProbeLive, Diagnose, Resolve, Fence, CancelAttempt,
         CheckNext, Launch
  <2>6. ASSUME NEW g \in 1 .. row.run, NEW c \in Calls,
               GuardTool(g, c) \/ GuardUnnamed(g, c) \/ CompleteTool(c, g)
        PROVE  row'.run = row.run
    BY <1>1, <2>1, <2>6 DEF GuardTool, GuardUnnamed, Allowed, CanExecute, CompleteTool, FreshBudget,
                            Row
  <2> QED
    BY <1>1, <2>2, <2>3, <2>4, <2>5, <2>6 DEF Next, Coordinate
<1>2. ASSUME DurableInv, [Next]_vars, row.cancel
      PROVE  LetsNoneThrough
  BY <1>2, CallsPassGuard
<1>3. DurableInv /\ [Next]_vars => [Fenced]_vars
  BY <1>1, <1>2 DEF LetsNoneThrough
<1>4. Spec => [][Fenced]_vars
  BY <1>3, DurableInvariant, PTL DEF Spec
<1> QED
  BY <1>4 DEF StopFences
=============================================================================
