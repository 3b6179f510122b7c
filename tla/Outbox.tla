------------------------------- MODULE Outbox -------------------------------
(***************************************************************************)
(* The fenced outbox of infra/src/events/outbox: writers enqueue intents   *)
(* in transactions, workers recover and claim rows, authorize, dispatch    *)
(* and complete them under a fence, and a serial pump schedules a          *)
(* worker's passes.                                                        *)
(*                                                                         *)
(* Time is not a number here.  A claim's lease ends on each worker's own   *)
(* clock at an arbitrary moment after the claim (the claim's `ended`), so  *)
(* nothing that holds depends on clocks that agree.  A token stands for    *)
(* its claim only as long as somebody still holds it: a fresh one is one   *)
(* nobody holds, and a row nobody has claimed keeps neither.               *)
(***************************************************************************)
EXTENDS Integers, FiniteSets

CONSTANTS Rows,         \* intents, by (scope, idempotency key)
          Transactions, \* the callers' units of work
          Workers,      \* processes that drain the outbox, one pump each
          Tokens,       \* claim tokens
          None,         \* no transaction, no token
          MaxAttempts,  \* the retry policy's cap
          BatchSize,
          Stoppable,    \* workers whose host stops their pump
          MaxLate       \* bound: lost beginDispatch() calls under way at once

ASSUME OutboxAssumption ==
  /\ IsFiniteSet(Rows) /\ None \notin Transactions /\ None \notin Tokens
  /\ MaxAttempts \in Nat \ {0} /\ BatchSize \in Nat \ {0} /\ MaxLate \in Nat
  /\ Stoppable \subseteq Workers

VARIABLES rows,     \* [Rows -> Row]: the stored rows
          tx,       \* [Transactions -> status]
          worker,   \* [Workers -> Worker]: where each pass is
          begins,   \* beginDispatch() calls whose caller no longer waits for them
          pump,     \* [Workers -> Pump]
          sent      \* history: dispatches of a row that were not confirmed effectless

vars == << rows, tx, worker, begins, pump, sent >>

Terminal == {"delivered", "denied", "failed", "uncertain"}
Statuses == {"absent", "pending", "leased", "dispatching"} \cup Terminal

(* attempts is counted as far as the cap can tell, one past it.  due: the  *)
(* row's next attempt time has passed.                                     *)
Row   == [status : Statuses, token : Tokens \cup {None}, attempts : 0 .. MaxAttempts + 1,
          due : BOOLEAN, owner : Transactions \cup {None}, ended : SUBSET Workers]
Claim == [row : Rows, token : Tokens, attempts : 0 .. MaxAttempts + 1, ended : BOOLEAN]
Begin == [row : Rows, token : Tokens]

ASSUME NoClaimAssumption == None \notin Claim

(* live: what the clock reading of the fence in use said of the lease.     *)
Steps    == {"idle", "recover", "claim", "next", "authorize", "begin", "marked",
            "dispatch", "complete"}
Completions == {"pending"} \cup Terminal
InHand   == Claim \cup {None}
Worker   == [at : Steps, batch : SUBSET Claim, claim : InHand, live : BOOLEAN,
             completion : Completions]
Pump     == [started : BOOLEAN, stopped : BOOLEAN, timer : BOOLEAN, stopDone : BOOLEAN]

NoRow     == [status |-> "absent", token |-> None, attempts |-> 0, due |-> TRUE, owner |-> None,
              ended |-> {}]
Doing(step, batch, claim, live, completion) ==
  [at |-> step, batch |-> batch, claim |-> claim, live |-> live, completion |-> completion]
Idle      == Doing("idle", {}, None, FALSE, "pending")
Looking(batch) == Doing("next", batch, None, FALSE, "pending")
InertPump == [started |-> FALSE, stopped |-> FALSE, timer |-> FALSE, stopDone |-> FALSE]

Init ==
  /\ rows = [r \in Rows |-> NoRow]
  /\ tx = [t \in Transactions |-> "open"]
  /\ worker = [w \in Workers |-> Idle]
  /\ begins = {}
  /\ pump = [w \in Workers |-> InertPump]
  /\ sent = [r \in Rows |-> 0]

-----------------------------------------------------------------------------
(* Writers                                                                 *)

(* enqueueWithReceipt(): a key that has a row is answered from the row     *)
(* (existing, conflict, or reserved) and changes nothing.                  *)
Enqueue(r, t) ==
  /\ rows[r].status = "absent"
  /\ t # None => tx[t] = "open"
  /\ rows' = [rows EXCEPT ![r] = [NoRow EXCEPT !.status = "pending", !.owner = t]]
  /\ UNCHANGED << tx, worker, begins, pump, sent >>

(* Every joined write commits.                                             *)
Commit(t) ==
  /\ tx[t] = "open"
  /\ tx' = [tx EXCEPT ![t] = "committed"]
  /\ rows' = [r \in Rows |-> IF rows[r].owner = t THEN [rows[r] EXCEPT !.owner = None]
                                                  ELSE rows[r]]
  /\ UNCHANGED << worker, begins, pump, sent >>

(* rollback(), or commit() of which one joined write threw: every write is *)
(* undone, also those whose commit already ran.                            *)
Rollback(t) ==
  /\ tx[t] = "open"
  /\ tx' = [tx EXCEPT ![t] = "rolled-back"]
  /\ rows' = [r \in Rows |-> IF rows[r].owner = t THEN NoRow ELSE rows[r]]
  /\ UNCHANGED << worker, begins, pump, sent >>

-----------------------------------------------------------------------------
(* Clocks                                                                  *)

ClaimsOf(w) == worker[w].batch \cup ({worker[w].claim} \ {None})

HeldTokens ==
  { rows[r].token : r \in Rows } \cup { b.token : b \in begins }
    \cup UNION { { c.token : c \in ClaimsOf(w) } : w \in Workers }

(* The lease that came with token t ends on w's clock.                     *)
Overrun(c, t) == IF c # None /\ c.token = t THEN [c EXCEPT !.ended = TRUE] ELSE c

LeaseEnds(w, t) ==
  /\ \/ \E r \in Rows : rows[r].token = t /\ w \notin rows[r].ended
     \/ \E c \in ClaimsOf(w) : c.token = t /\ ~c.ended
  /\ rows' = [r \in Rows |-> IF rows[r].token = t
                             THEN [rows[r] EXCEPT !.ended = rows[r].ended \cup {w}]
                             ELSE rows[r]]
  /\ worker' = [worker EXCEPT ![w].batch = { Overrun(c, t) : c \in worker[w].batch },
                              ![w].claim = Overrun(worker[w].claim, t)]
  /\ UNCHANGED << tx, begins, pump, sent >>

BackoffEnds(r) ==
  /\ ~rows[r].due
  /\ rows' = [rows EXCEPT ![r].due = TRUE]
  /\ UNCHANGED << tx, worker, begins, pump, sent >>

-----------------------------------------------------------------------------
(* A worker's pass                                                         *)

At(w, step) == worker[w].at = step
Goto(w, step) == worker' = [worker EXCEPT ![w].at = step]

(* The largest subsets of S a call limited to BatchSize can take.          *)
Batches(S) == { B \in SUBSET S : \/ B = S /\ Cardinality(S) <= BatchSize
                                 \/ Cardinality(B) = BatchSize }

(* Variant: rows that reached the dispatch marker are never recovered.     *)
ExpiredLeasesOnly(w) == { r \in Rows : rows[r].status = "leased" /\ w \in rows[r].ended }

(* recoverExpired(): a lease that ended unsent goes back to the queue, one *)
(* that passed the dispatch marker cannot be known.                        *)
Expired(w) == { r \in Rows : rows[r].status \in {"leased", "dispatching"} /\ w \in rows[r].ended }

Released(row, status) == [row EXCEPT !.status = status, !.token = None, !.ended = {}]

(* Variant: every lease that ended counts as unsent.                       *)
RecoverAsUnsent(w) ==
  /\ At(w, "recover")
  /\ \E B \in Batches(Expired(w)) :
       rows' = [r \in Rows |-> IF r \in B THEN Released(rows[r], "pending") ELSE rows[r]]
  /\ Goto(w, "claim")
  /\ UNCHANGED << tx, begins, pump, sent >>

Recover(w) ==
  /\ At(w, "recover")
  /\ \E B \in Batches(Expired(w)) :
       rows' = [r \in Rows |->
                  IF r \in B
                  THEN Released(rows[r], IF rows[r].status = "leased" THEN "pending" ELSE "uncertain")
                  ELSE rows[r]]
  /\ Goto(w, "claim")
  /\ UNCHANGED << tx, begins, pump, sent >>

(* Variant: rows of open transactions are claimed.                         *)
ReadyUncommitted == { r \in Rows : rows[r].status = "pending" /\ rows[r].due }

(* claimReady(): due rows of committed writers, each under a fresh token.  *)
Ready == { r \in Rows : rows[r].status = "pending" /\ rows[r].due /\ rows[r].owner = None }

OneMore(n) == IF n <= MaxAttempts THEN n + 1 ELSE n

FreshTokens(B) == { fresh \in [B -> Tokens \ HeldTokens] :
                      \A r, s \in B : fresh[r] = fresh[s] => r = s }

ClaimReady(w) ==
  /\ At(w, "claim")
  /\ \E B \in Batches(Ready) :
       LET fresh == CHOOSE f \in FreshTokens(B) : TRUE IN
       /\ FreshTokens(B) # {}
       /\ rows' = [r \in Rows |->
                     IF r \in B
                     THEN [rows[r] EXCEPT !.status = "leased", !.token = fresh[r],
                                          !.attempts = OneMore(@)]
                     ELSE rows[r]]
       /\ worker' = [worker EXCEPT
            ![w] = Looking({ [row |-> r, token |-> fresh[r], ended |-> FALSE,
                              attempts |-> OneMore(rows[r].attempts)] : r \in B })]
  /\ UNCHANGED << tx, begins, pump, sent >>

(* complete() is called under a fence read from the clock now.             *)
Completing(w, status) ==
  worker' = [worker EXCEPT ![w].at = "complete", ![w].completion = status,
                           ![w].live = ~worker[w].claim.ended]

(* deliverFenced() takes the next row of the batch: an expired claim is    *)
(* left alone, one past the cap is sealed without being sent.              *)
TakeNext(w) ==
  /\ At(w, "next")
  /\ \E c \in worker[w].batch :
       LET rest == worker[w].batch \ {c} IN
       worker' = [worker EXCEPT ![w] =
         IF c.ended THEN Looking(rest)
         ELSE IF c.attempts > MaxAttempts THEN Doing("complete", rest, c, TRUE, "failed")
         ELSE Doing("authorize", rest, c, FALSE, "pending")]
  /\ UNCHANGED << rows, tx, begins, pump, sent >>

(* The attempt ends without a completion: the lease decides.               *)
Drop(w) == worker' = [worker EXCEPT ![w] = Looking(worker[w].batch)]

(* authorize() answers yes or no, or throws or times out.                  *)
Authorize(w) ==
  /\ At(w, "authorize")
  /\ \/ worker' = [worker EXCEPT ![w].at = "begin", ![w].live = ~worker[w].claim.ended]
     \/ Completing(w, "denied")
     \/ Drop(w)
  /\ UNCHANGED << rows, tx, begins, pump, sent >>

(* beginDispatch() marks the row under a fence whose lease is live.        *)
CanBegin(b) == rows[b.row].token = b.token /\ rows[b.row].status = "leased"
Marked(b) == IF CanBegin(b) THEN [rows EXCEPT ![b.row].status = "dispatching"] ELSE rows

BeginOf(w) == [row |-> worker[w].claim.row, token |-> worker[w].claim.token]

BeginDispatch(w) ==
  /\ At(w, "begin")
  /\ IF worker[w].live /\ CanBegin(BeginOf(w))
     THEN rows' = Marked(BeginOf(w)) /\ Goto(w, "marked")
     ELSE Drop(w) /\ UNCHANGED rows
  /\ UNCHANGED << tx, begins, pump, sent >>

(* The marker's answer arrives: the wait may have used up the lease, so it *)
(* is checked again, and the effect is started at once.                    *)
StartDispatch(w) ==
  /\ At(w, "marked")
  /\ IF ~worker[w].claim.ended
     THEN /\ Goto(w, "dispatch")
          /\ sent' = [sent EXCEPT ![worker[w].claim.row] = IF @ < 2 THEN @ + 1 ELSE @]
     ELSE Drop(w) /\ UNCHANGED sent
  /\ UNCHANGED << rows, tx, begins, pump >>

(* The wait for the marker times out, or its answer is lost: the call may  *)
(* still be executed later.                                                *)
LoseBegin(w) ==
  /\ At(w, "begin") /\ worker[w].live /\ Cardinality(begins) < MaxLate
  /\ begins' = begins \cup {BeginOf(w)}

BeginUnanswered(w) ==
  /\ LoseBegin(w)
  /\ Drop(w)
  /\ UNCHANGED << rows, tx, pump, sent >>

LateBegin(b) ==
  /\ b \in begins
  /\ begins' = begins \ {b}
  /\ rows' = Marked(b)
  /\ UNCHANGED << tx, worker, pump, sent >>

(* Variant: a malformed result is stored as it is.                         *)
DispatchUnchecked(w) ==
  /\ At(w, "dispatch")
  /\ \/ /\ \E status \in {"delivered", "failed", "uncertain", "malformed"} : Completing(w, status)
        /\ UNCHANGED sent
     \/ /\ sent' = [sent EXCEPT ![worker[w].claim.row] = @ - 1]
        /\ \/ worker[w].claim.attempts < MaxAttempts /\ Completing(w, "pending")
           \/ Completing(w, "failed")
  /\ UNCHANGED << rows, tx, begins, pump >>

(* What dispatch() says, as fencedCompletion() turns it into a completion. *)
(* A throw, a malformed result and a timeout are uncertain.  Only a        *)
(* confirmed absence of effects is retried, as far as the policy allows.   *)
Dispatch(w) ==
  /\ At(w, "dispatch")
  /\ \/ /\ \E status \in {"delivered", "failed", "uncertain"} : Completing(w, status)
        /\ UNCHANGED sent
     \/ /\ sent' = [sent EXCEPT ![worker[w].claim.row] = @ - 1]
        /\ \/ worker[w].claim.attempts < MaxAttempts /\ Completing(w, "pending")
           \/ Completing(w, "failed")
  /\ UNCHANGED << rows, tx, begins, pump >>

(* complete(): under the fence, and only where the row's state permits.    *)
Permitted(status) ==
  CASE status = "leased"      -> {"denied", "failed", "uncertain"}
    [] status = "dispatching" -> {"delivered", "failed", "uncertain", "pending"}
    [] OTHER                  -> {}

Complete(w) ==
  /\ At(w, "complete")
  /\ LET r == worker[w].claim.row IN
     rows' = IF /\ worker[w].live /\ rows[r].token = worker[w].claim.token
                /\ worker[w].completion \in Permitted(rows[r].status)
             THEN [rows EXCEPT ![r] = [Released(rows[r], worker[w].completion) EXCEPT
                                         !.due = worker[w].completion # "pending"]]
             ELSE rows
  /\ Drop(w)
  /\ UNCHANGED << tx, begins, pump, sent >>

(* complete() throws without having committed.                             *)
CompleteFails(w) ==
  /\ At(w, "complete")
  /\ Drop(w)
  /\ UNCHANGED << rows, tx, begins, pump, sent >>

-----------------------------------------------------------------------------
(* The pump                                                                *)

StartPump(w) ==
  /\ ~pump[w].started /\ ~pump[w].stopped
  /\ pump' = [pump EXCEPT ![w].started = TRUE, ![w].timer = TRUE]
  /\ UNCHANGED << rows, tx, worker, begins, sent >>

(* Variant: a callback that stop() came too late for runs its pass.        *)
FireStopped(w) ==
  /\ pump[w].timer
  /\ pump' = [pump EXCEPT ![w].timer = FALSE]
  /\ Goto(w, "recover")
  /\ UNCHANGED << rows, tx, begins, sent >>

(* The timer fires; a callback that was already queued when stop()         *)
(* cancelled it does nothing.                                              *)
Fire(w) ==
  /\ pump[w].timer
  /\ pump' = [pump EXCEPT ![w].timer = FALSE]
  /\ IF pump[w].stopped THEN UNCHANGED worker ELSE Goto(w, "recover")
  /\ UNCHANGED << rows, tx, begins, sent >>

(* The pass settles, or its storage fails before anything is dispatched;   *)
(* either way the loop goes on.                                            *)
PassEnds(w) ==
  /\ \/ At(w, "next") /\ worker[w].batch = {}
     \/ At(w, "recover")
     \/ At(w, "claim")
  /\ worker' = [worker EXCEPT ![w] = Idle]
  /\ pump' = [pump EXCEPT ![w].timer = ~pump[w].stopped]
  /\ UNCHANGED << rows, tx, begins, sent >>

(* stop() cancels the timer unless its callback is queued already.         *)
Stop(w) ==
  /\ ~pump[w].stopped
  /\ \E timer \in {FALSE, pump[w].timer} :
       pump' = [pump EXCEPT ![w].stopped = TRUE, ![w].timer = timer]
  /\ UNCHANGED << rows, tx, worker, begins, sent >>

StopResolves(w) ==
  /\ pump[w].stopped /\ ~pump[w].stopDone /\ At(w, "idle")
  /\ pump' = [pump EXCEPT ![w].stopDone = TRUE]
  /\ UNCHANGED << rows, tx, worker, begins, sent >>

(* The worker's process dies and another one starts in its place.          *)
Die(w) ==
  /\ worker[w] # Idle
  /\ worker' = [worker EXCEPT ![w] = Idle]
  /\ pump' = [pump EXCEPT ![w] = InertPump]
  /\ LoseBegin(w) \/ UNCHANGED begins
  /\ UNCHANGED << rows, tx, sent >>

Next ==
  \/ \E r \in Rows, t \in Transactions \cup {None} : Enqueue(r, t)
  \/ \E t \in Transactions : Commit(t) \/ Rollback(t)
  \/ \E w \in Workers, t \in Tokens : LeaseEnds(w, t)
  \/ \E r \in Rows : BackoffEnds(r)
  \/ \E w \in Workers :
       \/ Recover(w) \/ ClaimReady(w) \/ TakeNext(w) \/ Authorize(w)
       \/ BeginDispatch(w) \/ BeginUnanswered(w) \/ StartDispatch(w) \/ Dispatch(w)
       \/ Complete(w) \/ CompleteFails(w)
       \/ StartPump(w) \/ Fire(w) \/ PassEnds(w) \/ StopResolves(w) \/ Die(w)
  \/ \E w \in Stoppable : Stop(w)
  \/ \E b \in begins : LateBegin(b)

(* A pump that is not stopped keeps running passes: its process is started *)
(* again, its timers fire, its steps go on (each wait is bounded), clocks  *)
(* advance, and recovery does not fail every time.                         *)
Advances(w) ==
  \/ ClaimReady(w) \/ TakeNext(w) \/ Authorize(w) \/ BeginDispatch(w) \/ BeginUnanswered(w)
  \/ StartDispatch(w) \/ Dispatch(w) \/ Complete(w) \/ CompleteFails(w) \/ PassEnds(w)

Fairness ==
  /\ \A w \in Workers : /\ WF_vars(StartPump(w)) /\ WF_vars(Fire(w)) /\ WF_vars(Advances(w))
                        /\ SF_vars(Recover(w))
                        /\ \A t \in Tokens : WF_vars(LeaseEnds(w, t))

Spec == Init /\ [][Next]_vars /\ Fairness

-----------------------------------------------------------------------------
OutboxTypeOK ==
  /\ rows \in [Rows -> Row]
  /\ tx \in [Transactions -> {"open", "committed", "rolled-back"}]
  /\ worker \in [Workers -> Worker]
  /\ begins \subseteq Begin
  /\ pump \in [Workers -> Pump]
  /\ sent \in [Rows -> 0 .. 2]

(* However workers, clocks, lost answers and crashes interleave, an        *)
(* effect that may have happened is never tried again (worker.ts:380-384). *)
SentAtMostOnce == \A r \in Rows : sent[r] <= 1

(* What the outbox promises of each intent.                                *)
IntentOf(row) ==
  IF row.status = "absent" \/ row.owner # None THEN "absent"
  ELSE IF row.status \in {"pending", "leased", "dispatching"} THEN "queued"
  ELSE IF row.status = "uncertain" THEN "unknown" ELSE row.status

Promise == INSTANCE OutboxPromise WITH intent <- [r \in Rows |-> IntentOf(rows[r])]
KeepsPromise == Promise!SafeSpec

(* Once stop() has resolved, the pump's worker does nothing any more, even *)
(* when the host's scheduler delivers a cancelled callback                 *)
(* (drainer.ts:40-41).                                                     *)
StopIsFinal == \A w \in Workers : pump[w].stopDone => At(w, "idle")

(* No claim outlives its claimer: a leased or dispatching row is completed *)
(* or recovered, whichever workers die and whichever answers are lost.     *)
EveryClaimResolves ==
  \A r \in Rows : rows[r].status \in {"leased", "dispatching"}
                    ~> rows[r].status \notin {"leased", "dispatching"}
=============================================================================
