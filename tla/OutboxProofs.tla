---------------------------- MODULE OutboxProofs ----------------------------
(***************************************************************************)
(* Theorems about the fenced outbox, for every set of rows, transactions,  *)
(* workers and tokens, every batch size and every number of attempts.      *)
(***************************************************************************)
EXTENDS Outbox, TLAPS

-----------------------------------------------------------------------------
(* The inductive invariant                                                 *)

(* A claim in hand from the first wait to the completion.                  *)
WithClaim == {"authorize", "begin", "marked", "dispatch", "complete"}
ClaimInHand == \A w \in Workers : worker[w].at \in WithClaim => worker[w].claim \in Claim

(* A row of an open transaction is not touched by workers.                 *)
OwnedPending == \A r \in Rows : rows[r].owner # None => rows[r].status = "pending"

(* No two workers hold claims with the same token.                         *)
TokensOf(w) == { c.token : c \in ClaimsOf(w) }
OneHolder == \A w, x \in Workers : w # x => TokensOf(w) \cap TokensOf(x) = {}

(* A sender has its row's dispatch marker and has not completed with       *)
(* anything that ends the row.                                             *)
Sender(w) == \/ worker[w].at \in {"marked", "dispatch"}
             \/ worker[w].at = "complete" /\ worker[w].completion \in {"pending", "delivered"}
HasSent(w) == worker[w].at = "dispatch" \/ (worker[w].at = "complete" /\ worker[w].completion = "delivered")

(* Its row is still marked under its token, or was written off meanwhile;  *)
(* and sent says how far it came.                                          *)
SenderOK(w) ==
  /\ \/ /\ rows[worker[w].claim.row].status = "dispatching"
        /\ rows[worker[w].claim.row].token = worker[w].claim.token
     \/ rows[worker[w].claim.row].status = "uncertain"
  /\ sent[worker[w].claim.row] = IF HasSent(w) THEN 1 ELSE 0
SendersOK == \A w \in Workers : Sender(w) => SenderOK(w)
OneSender ==
  \A w, x \in Workers :
    Sender(w) /\ Sender(x) /\ worker[w].claim.row = worker[x].claim.row => w = x

(* A row that is not marked has not been sent.                             *)
Unmarked == {"absent", "pending", "leased"}
UnmarkedUnsent == \A r \in Rows : rows[r].status \in Unmarked => sent[r] = 0

StopHolds == \A w \in Workers : pump[w].stopDone => pump[w].stopped /\ At(w, "idle")

SendingOK == SendersOK /\ OneSender /\ UnmarkedUnsent /\ SentAtMostOnce

OutboxInv ==
  /\ OutboxTypeOK /\ ClaimInHand /\ OwnedPending /\ OneHolder /\ SendingOK /\ StopHolds

-----------------------------------------------------------------------------
(* Steps that start no dispatch                                            *)

(* Nobody becomes a sender, and who stays one keeps its place and claim.   *)
NoNewSender ==
  \A w \in Workers :
    Sender(w)' => /\ Sender(w)
                  /\ worker'[w].at = worker[w].at
                  /\ worker'[w].completion = worker[w].completion
                  /\ worker'[w].claim.row = worker[w].claim.row
                  /\ worker'[w].claim.token = worker[w].claim.token

(* What may happen to a row without its sender: nothing, anything that     *)
(* does not settle an unmarked row, or a marked row's writing off.         *)
QuietRow(r) ==
  \/ rows'[r].status = rows[r].status /\ rows'[r].token = rows[r].token
  \/ rows[r].status \in Unmarked /\ rows'[r].status \in Unmarked \cup {"dispatching", "denied",
                                                                     "failed", "uncertain"}
  \/ rows[r].status = "dispatching" /\ rows'[r].status = "uncertain"

LEMMA QuietStep ==
  ASSUME OutboxInv, NoNewSender, sent' = sent, \A r \in Rows : QuietRow(r)
  PROVE  SendingOK'
<1>1. ASSUME NEW w \in Workers, Sender(w)'
      PROVE  SenderOK(w)'
  <2> DEFINE r == worker[w].claim.row
  <2>1. /\ Sender(w) /\ worker'[w].claim.row = r /\ HasSent(w)' = HasSent(w)
        /\ worker'[w].claim.token = worker[w].claim.token
    BY <1>1 DEF NoNewSender, HasSent
  <2>2. SenderOK(w)
    BY <2>1 DEF OutboxInv, SendingOK, SendersOK
  <2>3. r \in Rows
    BY <2>1 DEF OutboxInv, ClaimInHand, WithClaim, Sender, Claim
  <2>4. QuietRow(r)
    BY <2>3
  <2> QED
    BY <2>1, <2>2, <2>4 DEF SenderOK, QuietRow, Unmarked
<1>2. SendersOK'
  BY <1>1 DEF SendersOK
<1>3. OneSender'
  BY DEF OutboxInv, SendingOK, OneSender, NoNewSender
<1>4. UnmarkedUnsent'
  BY DEF OutboxInv, SendingOK, UnmarkedUnsent, QuietRow, Unmarked
<1>5. SentAtMostOnce'
  BY DEF OutboxInv, SendingOK, SentAtMostOnce
<1> QED
  BY <1>2, <1>3, <1>4, <1>5 DEF SendingOK
-----------------------------------------------------------------------------
(* What a worker's step does to the worker                                 *)

LEMMA DoingType ==
  ASSUME NEW step \in Steps, NEW batch \in SUBSET Claim, NEW claim \in InHand,
         NEW live \in BOOLEAN, NEW completion \in Completions
  PROVE  /\ Doing(step, batch, claim, live, completion) \in Worker
         /\ Doing(step, batch, claim, live, completion).at = step
         /\ Doing(step, batch, claim, live, completion).batch = batch
         /\ Doing(step, batch, claim, live, completion).claim = claim
         /\ Doing(step, batch, claim, live, completion).completion = completion
<1>1. [at |-> step, batch |-> batch, claim |-> claim, live |-> live, completion |-> completion]
        \in [at : Steps, batch : SUBSET Claim, claim : InHand, live : BOOLEAN,
             completion : Completions]
  BY Zenon
<1>2. Doing(step, batch, claim, live, completion) \in Worker
  BY <1>1, Zenon DEF Doing, Worker
<1> QED
  BY <1>2 DEF Doing

LEMMA LookingType ==
  ASSUME NEW batch \in SUBSET Claim
  PROVE  /\ Looking(batch) \in Worker /\ Looking(batch).at = "next"
         /\ Looking(batch).batch = batch /\ Looking(batch).claim = None
<1>1. "next" \in Steps /\ None \in InHand /\ FALSE \in BOOLEAN
      /\ "pending" \in Completions
  BY DEF Steps, InHand, Completions
<1>2. [at |-> "next", batch |-> batch, claim |-> None, live |-> FALSE, completion |-> "pending"]
        \in [at : Steps, batch : SUBSET Claim, claim : InHand, live : BOOLEAN,
             completion : Completions]
  BY <1>1, Zenon
<1>3. Looking(batch) \in Worker
  BY <1>2, Zenon DEF Looking, Doing, Worker
<1> QED
  BY <1>3 DEF Looking, Doing

LEMMA IdleType ==
  Idle \in Worker /\ Idle.at = "idle" /\ Idle.batch = {} /\ Idle.claim = None
<1>1. "idle" \in Steps /\ None \in InHand /\ FALSE \in BOOLEAN
      /\ "pending" \in Completions /\ {} \in SUBSET Claim
  BY DEF Steps, InHand, Completions
<1>2. [at |-> "idle", batch |-> {}, claim |-> None, live |-> FALSE, completion |-> "pending"]
        \in [at : Steps, batch : SUBSET Claim, claim : InHand, live : BOOLEAN,
             completion : Completions]
  BY <1>1, Zenon
<1>3. Idle \in Worker
  BY <1>2, Zenon DEF Idle, Doing, Worker
<1> QED
  BY <1>3 DEF Idle, Doing

LEMMA WorkerTypes ==
  ASSUME OutboxInv, NEW w \in Workers
  PROVE  /\ worker \in [Workers -> Worker] /\ worker[w] \in Worker
         /\ worker[w].at \in Steps /\ worker[w].batch \subseteq Claim
         /\ worker[w].claim \in InHand /\ worker[w].completion \in Completions
         /\ worker[w].at \in WithClaim => worker[w].claim \in Claim
BY DEF OutboxInv, OutboxTypeOK, Worker, ClaimInHand

(* A worker that puts claims down or takes one of its batch in hand.       *)
LEMMA WorkerMove ==
  ASSUME OutboxInv, NEW w \in Workers, NEW x \in Worker,
         worker' = [worker EXCEPT ![w] = x],
         x.batch \subseteq worker[w].batch, x.claim \in ClaimsOf(w) \cup {None},
         x.at \in WithClaim => x.claim \in Claim,
         x.at \notin {"marked", "dispatch"},
         x.at = "complete" => x.completion \notin {"pending", "delivered"}
  PROVE  /\ worker' \in [Workers -> Worker] /\ ClaimInHand' /\ OneHolder' /\ NoNewSender
         /\ \A y \in Workers \ {w} : worker'[y] = worker[y]
<1>1. /\ worker \in [Workers -> Worker]
      /\ worker' \in [Workers -> Worker] /\ worker'[w] = x
      /\ \A y \in Workers \ {w} : worker'[y] = worker[y]
  BY DEF OutboxInv, OutboxTypeOK
<1>2. ClaimInHand'
  BY <1>1 DEF OutboxInv, ClaimInHand
<1>3. \A y \in Workers \ {w} : ClaimsOf(y)' = ClaimsOf(y)
  BY <1>1 DEF ClaimsOf
<1>4. ClaimsOf(w)' \subseteq ClaimsOf(w)
  BY <1>1 DEF ClaimsOf
<1>5. \A y \in Workers : TokensOf(y)' \subseteq TokensOf(y)
  BY <1>3, <1>4 DEF TokensOf
<1>6. OneHolder'
  BY <1>5 DEF OutboxInv, OneHolder
<1>7. NoNewSender
  <2>1. ~Sender(w)'
    BY <1>1 DEF Sender
  <2>2. \A y \in Workers \ {w} : Sender(y)' = Sender(y)
    BY <1>1 DEF Sender
  <2> QED
    BY <1>1, <2>1, <2>2 DEF NoNewSender
<1> QED
  BY <1>1, <1>2, <1>6, <1>7

LEMMA GotoMove ==
  ASSUME OutboxInv, NEW w \in Workers, NEW step \in Steps \ WithClaim, Goto(w, step)
  PROVE  /\ worker' \in [Workers -> Worker] /\ ClaimInHand' /\ OneHolder' /\ NoNewSender
         /\ \A y \in Workers \ {w} : worker'[y] = worker[y]
<1> DEFINE x == [worker[w] EXCEPT !.at = step]
<1>1. /\ x \in Worker /\ x.at = step /\ x.batch = worker[w].batch /\ x.claim = worker[w].claim
  BY WorkerTypes DEF Worker
<1>2. worker' = [worker EXCEPT ![w] = x]
  BY WorkerTypes DEF Goto
<1>3. x.claim \in ClaimsOf(w) \cup {None}
  BY <1>1 DEF ClaimsOf
<1> HIDE DEF x
<1> QED
  BY <1>1, <1>2, <1>3, WorkerMove DEF WithClaim

LEMMA DropMove ==
  ASSUME OutboxInv, NEW w \in Workers, Drop(w)
  PROVE  /\ worker' \in [Workers -> Worker] /\ ClaimInHand' /\ OneHolder' /\ NoNewSender
         /\ \A y \in Workers \ {w} : worker'[y] = worker[y]
<1> DEFINE x == Looking(worker[w].batch)
<1>1. /\ x \in Worker /\ x.at = "next" /\ x.batch = worker[w].batch /\ x.claim = None
  BY WorkerTypes, LookingType
<1>2. worker' = [worker EXCEPT ![w] = x]
  BY DEF Drop
<1> HIDE DEF x
<1> QED
  BY <1>1, <1>2, WorkerMove DEF WithClaim

LEMMA IdleMove ==
  ASSUME OutboxInv, NEW w \in Workers, worker' = [worker EXCEPT ![w] = Idle]
  PROVE  /\ worker' \in [Workers -> Worker] /\ ClaimInHand' /\ OneHolder' /\ NoNewSender
         /\ \A y \in Workers \ {w} : worker'[y] = worker[y]
BY IdleType, WorkerMove DEF WithClaim

(* A pass's step leaves the pump alone.                                    *)
LEMMA StopKept ==
  ASSUME OutboxInv, NEW w \in Workers, ~At(w, "idle"), pump' = pump,
         \A y \in Workers \ {w} : worker'[y] = worker[y]
  PROVE  StopHolds'
BY DEF OutboxInv, StopHolds, At

LEMMA QuietWorkerStep ==
  ASSUME OutboxInv, NEW w \in Workers, worker' \in [Workers -> Worker], ClaimInHand', OneHolder',
         NoNewSender, StopHolds', pump' \in [Workers -> Pump], begins' \subseteq Begin,
         rows' = rows, tx' = tx, sent' = sent
  PROVE  OutboxInv'
<1>1. OutboxTypeOK'
  BY DEF OutboxInv, OutboxTypeOK
<1>2. SendingOK'
  BY QuietStep DEF QuietRow
<1>3. OwnedPending'
  BY DEF OutboxInv, OwnedPending
<1> QED
  BY <1>1, <1>2, <1>3 DEF OutboxInv
(* The steps of a pass that leave the rows alone and start no dispatch.    *)
LEMMA TakeNextKeeps ==
  ASSUME OutboxInv, NEW w \in Workers, TakeNext(w)
  PROVE  OutboxInv'
<1>1. PICK c \in worker[w].batch :
        worker' = [worker EXCEPT ![w] =
          IF c.ended THEN Looking(worker[w].batch \ {c})
          ELSE IF c.attempts > MaxAttempts
               THEN Doing("complete", worker[w].batch \ {c}, c, TRUE, "failed")
               ELSE Doing("authorize", worker[w].batch \ {c}, c, FALSE, "pending")]
  BY DEF TakeNext
<1> DEFINE rest == worker[w].batch \ {c}
           x    == IF c.ended THEN Looking(rest)
                   ELSE IF c.attempts > MaxAttempts THEN Doing("complete", rest, c, TRUE, "failed")
                   ELSE Doing("authorize", rest, c, FALSE, "pending")
<1>2. /\ rest \in SUBSET Claim /\ c \in Claim /\ c \in InHand /\ c \in ClaimsOf(w)
      /\ "complete" \in Steps /\ "authorize" \in Steps /\ TRUE \in BOOLEAN /\ FALSE \in BOOLEAN
      /\ "failed" \in Completions /\ "pending" \in Completions
  BY WorkerTypes DEF InHand, Steps, Completions, Terminal, ClaimsOf
<1>3. /\ x \in Worker /\ x.batch = rest /\ x.claim \in {c, None}
      /\ x.at \in WithClaim => x.claim = c
      /\ x.at \notin {"marked", "dispatch"}
      /\ x.at = "complete" => x.completion = "failed"
  <2> HIDE DEF rest
  <2>1. CASE c.ended
    <3>1. x = Looking(rest)
      BY <2>1
    <3> QED
      BY <1>2, <3>1, LookingType DEF WithClaim
  <2>2. CASE ~c.ended /\ c.attempts > MaxAttempts
    <3>1. x = Doing("complete", rest, c, TRUE, "failed")
      BY <2>2
    <3>2. Doing("complete", rest, c, TRUE, "failed") \in Worker
      BY <1>2, Zenon DEF Doing, Worker
    <3> QED
      BY <3>1, <3>2 DEF Doing
  <2>3. CASE ~c.ended /\ ~(c.attempts > MaxAttempts)
    <3>1. x = Doing("authorize", rest, c, FALSE, "pending")
      BY <2>3
    <3>2. Doing("authorize", rest, c, FALSE, "pending") \in Worker
      BY <1>2, Zenon DEF Doing, Worker
    <3> QED
      BY <3>1, <3>2 DEF Doing
  <2> QED
    BY <2>1, <2>2, <2>3
<1>4. worker' = [worker EXCEPT ![w] = x]
  BY <1>1
<1>5. x.batch \subseteq worker[w].batch /\ x.claim \in ClaimsOf(w) \cup {None}
  BY <1>2, <1>3
<1> HIDE DEF x
<1>6. /\ worker' \in [Workers -> Worker] /\ ClaimInHand' /\ OneHolder' /\ NoNewSender
      /\ \A y \in Workers \ {w} : worker'[y] = worker[y]
  BY <1>2, <1>3, <1>4, <1>5, WorkerMove
<1>7. UNCHANGED << rows, tx, begins, pump, sent >> /\ ~At(w, "idle")
  BY DEF TakeNext, At
<1> QED
  BY <1>6, <1>7, StopKept, QuietWorkerStep DEF OutboxInv, OutboxTypeOK

LEMMA CompletingType ==
  ASSUME OutboxInv, NEW w \in Workers, NEW status \in Completions, Completing(w, status),
         worker[w].at \in WithClaim
  PROVE  /\ worker'[w] \in Worker /\ worker' = [worker EXCEPT ![w] = worker'[w]]
         /\ worker'[w].at = "complete" /\ worker'[w].completion = status
         /\ worker'[w].batch = worker[w].batch /\ worker'[w].claim = worker[w].claim
<1> DEFINE live == ~worker[w].claim.ended
           x    == [worker[w] EXCEPT !.at = "complete", !.completion = status, !.live = live]
<1>1. worker \in [Workers -> Worker] /\ worker[w] \in Worker
  BY WorkerTypes
<1>2. live \in BOOLEAN
  OBVIOUS
<1> HIDE DEF live
<1>3. x \in Worker
  BY <1>1, <1>2 DEF Worker, Steps
<1>4. worker' = [worker EXCEPT ![w] = x]
  BY <1>1 DEF Completing, live
<1> QED
  BY <1>1, <1>3, <1>4 DEF Worker
LEMMA AuthorizeKeeps ==
  ASSUME OutboxInv, NEW w \in Workers, Authorize(w)
  PROVE  OutboxInv'
<1>1. /\ UNCHANGED << rows, tx, begins, pump, sent >> /\ ~At(w, "idle")
      /\ worker[w].at = "authorize" /\ worker[w].claim \in Claim
      /\ begins \subseteq Begin /\ pump \in [Workers -> Pump]
  BY DEF Authorize, At, OutboxInv, OutboxTypeOK, ClaimInHand, WithClaim
<1>2. worker[w].claim \in ClaimsOf(w) \cup {None}
  BY DEF ClaimsOf
<1>3. /\ worker' \in [Workers -> Worker] /\ ClaimInHand' /\ OneHolder' /\ NoNewSender
      /\ \A y \in Workers \ {w} : worker'[y] = worker[y]
  <2>1. CASE worker' = [worker EXCEPT ![w].at = "begin", ![w].live = ~worker[w].claim.ended]
    <3> DEFINE live == ~worker[w].claim.ended
               x    == [worker[w] EXCEPT !.at = "begin", !.live = live]
    <3>1. worker \in [Workers -> Worker] /\ worker[w] \in Worker /\ live \in BOOLEAN
      BY WorkerTypes
    <3> HIDE DEF live
    <3>2. /\ x \in Worker /\ x.at = "begin" /\ x.claim = worker[w].claim
          /\ x.batch = worker[w].batch
      BY <3>1 DEF Worker, Steps
    <3>3. worker' = [worker EXCEPT ![w] = x]
      BY <2>1, <3>1 DEF live
    <3> HIDE DEF x
    <3> QED
      BY <1>1, <1>2, <3>2, <3>3, WorkerMove
  <2>2. CASE Completing(w, "denied")
    <3> DEFINE x == worker'[w]
    <3>1. /\ x \in Worker /\ worker' = [worker EXCEPT ![w] = x]
          /\ x.at = "complete" /\ x.completion = "denied"
          /\ x.batch = worker[w].batch /\ x.claim = worker[w].claim
      BY <1>1, <2>2, CompletingType DEF Completions, Terminal, WithClaim
    <3> HIDE DEF x
    <3> QED
      BY <1>1, <1>2, <3>1, WorkerMove
  <2>3. CASE Drop(w)
    BY <2>3, DropMove
  <2> QED
    BY <2>1, <2>2, <2>3 DEF Authorize
<1> QED
  BY <1>1, <1>3, StopKept, QuietWorkerStep

LEMMA BeginsType ==
  ASSUME OutboxInv, NEW w \in Workers, LoseBegin(w)
  PROVE  begins' \subseteq Begin
<1>1. worker[w].claim \in Claim
  BY DEF LoseBegin, At, OutboxInv, ClaimInHand, WithClaim
<1>2. BeginOf(w) \in Begin
  BY <1>1 DEF BeginOf, Begin, Claim
<1> QED
  BY <1>2 DEF LoseBegin, OutboxInv, OutboxTypeOK

(* The attempt, the pass or the process ends.                              *)
LEMMA DropKeeps ==
  ASSUME OutboxInv, NEW w \in Workers, BeginUnanswered(w) \/ CompleteFails(w)
  PROVE  OutboxInv'
<1>1. /\ UNCHANGED << rows, tx, pump, sent >> /\ ~At(w, "idle") /\ Drop(w)
      /\ pump \in [Workers -> Pump]
  BY DEF BeginUnanswered, LoseBegin, CompleteFails, At, OutboxInv, OutboxTypeOK
<1>2. begins' \subseteq Begin
  BY BeginsType DEF BeginUnanswered, CompleteFails, OutboxInv, OutboxTypeOK
<1> QED
  BY <1>1, <1>2, DropMove, StopKept, QuietWorkerStep

LEMMA PumpTypes ==
  ASSUME OutboxInv, NEW w \in Workers
  PROVE  /\ pump \in [Workers -> Pump] /\ pump[w] \in Pump
         /\ pump[w].stopDone => pump[w].stopped /\ worker[w].at = "idle"
BY DEF OutboxInv, OutboxTypeOK, StopHolds, At

LEMMA EndsKeeps ==
  ASSUME OutboxInv, NEW w \in Workers, Fire(w) \/ PassEnds(w) \/ Die(w)
  PROVE  OutboxInv'
<1>1. /\ UNCHANGED << rows, tx, sent >> /\ worker \in [Workers -> Worker]
      /\ pump \in [Workers -> Pump] /\ begins \subseteq Begin
  BY DEF Fire, PassEnds, Die, OutboxInv, OutboxTypeOK
<1>2. begins' \subseteq Begin
  BY <1>1, BeginsType DEF Fire, PassEnds, Die
<1>3. /\ worker' \in [Workers -> Worker] /\ ClaimInHand' /\ OneHolder' /\ NoNewSender
      /\ \A y \in Workers \ {w} : worker'[y] = worker[y]
  <2>1. CASE worker' = worker
    BY <1>1, <2>1 DEF OutboxInv, ClaimInHand, OneHolder, TokensOf, ClaimsOf, NoNewSender, Sender
  <2>2. CASE Goto(w, "recover")
    BY <2>2, GotoMove DEF Steps, WithClaim
  <2>3. CASE worker' = [worker EXCEPT ![w] = Idle]
    BY <2>3, IdleMove
  <2> QED
    BY <2>1, <2>2, <2>3 DEF Fire, PassEnds, Die
<1>4. /\ pump' \in [Workers -> Pump] /\ \A y \in Workers \ {w} : pump'[y] = pump[y]
      /\ pump'[w].stopDone => pump'[w].stopped /\ worker'[w].at = "idle"
  <2>1. CASE Fire(w)
    <3>1. /\ pump' \in [Workers -> Pump] /\ \A y \in Workers \ {w} : pump'[y] = pump[y]
          /\ pump'[w].stopDone = pump[w].stopDone /\ pump'[w].stopped = pump[w].stopped
      BY <2>1, PumpTypes DEF Fire, Pump
    <3>2. pump[w].stopped => worker' = worker
      BY <2>1 DEF Fire
    <3> QED
      BY <3>1, <3>2, PumpTypes
  <2>2. CASE PassEnds(w)
    <3> DEFINE timer == ~pump[w].stopped
    <3>1. timer \in BOOLEAN
      OBVIOUS
    <3>2. pump' = [pump EXCEPT ![w].timer = timer] /\ worker[w].at # "idle"
      BY <2>2 DEF PassEnds, At
    <3> HIDE DEF timer
    <3>3. /\ pump' \in [Workers -> Pump] /\ \A y \in Workers \ {w} : pump'[y] = pump[y]
          /\ pump'[w].stopDone = pump[w].stopDone /\ pump'[w].stopped = pump[w].stopped
      BY <3>1, <3>2, PumpTypes DEF Pump
    <3> QED
      BY <3>2, <3>3, PumpTypes
  <2>3. CASE Die(w)
    BY <2>3, PumpTypes DEF Die, Pump, InertPump
  <2> QED
    BY <2>1, <2>2, <2>3
<1>5. StopHolds'
  BY <1>3, <1>4, PumpTypes DEF StopHolds, At
<1> QED
  BY <1>1, <1>2, <1>3, <1>4, <1>5, QuietWorkerStep

LEMMA PumpKeeps ==
  ASSUME OutboxInv, NEW w \in Workers, StartPump(w) \/ Stop(w) \/ StopResolves(w)
  PROVE  OutboxInv'
<1>1. /\ UNCHANGED << rows, tx, worker, begins, sent >> /\ worker \in [Workers -> Worker]
      /\ begins \subseteq Begin
  BY DEF StartPump, Stop, StopResolves, OutboxInv, OutboxTypeOK
<1>2. /\ pump' \in [Workers -> Pump] /\ \A y \in Workers \ {w} : pump'[y] = pump[y]
      /\ pump'[w].stopDone => pump'[w].stopped /\ worker[w].at = "idle"
  <2>1. CASE StartPump(w)
    BY <2>1, PumpTypes DEF StartPump, Pump
  <2>2. CASE Stop(w)
    <3>1. PICK timer \in {FALSE, pump[w].timer} :
            pump' = [pump EXCEPT ![w].stopped = TRUE, ![w].timer = timer]
      BY <2>2 DEF Stop
    <3>2. timer \in BOOLEAN
      BY <3>1, PumpTypes DEF Pump
    <3>3. /\ pump' \in [Workers -> Pump] /\ \A y \in Workers \ {w} : pump'[y] = pump[y]
          /\ pump'[w].stopDone = pump[w].stopDone /\ pump'[w].stopped
      BY <3>1, <3>2, PumpTypes DEF Pump
    <3> QED
      BY <3>3, PumpTypes
  <2>3. CASE StopResolves(w)
    BY <2>3, PumpTypes DEF StopResolves, Pump, At
  <2> QED
    BY <2>1, <2>2, <2>3
<1>3. StopHolds'
  BY <1>1, <1>2, PumpTypes DEF StopHolds, At
<1>4. ClaimInHand' /\ OneHolder' /\ NoNewSender
  BY <1>1 DEF OutboxInv, ClaimInHand, OneHolder, TokensOf, ClaimsOf, NoNewSender, Sender
<1> QED
  BY <1>1, <1>2, <1>3, <1>4, QuietWorkerStep
-----------------------------------------------------------------------------
(* The steps of writers, clocks and late calls                             *)

LEMMA QuietRowsStep ==
  ASSUME OutboxInv, rows' \in [Rows -> Row], OwnedPending', \A r \in Rows : QuietRow(r),
         tx' \in [Transactions -> {"open", "committed", "rolled-back"}], begins' \subseteq Begin,
         worker' = worker, pump' = pump, sent' = sent
  PROVE  OutboxInv'
<1>1. OutboxTypeOK'
  BY DEF OutboxInv, OutboxTypeOK
<1>2. ClaimInHand' /\ OneHolder' /\ NoNewSender /\ StopHolds'
  BY DEF OutboxInv, ClaimInHand, OneHolder, TokensOf, ClaimsOf, NoNewSender, Sender, StopHolds, At
<1>3. SendingOK'
  BY <1>2, QuietStep
<1> QED
  BY <1>1, <1>2, <1>3 DEF OutboxInv

LEMMA RowTypes ==
  ASSUME OutboxInv, NEW r \in Rows
  PROVE  /\ rows \in [Rows -> Row] /\ rows[r] \in Row
         /\ rows[r].owner # None => rows[r].status = "pending"
BY DEF OutboxInv, OutboxTypeOK, OwnedPending

LEMMA NoRowType == NoRow \in Row /\ NoRow.status = "absent" /\ NoRow.token = None /\ NoRow.owner = None
<1>1. 0 \in 0 .. MaxAttempts + 1
  BY OutboxAssumption
<1>2. /\ "absent" \in Statuses /\ None \in Tokens \cup {None} /\ TRUE \in BOOLEAN
      /\ None \in Transactions \cup {None} /\ {} \in SUBSET Workers
  BY DEF Statuses
<1>3. NoRow \in Row
  BY <1>1, <1>2, Zenon DEF NoRow, Row
<1> QED
  BY <1>3 DEF NoRow

LEMMA EnqueueKeeps ==
  ASSUME OutboxInv, NEW r \in Rows, NEW t \in Transactions \cup {None}, Enqueue(r, t)
  PROVE  OutboxInv'
<1> DEFINE new == [NoRow EXCEPT !.status = "pending", !.owner = t]
<1>1. new \in Row /\ new.status = "pending"
  BY NoRowType DEF Row, Statuses
<1>2. /\ rows' = [rows EXCEPT ![r] = new] /\ rows[r].status = "absent"
      /\ UNCHANGED << tx, worker, begins, pump, sent >>
  BY DEF Enqueue
<1> HIDE DEF new
<1>3. /\ rows' \in [Rows -> Row] /\ rows'[r] = new
      /\ \A s \in Rows \ {r} : rows'[s] = rows[s]
  BY <1>1, <1>2, RowTypes
<1>4. OwnedPending'
  BY <1>1, <1>3, RowTypes DEF OwnedPending
<1>5. \A s \in Rows : QuietRow(s)
  BY <1>1, <1>2, <1>3 DEF QuietRow, Unmarked
<1> QED
  BY <1>2, <1>3, <1>4, <1>5, QuietRowsStep DEF OutboxInv, OutboxTypeOK

LEMMA TransactionKeeps ==
  ASSUME OutboxInv, NEW t \in Transactions, Commit(t) \/ Rollback(t)
  PROVE  OutboxInv'
<1>1. /\ UNCHANGED << worker, begins, pump, sent >>
      /\ tx' \in [Transactions -> {"open", "committed", "rolled-back"}] /\ begins \subseteq Begin
  BY DEF Commit, Rollback, OutboxInv, OutboxTypeOK
<1>2. ASSUME NEW r \in Rows
      PROVE  /\ rows'[r] \in Row /\ QuietRow(r)
             /\ rows'[r].owner # None => rows'[r].status = "pending"
  <2>1. CASE rows[r].owner # t
    BY <2>1, RowTypes DEF Commit, Rollback, QuietRow
  <2>2. CASE rows[r].owner = t
    <3>1. rows[r].status = "pending"
      BY <2>2, RowTypes, OutboxAssumption
    <3>2. CASE Commit(t)
      <4>1. rows'[r] = [rows[r] EXCEPT !.owner = None]
        BY <2>2, <3>2 DEF Commit
      <4>2. /\ rows'[r] \in Row /\ rows'[r].status = rows[r].status
            /\ rows'[r].token = rows[r].token /\ rows'[r].owner = None
        BY <4>1, RowTypes DEF Row
      <4> QED
        BY <4>2 DEF QuietRow
    <3>3. CASE Rollback(t)
      BY <2>2, <3>1, <3>3, NoRowType DEF Rollback, QuietRow, Unmarked
    <3> QED
      BY <3>2, <3>3
  <2> QED
    BY <2>1, <2>2
<1>3. rows' \in [Rows -> Row]
  <2>1. rows' = [r \in Rows |-> rows'[r]]
    BY DEF Commit, Rollback
  <2> QED
    BY <1>2, <2>1
<1>4. OwnedPending'
  BY <1>2 DEF OwnedPending
<1> QED
  BY <1>1, <1>2, <1>3, <1>4, QuietRowsStep

LEMMA BackoffKeeps ==
  ASSUME OutboxInv, NEW r \in Rows, BackoffEnds(r)
  PROVE  OutboxInv'
<1> DEFINE x == [rows[r] EXCEPT !.due = TRUE]
<1>1. /\ x \in Row /\ x.status = rows[r].status /\ x.token = rows[r].token
      /\ x.owner = rows[r].owner
  BY RowTypes DEF Row
<1>2. /\ rows' = [rows EXCEPT ![r] = x] /\ UNCHANGED << tx, worker, begins, pump, sent >>
  BY RowTypes DEF BackoffEnds
<1> HIDE DEF x
<1>3. rows' \in [Rows -> Row] /\ OwnedPending' /\ \A s \in Rows : QuietRow(s)
  BY <1>1, <1>2, RowTypes DEF OwnedPending, QuietRow
<1> QED
  BY <1>2, <1>3, QuietRowsStep DEF OutboxInv, OutboxTypeOK

LEMMA MarkedRows ==
  ASSUME OutboxInv, NEW b \in Begin, rows' = Marked(b)
  PROVE  /\ rows' \in [Rows -> Row] /\ OwnedPending' /\ \A r \in Rows : QuietRow(r)
         /\ CanBegin(b) => /\ rows'[b.row].status = "dispatching"
                           /\ rows'[b.row].token = b.token
         /\ \A r \in Rows \ {b.row} : rows'[r] = rows[r]
<1>1. b.row \in Rows
  BY DEF Begin
<1>2. CASE CanBegin(b)
  <2> DEFINE x == [rows[b.row] EXCEPT !.status = "dispatching"]
  <2>1. /\ x \in Row /\ x.status = "dispatching" /\ x.token = rows[b.row].token
        /\ x.owner = rows[b.row].owner
    BY <1>1, RowTypes DEF Row, Statuses
  <2>2. rows' = [rows EXCEPT ![b.row] = x]
    BY <1>1, <1>2, RowTypes DEF Marked
  <2>3. rows[b.row].status = "leased" /\ rows[b.row].token = b.token
    BY <1>2 DEF CanBegin
  <2>4. rows[b.row].owner = None
    BY <1>1, <2>3, RowTypes
  <2> HIDE DEF x
  <2>5. /\ rows' \in [Rows -> Row] /\ rows'[b.row] = x
        /\ \A r \in Rows \ {b.row} : rows'[r] = rows[r]
    BY <1>1, <2>1, <2>2, RowTypes
  <2> QED
    BY <1>1, <2>1, <2>3, <2>4, <2>5, RowTypes DEF OwnedPending, QuietRow, Unmarked
<1>3. CASE ~CanBegin(b)
  BY <1>1, <1>3, RowTypes DEF Marked, OwnedPending, QuietRow
<1> QED
  BY <1>2, <1>3

LEMMA LateBeginKeeps ==
  ASSUME OutboxInv, NEW b \in begins, LateBegin(b)
  PROVE  OutboxInv'
<1>1. /\ b \in Begin /\ begins' \subseteq Begin /\ rows' = Marked(b)
      /\ UNCHANGED << tx, worker, pump, sent >>
  BY DEF LateBegin, OutboxInv, OutboxTypeOK
<1> QED
  BY <1>1, MarkedRows, QuietRowsStep DEF OutboxInv, OutboxTypeOK

(* A lease's end on one clock changes no claim but its `ended`.            *)
LEMMA OverrunType ==
  ASSUME NEW c \in Claim, NEW t
  PROVE  /\ Overrun(c, t) \in Claim /\ Overrun(c, t).row = c.row /\ Overrun(c, t).token = c.token
BY DEF Overrun, Claim

LEMMA LeaseEndsKeeps ==
  ASSUME OutboxInv, NEW w \in Workers, NEW t \in Tokens, LeaseEnds(w, t)
  PROVE  OutboxInv'
<1>1. UNCHANGED << tx, begins, pump, sent >>
  BY DEF LeaseEnds
<1>2. ASSUME NEW r \in Rows
      PROVE  /\ rows'[r] \in Row /\ rows'[r].status = rows[r].status
             /\ rows'[r].token = rows[r].token /\ rows'[r].owner = rows[r].owner
  <2> DEFINE x == [rows[r] EXCEPT !.ended = rows[r].ended \cup {w}]
  <2>1. /\ x \in Row /\ x.status = rows[r].status /\ x.token = rows[r].token
        /\ x.owner = rows[r].owner
    BY RowTypes DEF Row
  <2>2. rows'[r] = IF rows[r].token = t THEN x ELSE rows[r]
    BY DEF LeaseEnds
  <2> HIDE DEF x
  <2> QED
    BY <2>1, <2>2, RowTypes
<1>3. rows' \in [Rows -> Row]
  <2>1. rows' = [r \in Rows |-> rows'[r]]
    BY DEF LeaseEnds
  <2> QED
    BY <1>2, <2>1
<1>4. OwnedPending' /\ \A r \in Rows : QuietRow(r)
  BY <1>2, RowTypes DEF OwnedPending, QuietRow
<1> DEFINE batch == { Overrun(c, t) : c \in worker[w].batch }
           claim == Overrun(worker[w].claim, t)
           x     == [worker[w] EXCEPT !.batch = batch, !.claim = claim]
<1>5. batch \in SUBSET Claim /\ \A d \in batch : \E c \in worker[w].batch : d.token = c.token
  BY WorkerTypes, OverrunType
<1>6. /\ claim \in InHand
      /\ worker[w].claim = None => claim = None
      /\ worker[w].claim \in Claim => /\ claim \in Claim /\ claim.row = worker[w].claim.row
                                      /\ claim.token = worker[w].claim.token
  <2>1. CASE worker[w].claim = None
    <3>1. claim = worker[w].claim
      BY <2>1, Zenon DEF Overrun
    <3> QED
      BY <2>1, <3>1, WorkerTypes
  <2>2. CASE worker[w].claim # None
    <3>1. worker[w].claim \in Claim
      BY <2>2, WorkerTypes DEF InHand
    <3>2. /\ claim \in Claim /\ claim.row = worker[w].claim.row
          /\ claim.token = worker[w].claim.token
      BY <3>1, OverrunType
    <3> QED
      BY <2>2, <3>1, <3>2 DEF InHand
  <2> QED
    BY <2>1, <2>2
<1>7. /\ x \in Worker /\ x.at = worker[w].at /\ x.completion = worker[w].completion
      /\ x.batch = batch /\ x.claim = claim
  <2> HIDE DEF batch, claim
  <2> QED
    BY <1>5, <1>6, WorkerTypes DEF Worker
<1>8. worker' = [worker EXCEPT ![w] = x]
  BY WorkerTypes DEF LeaseEnds
<1> HIDE DEF batch, claim, x
<1>9. /\ worker' \in [Workers -> Worker] /\ worker'[w] = x
      /\ \A y \in Workers \ {w} : worker'[y] = worker[y]
  BY <1>7, <1>8, WorkerTypes
<1>10. ClaimInHand'
  BY <1>6, <1>7, <1>9, WorkerTypes DEF ClaimInHand
<1>11. TokensOf(w)' \subseteq TokensOf(w)
  <2>1. ASSUME NEW d \in ClaimsOf(w)'
        PROVE  \E c \in ClaimsOf(w) : d.token = c.token
    <3>1. CASE d \in batch
      BY <1>5, <3>1 DEF ClaimsOf
    <3>2. CASE d = claim /\ claim # None
      <4>1. worker[w].claim # None /\ worker[w].claim \in Claim
        BY <1>6, <3>2, WorkerTypes DEF InHand
      <4> QED
        BY <1>6, <3>2, <4>1 DEF ClaimsOf
    <3> QED
      BY <1>7, <1>9, <2>1, <3>1, <3>2 DEF ClaimsOf
  <2> QED
    BY <2>1 DEF TokensOf
<1>12. \A y \in Workers \ {w} : TokensOf(y)' = TokensOf(y)
  BY <1>9 DEF TokensOf, ClaimsOf
<1>13. OneHolder'
  BY <1>11, <1>12 DEF OutboxInv, OneHolder
<1>14. NoNewSender
  <2>1. ASSUME Sender(w)'
        PROVE  /\ Sender(w) /\ worker'[w].at = worker[w].at
               /\ worker'[w].completion = worker[w].completion
               /\ worker'[w].claim.row = worker[w].claim.row
               /\ worker'[w].claim.token = worker[w].claim.token
    <3>1. Sender(w) /\ worker[w].at \in WithClaim
      BY <1>7, <1>9, <2>1 DEF Sender, WithClaim
    <3> QED
      BY <1>6, <1>7, <1>9, <3>1, WorkerTypes
  <2>2. ASSUME NEW y \in Workers \ {w}
        PROVE  worker'[y] = worker[y] /\ Sender(y)' = Sender(y)
    BY <1>9 DEF Sender
  <2> QED
    BY <2>1, <2>2 DEF NoNewSender
<1>15. SendingOK'
  BY <1>1, <1>4, <1>14, QuietStep
<1>16. StopHolds'
  BY <1>1, <1>7, <1>9, PumpTypes DEF StopHolds, At
<1>17. OutboxTypeOK'
  BY <1>1, <1>3, <1>9 DEF OutboxInv, OutboxTypeOK
<1> QED
  BY <1>4, <1>10, <1>13, <1>15, <1>16, <1>17 DEF OutboxInv
-----------------------------------------------------------------------------
(* The steps that touch the marker, the effect and the row's end           *)

LEMMA ReleasedType ==
  ASSUME NEW row \in Row, NEW status \in Statuses
  PROVE  /\ Released(row, status) \in Row /\ Released(row, status).status = status
         /\ Released(row, status).token = None /\ Released(row, status).owner = row.owner
BY DEF Released, Row

LEMMA RecoverKeeps ==
  ASSUME OutboxInv, NEW w \in Workers, Recover(w)
  PROVE  OutboxInv'
<1>1. /\ UNCHANGED << tx, begins, pump, sent >> /\ Goto(w, "claim") /\ ~At(w, "idle")
  BY DEF Recover, At
<1>2. PICK B \in Batches(Expired(w)) :
        rows' = [r \in Rows |->
                   IF r \in B
                   THEN Released(rows[r], IF rows[r].status = "leased" THEN "pending" ELSE "uncertain")
                   ELSE rows[r]]
  BY DEF Recover
<1>3. \A r \in B : r \in Rows /\ rows[r].status \in {"leased", "dispatching"}
  BY DEF Batches, Expired
<1>4. ASSUME NEW r \in Rows
      PROVE  /\ rows'[r] \in Row /\ QuietRow(r)
             /\ rows'[r].owner # None => rows'[r].status = "pending"
  <2>1. CASE r \in B
    <3>1. CASE rows[r].status = "leased"
      BY <1>2, <2>1, <3>1, RowTypes, ReleasedType DEF QuietRow, Unmarked, Statuses
    <3>2. CASE rows[r].status = "dispatching"
      BY <1>2, <2>1, <3>2, RowTypes, ReleasedType DEF QuietRow, Unmarked, Statuses, Terminal
    <3> QED
      BY <1>3, <2>1, <3>1, <3>2
  <2>2. CASE r \notin B
    BY <1>2, <2>2, RowTypes DEF QuietRow
  <2> QED
    BY <2>1, <2>2
<1>5. rows' \in [Rows -> Row]
  <2>1. rows' = [r \in Rows |-> rows'[r]]
    BY <1>2
  <2> QED
    BY <1>4, <2>1
<1>6. OwnedPending'
  BY <1>4 DEF OwnedPending
<1>7. /\ worker' \in [Workers -> Worker] /\ ClaimInHand' /\ OneHolder' /\ NoNewSender
      /\ \A y \in Workers \ {w} : worker'[y] = worker[y]
  BY <1>1, GotoMove DEF Steps, WithClaim
<1>8. SendingOK'
  BY <1>1, <1>4, <1>7, QuietStep
<1>9. StopHolds'
  BY <1>1, <1>7, StopKept
<1>10. OutboxTypeOK'
  BY <1>1, <1>5, <1>7 DEF OutboxInv, OutboxTypeOK
<1> QED
  BY <1>6, <1>7, <1>8, <1>9, <1>10 DEF OutboxInv

LEMMA OneMoreType ==
  ASSUME NEW n \in 0 .. MaxAttempts + 1
  PROVE  OneMore(n) \in 0 .. MaxAttempts + 1
BY OutboxAssumption DEF OneMore

(* A claimed row's token was nobody's.                                     *)
LEMMA ClaimReadyKeeps ==
  ASSUME OutboxInv, NEW w \in Workers, ClaimReady(w)
  PROVE  OutboxInv'
<1>1. /\ UNCHANGED << tx, begins, pump, sent >> /\ ~At(w, "idle")
  BY DEF ClaimReady, At
<1>2. PICK B \in Batches(Ready) :
        LET fresh == CHOOSE f \in FreshTokens(B) : TRUE IN
        /\ FreshTokens(B) # {}
        /\ rows' = [r \in Rows |->
                      IF r \in B
                      THEN [rows[r] EXCEPT !.status = "leased", !.token = fresh[r],
                                           !.attempts = OneMore(rows[r].attempts)]
                      ELSE rows[r]]
        /\ worker' = [worker EXCEPT
             ![w] = Looking({ [row |-> r, token |-> fresh[r], ended |-> FALSE,
                               attempts |-> OneMore(rows[r].attempts)] : r \in B })]
  BY DEF ClaimReady
<1> DEFINE fresh == CHOOSE f \in FreshTokens(B) : TRUE
           ClaimOf(r) == [row |-> r, token |-> fresh[r], ended |-> FALSE,
                          attempts |-> OneMore(rows[r].attempts)]
           batch == { ClaimOf(r) : r \in B }
<1>3. /\ B \subseteq Rows /\ fresh \in [B -> Tokens \ HeldTokens]
      /\ \A r \in B : rows[r].status = "pending" /\ rows[r].owner = None
  <2>1. fresh \in FreshTokens(B)
    BY <1>2
  <2> QED
    BY <2>1 DEF FreshTokens, Batches, Ready
<1>4. /\ worker' = [worker EXCEPT ![w] = Looking(batch)]
      /\ \A r \in Rows \ B : rows'[r] = rows[r]
      /\ \A r \in B : rows'[r] = [rows[r] EXCEPT !.status = "leased", !.token = fresh[r],
                                                 !.attempts = OneMore(rows[r].attempts)]
      /\ rows' = [r \in Rows |-> rows'[r]]
  BY <1>2, <1>3
<1> HIDE DEF fresh
<1>5. ASSUME NEW r \in Rows
      PROVE  /\ rows'[r] \in Row /\ QuietRow(r)
             /\ rows'[r].owner # None => rows'[r].status = "pending"
  <2>1. CASE r \in B
    <3>1. /\ fresh[r] \in Tokens \cup {None} /\ rows[r].attempts \in 0 .. MaxAttempts + 1
          /\ rows[r] \in Row
      BY <1>3, <2>1, RowTypes DEF Row
    <3>2. OneMore(rows[r].attempts) \in 0 .. MaxAttempts + 1
      BY <3>1, OneMoreType
    <3>3. rows'[r] \in Row /\ rows'[r].status = "leased" /\ rows'[r].owner = rows[r].owner
      BY <1>4, <2>1, <3>1, <3>2 DEF Row, Statuses
    <3> QED
      BY <1>3, <2>1, <3>3 DEF QuietRow, Unmarked
  <2>2. CASE r \notin B
    BY <1>4, <2>2, RowTypes DEF QuietRow
  <2> QED
    BY <2>1, <2>2
<1>6. rows' \in [Rows -> Row] /\ OwnedPending'
  BY <1>4, <1>5 DEF OwnedPending
<1>7. ASSUME NEW r \in B
      PROVE  ClaimOf(r) \in Claim /\ ClaimOf(r).token \in Tokens \ HeldTokens
  <2>1. /\ r \in Rows /\ fresh[r] \in Tokens \ HeldTokens /\ FALSE \in BOOLEAN
        /\ OneMore(rows[r].attempts) \in 0 .. MaxAttempts + 1
    BY <1>3, RowTypes, OneMoreType DEF Row
  <2>2. fresh[r] \in Tokens
    BY <2>1
  <2>3. ClaimOf(r) \in Claim
    BY <2>1, <2>2, Zenon DEF Claim
  <2> QED
    BY <2>1, <2>3
<1> HIDE DEF ClaimOf
<1>8. batch \in SUBSET Claim /\ \A c \in batch : c.token \notin HeldTokens
  BY <1>7
<1> HIDE DEF batch
<1>9. /\ Looking(batch) \in Worker /\ Looking(batch).at = "next"
      /\ Looking(batch).batch = batch /\ Looking(batch).claim = None
  BY <1>8, LookingType
<1>10. /\ worker' \in [Workers -> Worker] /\ worker'[w].at = "next"
       /\ worker'[w].batch = batch /\ worker'[w].claim = None
       /\ \A y \in Workers \ {w} : worker'[y] = worker[y]
  BY <1>4, <1>9, WorkerTypes
<1>11. ClaimInHand' /\ NoNewSender
  BY <1>10, WorkerTypes DEF ClaimInHand, NoNewSender, Sender, WithClaim
<1>12. OneHolder'
  <2>1. TokensOf(w)' \cap HeldTokens = {}
    BY <1>8, <1>10 DEF TokensOf, ClaimsOf
  <2>2. ASSUME NEW y \in Workers \ {w}
        PROVE  TokensOf(y)' = TokensOf(y) /\ TokensOf(y) \subseteq HeldTokens
    BY <1>10 DEF TokensOf, ClaimsOf, HeldTokens
  <2> QED
    BY <2>1, <2>2 DEF OutboxInv, OneHolder
<1>13. SendingOK'
  BY <1>1, <1>5, <1>11, QuietStep
<1>14. StopHolds'
  BY <1>1, <1>10, StopKept
<1>15. OutboxTypeOK'
  BY <1>1, <1>6, <1>10 DEF OutboxInv, OutboxTypeOK
<1> QED
  BY <1>6, <1>11, <1>12, <1>13, <1>14, <1>15 DEF OutboxInv
LEMMA SenderFacts ==
  ASSUME OutboxInv, NEW w \in Workers, Sender(w)
  PROVE  /\ worker[w].claim \in Claim /\ worker[w].claim.row \in Rows /\ SenderOK(w)
         /\ \A x \in Workers : Sender(x) /\ worker[x].claim.row = worker[w].claim.row => x = w
<1>1. worker[w].claim \in Claim
  BY DEF Sender, OutboxInv, ClaimInHand, WithClaim
<1>2. worker[w].claim.row \in Rows
  BY <1>1 DEF Claim
<1>3. SenderOK(w)
  BY DEF OutboxInv, SendingOK, SendersOK
<1>4. \A x \in Workers : Sender(x) /\ worker[x].claim.row = worker[w].claim.row => x = w
  BY DEF OutboxInv, SendingOK, OneSender
<1> QED
  BY <1>1, <1>2, <1>3, <1>4

(* A step of w whose claims stay: only w may become or cease to be a       *)
(* sender, and only of the row in its hand.                                *)
ClaimKept(w) ==
  /\ worker' \in [Workers -> Worker]
  /\ \A y \in Workers \ {w} : worker'[y] = worker[y]
  /\ worker'[w].claim = worker[w].claim /\ worker'[w].batch = worker[w].batch

LEMMA ClaimKeptMove ==
  ASSUME OutboxInv, NEW w \in Workers, ClaimKept(w), worker[w].at \in WithClaim
  PROVE  ClaimInHand' /\ OneHolder' /\ \A y \in Workers \ {w} : Sender(y)' = Sender(y)
<1>1. ClaimInHand'
  BY WorkerTypes DEF ClaimKept, ClaimInHand
<1>2. \A y \in Workers : TokensOf(y)' = TokensOf(y)
  BY DEF ClaimKept, TokensOf, ClaimsOf
<1>3. OneHolder'
  BY <1>2 DEF OutboxInv, OneHolder
<1>4. \A y \in Workers \ {w} : Sender(y)' = Sender(y)
  BY DEF ClaimKept, Sender
<1> QED
  BY <1>1, <1>3, <1>4

(* Its sender's row may be marked or its count changed as long as no other *)
(* sender has that row.                                                    *)
LEMMA SenderStep ==
  ASSUME OutboxInv, NEW w \in Workers, ClaimKept(w), worker[w].at \in WithClaim,
         NEW r \in Rows, r = worker[w].claim.row,
         \A y \in Workers \ {w} : Sender(y) => worker[y].claim.row # r,
         \A s \in Rows \ {r} : rows'[s] = rows[s] /\ sent'[s] = sent[s],
         rows'[r].status \notin Unmarked, sent'[r] \in {0, 1},
         Sender(w)' => SenderOK(w)'
  PROVE  SendingOK'
<1>1. \A y \in Workers \ {w} : Sender(y)' = Sender(y) /\ worker'[y] = worker[y]
  BY ClaimKeptMove DEF ClaimKept
<1>2. ASSUME NEW y \in Workers \ {w}, Sender(y)'
      PROVE  SenderOK(y)' /\ worker'[y].claim.row # r
  <2>1. /\ Sender(y) /\ worker[y].claim.row \in Rows \ {r} /\ SenderOK(y)
    BY <1>1, <1>2, SenderFacts
  <2>2. HasSent(y)' = HasSent(y)
    BY <1>1 DEF HasSent
  <2> QED
    BY <1>1, <2>1, <2>2 DEF SenderOK
<1>3. SendersOK'
  BY <1>2 DEF SendersOK
<1>4. OneSender'
  <2>1. worker'[w].claim.row = r
    BY DEF ClaimKept
  <2>2. ASSUME NEW x \in Workers \ {w}, NEW y \in Workers \ {w}, Sender(x)', Sender(y)',
               worker'[x].claim.row = worker'[y].claim.row
        PROVE  x = y
    BY <1>1, <2>2 DEF OutboxInv, SendingOK, OneSender
  <2> QED
    BY <1>2, <2>1, <2>2 DEF OneSender
<1>5. UnmarkedUnsent' /\ SentAtMostOnce'
  BY DEF OutboxInv, SendingOK, UnmarkedUnsent, SentAtMostOnce
<1> QED
  BY <1>3, <1>4, <1>5 DEF SendingOK

LEMMA GotoKeepsClaim ==
  ASSUME OutboxInv, NEW w \in Workers, NEW step \in Steps, Goto(w, step)
  PROVE  ClaimKept(w) /\ worker'[w].at = step
<1> DEFINE x == [worker[w] EXCEPT !.at = step]
<1>1. /\ x \in Worker /\ x.at = step /\ x.batch = worker[w].batch /\ x.claim = worker[w].claim
  BY WorkerTypes DEF Worker
<1>2. worker' = [worker EXCEPT ![w] = x]
  BY WorkerTypes DEF Goto
<1> HIDE DEF x
<1> QED
  BY <1>1, <1>2, WorkerTypes DEF ClaimKept

LEMMA CompletingKeepsClaim ==
  ASSUME OutboxInv, NEW w \in Workers, NEW status \in Completions, Completing(w, status),
         worker[w].at \in WithClaim
  PROVE  ClaimKept(w) /\ worker'[w].at = "complete" /\ worker'[w].completion = status
<1> DEFINE x == worker'[w]
<1>1. /\ x \in Worker /\ worker' = [worker EXCEPT ![w] = x]
      /\ x.at = "complete" /\ x.completion = status
      /\ x.batch = worker[w].batch /\ x.claim = worker[w].claim
  BY CompletingType
<1> HIDE DEF x
<1> QED
  BY <1>1, WorkerTypes DEF ClaimKept

LEMMA BeginDispatchKeeps ==
  ASSUME OutboxInv, NEW w \in Workers, BeginDispatch(w)
  PROVE  OutboxInv'
<1> DEFINE b == BeginOf(w)
           r == worker[w].claim.row
<1>1. /\ UNCHANGED << tx, begins, pump, sent >> /\ ~At(w, "idle") /\ worker[w].at = "begin"
      /\ begins \subseteq Begin /\ pump \in [Workers -> Pump]
  BY DEF BeginDispatch, At, OutboxInv, OutboxTypeOK
<1>2. worker[w].at \in WithClaim /\ b \in Begin /\ b.row = r /\ b.token = worker[w].claim.token
      /\ r \in Rows
  BY <1>1, WorkerTypes DEF WithClaim, BeginOf, Begin, Claim
<1> HIDE DEF b
<1>3. CASE worker[w].live /\ CanBegin(b)
  <2>1. rows' = Marked(b) /\ Goto(w, "marked")
    BY <1>3 DEF BeginDispatch, b
  <2>2. /\ rows' \in [Rows -> Row] /\ OwnedPending'
        /\ rows'[r].status = "dispatching" /\ rows'[r].token = worker[w].claim.token
        /\ \A s \in Rows \ {r} : rows'[s] = rows[s]
    BY <1>2, <1>3, <2>1, MarkedRows
  <2>3. ClaimKept(w) /\ worker'[w].at = "marked"
    BY <2>1, GotoKeepsClaim DEF Steps
  <2>4. ClaimInHand' /\ OneHolder'
    BY <1>2, <2>3, ClaimKeptMove
  <2>5. rows[r].status = "leased" /\ sent[r] = 0
    BY <1>2, <1>3 DEF CanBegin, OutboxInv, SendingOK, UnmarkedUnsent, Unmarked
  <2>6. \A y \in Workers \ {w} : Sender(y) => worker[y].claim.row # r
    BY <2>5, SenderFacts DEF SenderOK
  <2>7. SenderOK(w)'
    BY <1>1, <2>2, <2>3, <2>5 DEF SenderOK, HasSent, ClaimKept
  <2>8. SendingOK'
    BY <1>1, <1>2, <2>2, <2>3, <2>5, <2>6, <2>7, SenderStep DEF Unmarked
  <2>9. StopHolds'
    BY <1>1, <2>3, StopKept DEF ClaimKept
  <2>10. OutboxTypeOK'
    BY <1>1, <2>2, <2>3 DEF OutboxInv, OutboxTypeOK, ClaimKept
  <2> QED
    BY <2>2, <2>4, <2>8, <2>9, <2>10 DEF OutboxInv
<1>4. CASE ~(worker[w].live /\ CanBegin(b))
  <2>1. Drop(w) /\ rows' = rows
    BY <1>4 DEF BeginDispatch, b
  <2> QED
    BY <1>1, <2>1, DropMove, StopKept, QuietWorkerStep
<1> QED
  BY <1>3, <1>4

LEMMA StartDispatchKeeps ==
  ASSUME OutboxInv, NEW w \in Workers, StartDispatch(w)
  PROVE  OutboxInv'
<1> DEFINE r == worker[w].claim.row
<1>1. /\ UNCHANGED << rows, tx, begins, pump >> /\ ~At(w, "idle") /\ worker[w].at = "marked"
      /\ begins \subseteq Begin /\ pump \in [Workers -> Pump] /\ sent \in [Rows -> 0 .. 2]
  BY DEF StartDispatch, At, OutboxInv, OutboxTypeOK
<1>2. /\ Sender(w) /\ ~HasSent(w) /\ worker[w].at \in WithClaim
  BY <1>1 DEF Sender, HasSent, WithClaim
<1>3. CASE ~worker[w].claim.ended
  <2>1. Goto(w, "dispatch") /\ sent' = [sent EXCEPT ![r] = IF sent[r] < 2 THEN sent[r] + 1 ELSE sent[r]]
    BY <1>3 DEF StartDispatch
  <2>2. /\ r \in Rows /\ SenderOK(w) /\ sent[r] = 0
        /\ \A y \in Workers \ {w} : Sender(y) => worker[y].claim.row # r
    BY <1>2, SenderFacts DEF SenderOK
  <2>3. sent' = [sent EXCEPT ![r] = 1]
    BY <2>1, <2>2
  <2>4. ClaimKept(w) /\ worker'[w].at = "dispatch"
    BY <2>1, GotoKeepsClaim DEF Steps
  <2>5. ClaimInHand' /\ OneHolder'
    BY <1>2, <2>4, ClaimKeptMove
  <2>6. rows[r].status \in {"dispatching", "uncertain"}
    BY <2>2 DEF SenderOK
  <2>7. /\ sent'[r] = 1 /\ sent' \in [Rows -> 0 .. 2]
        /\ \A s \in Rows \ {r} : sent'[s] = sent[s]
    BY <1>1, <2>2, <2>3
  <2>8. SenderOK(w)'
    BY <1>1, <2>2, <2>4, <2>7 DEF SenderOK, HasSent, ClaimKept
  <2>9. SendingOK'
    BY <1>1, <1>2, <2>2, <2>4, <2>6, <2>7, <2>8, SenderStep DEF Unmarked
  <2>10. StopHolds'
    BY <1>1, <2>4, StopKept DEF ClaimKept
  <2>11. OutboxTypeOK' /\ OwnedPending'
    BY <1>1, <2>4, <2>7 DEF OutboxInv, OutboxTypeOK, OwnedPending, ClaimKept
  <2> QED
    BY <2>5, <2>9, <2>10, <2>11 DEF OutboxInv
<1>4. CASE worker[w].claim.ended
  <2>1. Drop(w) /\ sent' = sent
    BY <1>4 DEF StartDispatch
  <2> QED
    BY <1>1, <2>1, DropMove, StopKept, QuietWorkerStep
<1> QED
  BY <1>3, <1>4

LEMMA DispatchKeeps ==
  ASSUME OutboxInv, NEW w \in Workers, Dispatch(w)
  PROVE  OutboxInv'
<1> DEFINE r == worker[w].claim.row
<1>1. /\ UNCHANGED << rows, tx, begins, pump >> /\ ~At(w, "idle") /\ worker[w].at = "dispatch"
      /\ begins \subseteq Begin /\ pump \in [Workers -> Pump] /\ sent \in [Rows -> 0 .. 2]
  BY DEF Dispatch, At, OutboxInv, OutboxTypeOK
<1>2. /\ Sender(w) /\ HasSent(w) /\ worker[w].at \in WithClaim
  BY <1>1 DEF Sender, HasSent, WithClaim
<1>3. /\ r \in Rows /\ SenderOK(w) /\ sent[r] = 1
      /\ \A y \in Workers \ {w} : Sender(y) => worker[y].claim.row # r
  BY <1>2, SenderFacts DEF SenderOK
<1>4. rows[r].status \in {"dispatching", "uncertain"}
  BY <1>3 DEF SenderOK
<1>5. PICK status \in Completions :
        /\ Completing(w, status)
        /\ \/ status \in {"delivered", "failed", "uncertain"} /\ sent' = sent
           \/ status \in {"pending", "failed"} /\ sent' = [sent EXCEPT ![r] = sent[r] - 1]
  BY DEF Dispatch, Completions, Terminal
<1>6. /\ sent' \in [Rows -> 0 .. 2] /\ sent'[r] \in {0, 1}
      /\ \A s \in Rows \ {r} : sent'[s] = sent[s]
      /\ status = "delivered" => sent'[r] = 1
      /\ status = "pending" => sent'[r] = 0
  BY <1>1, <1>3, <1>5
<1>7. ClaimKept(w) /\ worker'[w].at = "complete" /\ worker'[w].completion = status
  BY <1>2, <1>5, CompletingKeepsClaim
<1>8. ClaimInHand' /\ OneHolder'
  BY <1>2, <1>7, ClaimKeptMove
<1>9. Sender(w)' => SenderOK(w)'
  <2>1. Sender(w)' => status \in {"pending", "delivered"}
    BY <1>7 DEF Sender
  <2>2. HasSent(w)' = (status = "delivered")
    BY <1>7 DEF HasSent
  <2>3. worker'[w].claim = worker[w].claim /\ rows' = rows
    BY <1>1, <1>7 DEF ClaimKept
  <2> QED
    BY <1>3, <1>6, <2>1, <2>2, <2>3 DEF SenderOK
<1>10. SendingOK'
  BY <1>1, <1>2, <1>3, <1>4, <1>6, <1>7, <1>9, SenderStep DEF Unmarked
<1>11. StopHolds'
  BY <1>1, <1>7, StopKept DEF ClaimKept
<1>12. OutboxTypeOK' /\ OwnedPending'
  BY <1>1, <1>6, <1>7 DEF OutboxInv, OutboxTypeOK, OwnedPending, ClaimKept
<1> QED
  BY <1>8, <1>10, <1>11, <1>12 DEF OutboxInv
(* A completion ends its row only under the row's token, which no other    *)
(* worker holds.                                                           *)
LEMMA OtherSendersElsewhere ==
  ASSUME OutboxInv, NEW w \in Workers, NEW y \in Workers \ {w}, worker[w].at = "complete",
         worker[w].completion \in Permitted(rows[worker[w].claim.row].status),
         rows[worker[w].claim.row].token = worker[w].claim.token, Sender(y)
  PROVE  worker[y].claim.row # worker[w].claim.row
<1> SUFFICES ASSUME worker[y].claim.row = worker[w].claim.row PROVE FALSE
  OBVIOUS
<1>1. worker[w].claim \in Claim /\ worker[y].claim \in Claim /\ SenderOK(y)
  BY SenderFacts, WorkerTypes DEF WithClaim
<1>2. worker[w].claim \in ClaimsOf(w) /\ worker[y].claim \in ClaimsOf(y)
  BY <1>1, NoClaimAssumption DEF ClaimsOf
<1>3. rows[worker[w].claim.row].status \in {"leased", "dispatching"}
  BY DEF Permitted
<1>4. worker[y].claim.token = worker[w].claim.token
  BY <1>1, <1>3 DEF SenderOK
<1>5. worker[w].claim.token \in TokensOf(w) /\ worker[y].claim.token \in TokensOf(y)
  BY <1>2 DEF TokensOf
<1> QED
  BY <1>4, <1>5 DEF OutboxInv, OneHolder

(* The row after a completion.                                             *)
Ended(w) ==
  [Released(rows[worker[w].claim.row], worker[w].completion) EXCEPT
     !.due = worker[w].completion # "pending"]

LEMMA CompleteRows ==
  ASSUME OutboxInv, NEW w \in Workers, Complete(w)
  PROVE  /\ worker[w].at = "complete" /\ worker[w].claim.row \in Rows
         /\ \/ rows' = rows
            \/ /\ rows[worker[w].claim.row].token = worker[w].claim.token
               /\ worker[w].completion \in Permitted(rows[worker[w].claim.row].status)
               /\ rows' = [rows EXCEPT ![worker[w].claim.row] = Ended(w)]
<1>1. worker[w].at = "complete" /\ worker[w].claim \in Claim
  BY WorkerTypes DEF Complete, At, WithClaim
<1> QED
  BY <1>1 DEF Complete, Ended, Claim

LEMMA EndedType ==
  ASSUME OutboxInv, NEW w \in Workers, worker[w].claim.row \in Rows,
         worker[w].completion \in Permitted(rows[worker[w].claim.row].status)
  PROVE  /\ Ended(w) \in Row /\ Ended(w).status = worker[w].completion /\ Ended(w).owner = None
         /\ rows[worker[w].claim.row].owner = None
<1> DEFINE row == Released(rows[worker[w].claim.row], worker[w].completion)
           due == worker[w].completion # "pending"
<1>1. /\ rows[worker[w].claim.row].status \in {"leased", "dispatching"}
      /\ worker[w].completion \in Statuses
  BY DEF Permitted, Statuses, Terminal
<1>2. /\ row \in Row /\ row.status = worker[w].completion
      /\ row.owner = rows[worker[w].claim.row].owner
  BY <1>1, RowTypes, ReleasedType
<1>3. rows[worker[w].claim.row].owner = None
  BY <1>1, RowTypes
<1>4. due \in BOOLEAN
  OBVIOUS
<1> HIDE DEF row, due
<1>5. /\ [row EXCEPT !.due = due] \in Row /\ [row EXCEPT !.due = due].status = row.status
      /\ [row EXCEPT !.due = due].owner = row.owner
  BY <1>2, <1>4 DEF Row
<1>6. Ended(w) = [row EXCEPT !.due = due]
  BY DEF Ended, row, due
<1> QED
  BY <1>2, <1>3, <1>5, <1>6

LEMMA CompleteKeeps ==
  ASSUME OutboxInv, NEW w \in Workers, Complete(w)
  PROVE  OutboxInv'
<1> DEFINE r == worker[w].claim.row
<1>1. /\ UNCHANGED << tx, begins, pump, sent >> /\ ~At(w, "idle") /\ Drop(w) /\ r \in Rows
      /\ begins \subseteq Begin /\ pump \in [Workers -> Pump] /\ worker[w].at = "complete"
  BY CompleteRows DEF Complete, At, OutboxInv, OutboxTypeOK
<1>2. /\ worker' \in [Workers -> Worker] /\ ClaimInHand' /\ OneHolder' /\ NoNewSender
      /\ \A y \in Workers \ {w} : worker'[y] = worker[y]
  BY <1>1, DropMove
<1>3. StopHolds'
  BY <1>1, <1>2, StopKept
<1>4. CASE rows' = rows
  BY <1>1, <1>2, <1>3, <1>4, QuietWorkerStep
<1>5. CASE /\ rows[r].token = worker[w].claim.token
           /\ worker[w].completion \in Permitted(rows[r].status)
           /\ rows' = [rows EXCEPT ![r] = Ended(w)]
  <2>1. Ended(w) \in Row /\ Ended(w).status = worker[w].completion /\ Ended(w).owner = None
    BY <1>1, <1>5, EndedType
  <2>2. /\ rows' \in [Rows -> Row] /\ rows'[r] = Ended(w)
        /\ \A s \in Rows \ {r} : rows'[s] = rows[s]
    BY <1>1, <1>5, <2>1, RowTypes
  <2>3. OwnedPending'
    BY <2>1, <2>2, RowTypes DEF OwnedPending
  <2>4. ASSUME NEW y \in Workers, Sender(y)'
        PROVE  /\ SenderOK(y)' /\ y # w
    <3>1. /\ Sender(y) /\ y # w /\ HasSent(y)' = HasSent(y)
          /\ worker'[y].claim = worker[y].claim
      <4>1. worker'[w].at = "next"
        BY <1>1, WorkerTypes, LookingType DEF Drop
      <4>2. y # w
        BY <2>4, <4>1 DEF Sender
      <4> QED
        BY <1>2, <2>4, <4>2 DEF NoNewSender, HasSent
    <3>2. worker[y].claim.row # r
      BY <1>1, <1>5, <3>1, OtherSendersElsewhere
    <3>3. SenderOK(y) /\ worker[y].claim.row \in Rows
      BY <3>1, SenderFacts
    <3> QED
      BY <1>1, <2>2, <3>1, <3>2, <3>3 DEF SenderOK
  <2>5. SendersOK' /\ OneSender'
    BY <1>2, <2>4 DEF SendersOK, OneSender, NoNewSender, OutboxInv, SendingOK
  <2>6. Ended(w).status \in Unmarked => sent[r] = 0
    <3> SUFFICES ASSUME worker[w].completion = "pending" PROVE sent[r] = 0
      BY <1>5, <2>1 DEF Permitted, Unmarked
    <3>1. Sender(w) /\ ~HasSent(w)
      BY <1>1 DEF Sender, HasSent
    <3> QED
      BY <3>1, SenderFacts DEF SenderOK
  <2>7. UnmarkedUnsent' /\ SentAtMostOnce'
    BY <1>1, <2>2, <2>6 DEF OutboxInv, SendingOK, UnmarkedUnsent, SentAtMostOnce
  <2>8. OutboxTypeOK'
    BY <1>1, <1>2, <2>2 DEF OutboxInv, OutboxTypeOK
  <2> QED
    BY <1>2, <1>3, <2>3, <2>5, <2>7, <2>8 DEF OutboxInv, SendingOK
<1> QED
  BY <1>4, <1>5, CompleteRows

-----------------------------------------------------------------------------
(* The invariant holds                                                     *)

LEMMA OutboxInit ==
  ASSUME Init
  PROVE  OutboxInv
<1>1. /\ worker \in [Workers -> Worker] /\ rows \in [Rows -> Row] /\ begins \subseteq Begin
      /\ \A w \in Workers : worker[w] = Idle
      /\ \A r \in Rows : rows[r] = NoRow
  BY IdleType, NoRowType DEF Init
<1>2. /\ pump \in [Workers -> Pump] /\ \A w \in Workers : pump[w] = InertPump
      /\ tx \in [Transactions -> {"open", "committed", "rolled-back"}]
      /\ sent \in [Rows -> 0 .. 2] /\ \A r \in Rows : sent[r] = 0
  BY DEF Init, InertPump, Pump
<1>3. OutboxTypeOK
  BY <1>1, <1>2 DEF OutboxTypeOK
<1>4. \A w \in Workers : worker[w].at = "idle" /\ ClaimsOf(w) = {}
  BY <1>1, IdleType DEF ClaimsOf
<1>5. ClaimInHand /\ OneHolder /\ SendersOK /\ OneSender
  BY <1>4 DEF ClaimInHand, WithClaim, OneHolder, TokensOf, SendersOK, OneSender, Sender
<1>6. OwnedPending /\ UnmarkedUnsent /\ SentAtMostOnce
  BY <1>1, <1>2, NoRowType DEF OwnedPending, UnmarkedUnsent, SentAtMostOnce
<1>7. StopHolds
  BY <1>2 DEF StopHolds, InertPump
<1> QED
  BY <1>3, <1>5, <1>6, <1>7 DEF OutboxInv, SendingOK

LEMMA OutboxStutter ==
  ASSUME OutboxInv, UNCHANGED vars
  PROVE  OutboxInv'
<1>1. /\ rows' \in [Rows -> Row] /\ OwnedPending' /\ \A r \in Rows : QuietRow(r)
      /\ tx' \in [Transactions -> {"open", "committed", "rolled-back"}] /\ begins' \subseteq Begin
      /\ UNCHANGED << worker, pump, sent >>
  BY DEF vars, OutboxInv, OutboxTypeOK, OwnedPending, QuietRow
<1> QED
  BY <1>1, QuietRowsStep

LEMMA OutboxStep ==
  ASSUME OutboxInv, [Next]_vars
  PROVE  OutboxInv'
<1>1. ASSUME NEW r \in Rows, NEW t \in Transactions \cup {None}, Enqueue(r, t)
      PROVE  OutboxInv'
  BY <1>1, EnqueueKeeps
<1>2. ASSUME NEW t \in Transactions, Commit(t) \/ Rollback(t)
      PROVE  OutboxInv'
  BY <1>2, TransactionKeeps
<1>3. ASSUME NEW w \in Workers, NEW t \in Tokens, LeaseEnds(w, t)
      PROVE  OutboxInv'
  BY <1>3, LeaseEndsKeeps
<1>4. ASSUME NEW r \in Rows, BackoffEnds(r)
      PROVE  OutboxInv'
  BY <1>4, BackoffKeeps
<1>5. ASSUME NEW w \in Workers, Recover(w) \/ ClaimReady(w) \/ TakeNext(w) \/ Authorize(w)
      PROVE  OutboxInv'
  BY <1>5, RecoverKeeps, ClaimReadyKeeps, TakeNextKeeps, AuthorizeKeeps
<1>6. ASSUME NEW w \in Workers,
             \/ BeginDispatch(w) \/ BeginUnanswered(w) \/ StartDispatch(w) \/ Dispatch(w)
             \/ Complete(w) \/ CompleteFails(w)
      PROVE  OutboxInv'
  BY <1>6, BeginDispatchKeeps, DropKeeps, StartDispatchKeeps, DispatchKeeps, CompleteKeeps
<1>7. ASSUME NEW w \in Workers,
             StartPump(w) \/ Fire(w) \/ PassEnds(w) \/ StopResolves(w) \/ Die(w) \/ Stop(w)
      PROVE  OutboxInv'
  BY <1>7, PumpKeeps, EndsKeeps
<1>8. ASSUME NEW b \in begins, LateBegin(b)
      PROVE  OutboxInv'
  BY <1>8, LateBeginKeeps
<1>9. CASE UNCHANGED vars
  BY <1>9, OutboxStutter
<1> QED
  BY <1>1, <1>2, <1>3, <1>4, <1>5, <1>6, <1>7, <1>8, <1>9, OutboxAssumption DEF Next

LEMMA OutboxInvariant == Spec => []OutboxInv
<1>1. Init => OutboxInv
  BY OutboxInit
<1>2. OutboxInv /\ [Next]_vars => OutboxInv'
  BY OutboxStep
<1> QED
  BY <1>1, <1>2, PTL DEF Spec

-----------------------------------------------------------------------------
(* The theorems                                                            *)

(* Rows, claims, workers and pumps are always of their types: no worker    *)
(* stores what the ports do not allow (ports.ts:99-134).                   *)
THEOREM OutboxTypeCorrect == Spec => []OutboxTypeOK
<1>1. OutboxInv => OutboxTypeOK
  BY DEF OutboxInv
<1> QED
  BY <1>1, OutboxInvariant, PTL

(* An effect that may have happened is never tried again, for any number   *)
(* of workers, clocks that disagree, lost answers and crashes              *)
(* (worker.ts:380-384).                                                    *)
THEOREM AtMostOnce == Spec => []SentAtMostOnce
<1>1. OutboxInv => SentAtMostOnce
  BY DEF OutboxInv, SendingOK
<1> QED
  BY <1>1, OutboxInvariant, PTL

(* Once stop() has resolved, its worker does nothing any more              *)
(* (drainer.ts:35-67).                                                     *)
THEOREM StopIsFinalAlways == Spec => []StopIsFinal
<1>1. OutboxInv => StopIsFinal
  BY DEF OutboxInv, StopHolds, StopIsFinal
<1> QED
  BY <1>1, OutboxInvariant, PTL

-----------------------------------------------------------------------------
(***************************************************************************)
(* The fenced outbox implements OutboxPromise, for every value of the      *)
(* constants: every step of a writer, a clock, a worker or a pump is a     *)
(* step of the promise or changes nothing it speaks of.                    *)
(***************************************************************************)

(* The refinement mapping, row by row.                                     *)
Intents == [r \in Rows |-> IntentOf(rows[r])]
SameIntent(r) == IntentOf(rows'[r]) = IntentOf(rows[r])

(* Status and owner decide what an intent is.                              *)
LEMMA IntentOfStatus ==
  ASSUME NEW r \in Rows, rows'[r].status = rows[r].status, rows'[r].owner = rows[r].owner
  PROVE  SameIntent(r)
BY DEF SameIntent, IntentOf

(* A claimed or marked row is a queued intent, a row that was written off  *)
(* an unknown one.                                                         *)
LEMMA IntentInWork ==
  ASSUME OutboxInv, NEW r \in Rows
  PROVE  /\ rows[r].status \in {"leased", "dispatching"} => IntentOf(rows[r]) = "queued"
         /\ rows[r].status = "uncertain" => IntentOf(rows[r]) = "unknown"
BY RowTypes DEF IntentOf

-----------------------------------------------------------------------------
(* The steps of the promise                                                *)

LEMMA NothingPromised ==
  ASSUME \A r \in Rows : SameIntent(r), sent' = sent
  PROVE  UNCHANGED Promise!vars
<1>1. Intents' = Intents
  BY DEF Intents, SameIntent
<1> QED
  BY <1>1 DEF Promise!vars, Intents

LEMMA Commits ==
  ASSUME NEW S \in SUBSET Rows, sent' = sent, \A r \in Rows \ S : SameIntent(r),
         \A r \in S : IntentOf(rows[r]) = "absent" /\ IntentOf(rows'[r]) = "queued"
  PROVE  Promise!Commit
<1>1. S \in SUBSET { r \in Rows : Intents[r] = "absent" }
  BY DEF Intents
<1>2. Intents' = [r \in Rows |-> IF r \in S THEN "queued" ELSE Intents[r]]
  BY DEF Intents, SameIntent
<1> QED
  BY <1>1, <1>2 DEF Promise!Commit, Intents

LEMMA WritesOff ==
  ASSUME NEW S \in SUBSET Rows, sent' = sent, \A r \in Rows \ S : SameIntent(r),
         \A r \in S : IntentOf(rows[r]) = "queued" /\ IntentOf(rows'[r]) = "unknown"
  PROVE  Promise!WriteOff
<1>1. S \in SUBSET { r \in Rows : Intents[r] = "queued" }
  BY DEF Intents
<1>2. Intents' = [r \in Rows |-> IF r \in S THEN "unknown" ELSE Intents[r]]
  BY DEF Intents, SameIntent
<1> QED
  BY <1>1, <1>2 DEF Promise!WriteOff, Intents

LEMMA Settles ==
  ASSUME NEW r \in Rows, NEW status, sent' = sent, \A s \in Rows \ {r} : SameIntent(s),
         IntentOf(rows[r]) = "queued", IntentOf(rows'[r]) = status,
         \/ status = "denied" /\ sent[r] = 0
         \/ status = "delivered" /\ sent[r] = 1
         \/ status = "failed"
  PROVE  Promise!Settle(r)
<1>1. Intents[r] = "queued" /\ Intents' = [Intents EXCEPT ![r] = status]
  BY DEF Intents, SameIntent
<1> QED
  BY <1>1 DEF Promise!Settle, Promise!Move, Intents

-----------------------------------------------------------------------------
(* The steps of the outbox                                                 *)

Kept == [Promise!Next]_(Promise!vars)

LEMMA EnqueueRefines ==
  ASSUME OutboxInv, NEW r \in Rows, NEW t \in Transactions \cup {None}, Enqueue(r, t)
  PROVE  Kept
<1> DEFINE new == [NoRow EXCEPT !.status = "pending", !.owner = t]
<1>1. new.status = "pending" /\ new.owner = t
  BY NoRowType DEF NoRow
<1>2. /\ rows' = [rows EXCEPT ![r] = new] /\ rows[r].status = "absent" /\ sent' = sent
  BY DEF Enqueue
<1> HIDE DEF new
<1>3. /\ rows'[r] = new /\ \A s \in Rows \ {r} : SameIntent(s)
      /\ IntentOf(rows[r]) = "absent"
  BY <1>2, RowTypes DEF SameIntent, IntentOf
<1>4. CASE t = None
  <2>1. IntentOf(rows'[r]) = "queued"
    BY <1>1, <1>3, <1>4 DEF IntentOf
  <2> DEFINE S == {r}
  <2>2. /\ S \in SUBSET Rows /\ \A s \in Rows \ S : SameIntent(s)
        /\ \A s \in S : IntentOf(rows[s]) = "absent" /\ IntentOf(rows'[s]) = "queued"
    BY <1>3, <2>1
  <2> HIDE DEF S
  <2>3. Promise!Commit
    BY <1>2, <2>2, Commits
  <2> QED
    BY <2>3 DEF Kept, Promise!Next
<1>5. CASE t # None
  <2>1. SameIntent(r)
    BY <1>1, <1>3, <1>5 DEF SameIntent, IntentOf
  <2> QED
    BY <1>2, <1>3, <2>1, NothingPromised DEF Kept
<1> QED
  BY <1>4, <1>5

LEMMA CommitRefines ==
  ASSUME OutboxInv, NEW t \in Transactions, Commit(t)
  PROVE  Kept
<1> DEFINE S == { r \in Rows : rows[r].owner = t }
<1>1. sent' = sent /\ S \in SUBSET Rows /\ t # None
  BY OutboxAssumption DEF Commit
<1>2. ASSUME NEW r \in S
      PROVE  IntentOf(rows[r]) = "absent" /\ IntentOf(rows'[r]) = "queued"
  <2>1. rows[r].status = "pending" /\ rows[r].owner # None
    BY <1>1, <1>2, RowTypes
  <2>2. rows'[r] = [rows[r] EXCEPT !.owner = None]
    BY <1>2 DEF Commit
  <2>3. rows'[r].status = "pending" /\ rows'[r].owner = None
    BY <1>2, <2>1, <2>2, RowTypes DEF Row
  <2> QED
    BY <2>1, <2>3 DEF IntentOf
<1>3. \A r \in Rows \ S : SameIntent(r)
  BY DEF Commit, SameIntent
<1> HIDE DEF S
<1>4. Promise!Commit
  BY <1>1, <1>2, <1>3, Commits
<1> QED
  BY <1>4 DEF Kept, Promise!Next

LEMMA RollbackRefines ==
  ASSUME OutboxInv, NEW t \in Transactions, Rollback(t)
  PROVE  Kept
<1>1. ASSUME NEW r \in Rows
      PROVE  SameIntent(r)
  <2>1. CASE rows[r].owner = t
    <3>1. rows[r].owner # None /\ rows'[r].status = "absent"
      BY <2>1, OutboxAssumption, NoRowType DEF Rollback
    <3> QED
      BY <3>1 DEF SameIntent, IntentOf
  <2>2. CASE rows[r].owner # t
    BY <2>2 DEF Rollback, SameIntent
  <2> QED
    BY <2>1, <2>2
<1> QED
  BY <1>1, NothingPromised DEF Rollback, Kept

(* Steps that leave every row's status and owner alone.                    *)
LEMMA QuietRefines ==
  ASSUME OutboxInv, sent' = sent,
         \A r \in Rows : rows'[r].status = rows[r].status /\ rows'[r].owner = rows[r].owner
  PROVE  Kept
BY IntentOfStatus, NothingPromised DEF Kept

LEMMA ClockRefines ==
  ASSUME OutboxInv,
         \/ \E w \in Workers, t \in Tokens : LeaseEnds(w, t)
         \/ \E r \in Rows : BackoffEnds(r)
  PROVE  Kept
<1>1. ASSUME NEW w \in Workers, NEW t \in Tokens, LeaseEnds(w, t), NEW r \in Rows
      PROVE  rows'[r].status = rows[r].status /\ rows'[r].owner = rows[r].owner
  <2> DEFINE x == [rows[r] EXCEPT !.ended = rows[r].ended \cup {w}]
  <2>1. x.status = rows[r].status /\ x.owner = rows[r].owner
    BY RowTypes DEF Row
  <2>2. rows'[r] = IF rows[r].token = t THEN x ELSE rows[r]
    BY <1>1 DEF LeaseEnds
  <2> HIDE DEF x
  <2> QED
    BY <2>1, <2>2
<1>2. ASSUME NEW r \in Rows, BackoffEnds(r), NEW s \in Rows
      PROVE  rows'[s].status = rows[s].status /\ rows'[s].owner = rows[s].owner
  BY <1>2, RowTypes DEF BackoffEnds, Row
<1>3. sent' = sent
  BY DEF LeaseEnds, BackoffEnds
<1> QED
  BY <1>1, <1>2, <1>3, QuietRefines

LEMMA RecoverRefines ==
  ASSUME OutboxInv, NEW w \in Workers, Recover(w)
  PROVE  Kept
<1>1. PICK B \in Batches(Expired(w)) :
        rows' = [r \in Rows |->
                   IF r \in B
                   THEN Released(rows[r], IF rows[r].status = "leased" THEN "pending" ELSE "uncertain")
                   ELSE rows[r]]
  BY DEF Recover
<1>2. \A r \in B : r \in Rows /\ rows[r].status \in {"leased", "dispatching"}
  BY DEF Batches, Expired
<1> DEFINE S == { r \in B : rows[r].status = "dispatching" }
<1>3. \A r \in S : IntentOf(rows[r]) = "queued" /\ IntentOf(rows'[r]) = "unknown"
  <2> SUFFICES ASSUME NEW r \in S
               PROVE  IntentOf(rows[r]) = "queued" /\ IntentOf(rows'[r]) = "unknown"
    OBVIOUS
  <2>1. r \in Rows /\ rows[r].status = "dispatching" /\ rows[r].owner = None
    BY <1>2, RowTypes
  <2>2. rows'[r] = Released(rows[r], "uncertain")
    BY <1>1, <2>1
  <2>3. rows'[r].status = "uncertain" /\ rows'[r].owner = None
    BY <2>1, <2>2, RowTypes, ReleasedType DEF Statuses, Terminal
  <2> QED
    BY <2>1, <2>3 DEF IntentOf
<1>4. \A r \in Rows \ S : SameIntent(r)
  <2> SUFFICES ASSUME NEW r \in Rows, r \notin S
               PROVE  SameIntent(r)
    OBVIOUS
  <2>1. CASE r \notin B
    BY <1>1, <2>1 DEF SameIntent
  <2>2. CASE r \in B
    <3>1. rows[r].status = "leased" /\ rows[r].owner = None
      BY <1>2, <2>2, RowTypes
    <3>2. rows'[r] = Released(rows[r], "pending")
      BY <1>1, <2>2, <3>1
    <3>3. rows'[r].status = "pending" /\ rows'[r].owner = None
      BY <3>1, <3>2, RowTypes, ReleasedType DEF Statuses
    <3> QED
      BY <3>1, <3>3 DEF SameIntent, IntentOf
  <2> QED
    BY <2>1, <2>2
<1>5. sent' = sent /\ S \in SUBSET Rows
  BY <1>2 DEF Recover
<1> HIDE DEF S
<1>6. Promise!WriteOff
  BY <1>3, <1>4, <1>5, WritesOff
<1> QED
  BY <1>6 DEF Kept, Promise!Next

LEMMA ClaimReadyRefines ==
  ASSUME OutboxInv, NEW w \in Workers, ClaimReady(w)
  PROVE  Kept
<1>1. PICK B \in Batches(Ready) :
        LET fresh == CHOOSE f \in FreshTokens(B) : TRUE IN
        rows' = [r \in Rows |->
                   IF r \in B
                   THEN [rows[r] EXCEPT !.status = "leased", !.token = fresh[r],
                                        !.attempts = OneMore(rows[r].attempts)]
                   ELSE rows[r]]
  BY DEF ClaimReady
<1> DEFINE fresh == CHOOSE f \in FreshTokens(B) : TRUE
<1>2. ASSUME NEW r \in Rows
      PROVE  SameIntent(r)
  <2>1. CASE r \notin B
    BY <1>1, <2>1 DEF SameIntent
  <2>2. CASE r \in B
    <3> DEFINE x == [rows[r] EXCEPT !.status = "leased", !.token = fresh[r],
                                    !.attempts = OneMore(rows[r].attempts)]
    <3>1. rows[r].status = "pending" /\ rows[r].owner = None
      BY <2>2 DEF Batches, Ready
    <3>2. rows'[r] = x
      BY <1>1, <2>2
    <3>3. x.status = "leased" /\ x.owner = rows[r].owner
      <4> HIDE DEF fresh
      <4> QED
        BY RowTypes, Zenon DEF Row
    <3> HIDE DEF x
    <3> QED
      BY <3>1, <3>2, <3>3 DEF SameIntent, IntentOf
  <2> QED
    BY <2>1, <2>2
<1> QED
  BY <1>2, NothingPromised DEF ClaimReady, Kept

(* The marker is set on a claimed row.                                     *)
LEMMA MarkRefines ==
  ASSUME OutboxInv, NEW b \in Begin, rows' = Marked(b), sent' = sent
  PROVE  Kept
<1>1. b.row \in Rows
  BY DEF Begin
<1>2. \A r \in Rows \ {b.row} : SameIntent(r)
  BY MarkedRows DEF SameIntent
<1>3. SameIntent(b.row)
  <2>1. CASE CanBegin(b)
    <3>1. rows[b.row].status = "leased" /\ rows[b.row].owner = None
      BY <1>1, <2>1, RowTypes DEF CanBegin
    <3>2. rows'[b.row].status = "dispatching" /\ rows'[b.row].owner = rows[b.row].owner
      BY <1>1, <2>1, RowTypes DEF Marked, Row
    <3> QED
      BY <3>1, <3>2 DEF SameIntent, IntentOf
  <2>2. CASE ~CanBegin(b)
    BY <2>2 DEF Marked, SameIntent
  <2> QED
    BY <2>1, <2>2
<1> QED
  BY <1>1, <1>2, <1>3, NothingPromised DEF Kept

LEMMA BeginRefines ==
  ASSUME OutboxInv, NEW w \in Workers, BeginDispatch(w)
  PROVE  Kept
<1>1. CASE rows' = Marked(BeginOf(w))
  <2>1. worker[w].claim \in Claim
    BY WorkerTypes DEF BeginDispatch, At, WithClaim
  <2>2. BeginOf(w) \in Begin
    BY <2>1 DEF BeginOf, Begin, Claim
  <2> QED
    BY <1>1, <2>2, MarkRefines DEF BeginDispatch
<1>2. CASE rows' = rows
  BY <1>2, QuietRefines DEF BeginDispatch
<1> QED
  BY <1>1, <1>2 DEF BeginDispatch

(* A sender's row is queued or written off.                                *)
LEMMA SenderIntent ==
  ASSUME OutboxInv, NEW w \in Workers, Sender(w)
  PROVE  /\ worker[w].claim.row \in Rows
         /\ Intents[worker[w].claim.row] \in {"queued", "unknown"}
BY SenderFacts, IntentInWork DEF SenderOK, Intents

LEMMA StartDispatchRefines ==
  ASSUME OutboxInv, NEW w \in Workers, StartDispatch(w)
  PROVE  Kept
<1> DEFINE r == worker[w].claim.row
<1>1. rows' = rows /\ worker[w].at = "marked"
  BY DEF StartDispatch, At
<1>2. Sender(w) /\ ~HasSent(w)
  BY <1>1 DEF Sender, HasSent
<1>3. r \in Rows /\ sent[r] = 0 /\ Intents[r] \in {"queued", "unknown"}
  BY <1>2, SenderFacts, SenderIntent DEF SenderOK
<1>4. CASE sent' = [sent EXCEPT ![r] = IF @ < 2 THEN @ + 1 ELSE @]
  <2>1. sent' = [sent EXCEPT ![r] = 1]
    BY <1>3, <1>4 DEF OutboxInv, OutboxTypeOK
  <2>2. Promise!Send(r)
    BY <1>1, <1>3, <2>1 DEF Promise!Send, Intents
  <2> QED
    BY <1>3, <2>2 DEF Kept, Promise!Next
<1>5. CASE sent' = sent
  BY <1>1, <1>5, QuietRefines
<1> QED
  BY <1>4, <1>5 DEF StartDispatch

LEMMA DispatchRefines ==
  ASSUME OutboxInv, NEW w \in Workers, Dispatch(w)
  PROVE  Kept
<1> DEFINE r == worker[w].claim.row
<1>1. rows' = rows /\ worker[w].at = "dispatch"
  BY DEF Dispatch, At
<1>2. Sender(w) /\ HasSent(w)
  BY <1>1 DEF Sender, HasSent
<1>3. r \in Rows /\ sent[r] = 1 /\ Intents[r] \in {"queued", "unknown"}
  BY <1>2, SenderFacts, SenderIntent DEF SenderOK
<1>4. CASE sent' = [sent EXCEPT ![r] = @ - 1]
  <2>1. sent' = [sent EXCEPT ![r] = 0]
    BY <1>3, <1>4 DEF OutboxInv, OutboxTypeOK
  <2>2. Promise!NoEffect(r)
    BY <1>1, <1>3, <2>1 DEF Promise!NoEffect, Intents
  <2> QED
    BY <1>3, <2>2 DEF Kept, Promise!Next
<1>5. CASE sent' = sent
  BY <1>1, <1>5, QuietRefines
<1> QED
  BY <1>4, <1>5 DEF Dispatch

(* A completion settles its intent, writes it off, or queues it again; the *)
(* completions that claim an effect or its absence come from senders.      *)
LEMMA CompleteRefines ==
  ASSUME OutboxInv, NEW w \in Workers, Complete(w)
  PROVE  Kept
<1> DEFINE r == worker[w].claim.row
           status == worker[w].completion
<1>1. sent' = sent /\ worker[w].at = "complete" /\ r \in Rows
  BY CompleteRows DEF Complete
<1>2. CASE rows' = rows
  BY <1>1, <1>2, QuietRefines
<1>3. CASE /\ rows[r].token = worker[w].claim.token
           /\ status \in Permitted(rows[r].status)
           /\ rows' = [rows EXCEPT ![r] = Ended(w)]
  <2>1. Ended(w).status = status /\ Ended(w).owner = None
    BY <1>1, <1>3, EndedType
  <2>2. /\ rows'[r] = Ended(w) /\ \A s \in Rows \ {r} : SameIntent(s)
    BY <1>1, <1>3, RowTypes DEF SameIntent
  <2>3. /\ rows[r].status \in {"leased", "dispatching"}
        /\ status \in {"denied", "failed", "uncertain", "delivered", "pending"}
        /\ status = "denied" => rows[r].status = "leased"
    BY <1>3 DEF Permitted
  <2>4. IntentOf(rows[r]) = "queued"
    BY <1>1, <2>3, IntentInWork
  <2>5. CASE status = "uncertain"
    <3> DEFINE S == {r}
    <3>1. /\ S \in SUBSET Rows /\ \A s \in Rows \ S : SameIntent(s)
          /\ \A s \in S : IntentOf(rows[s]) = "queued" /\ IntentOf(rows'[s]) = "unknown"
      BY <1>1, <2>1, <2>2, <2>4, <2>5 DEF IntentOf
    <3> HIDE DEF S
    <3>2. Promise!WriteOff
      BY <1>1, <3>1, WritesOff
    <3> QED
      BY <3>2 DEF Kept, Promise!Next
  <2>6. CASE status = "pending"
    <3>1. SameIntent(r)
      BY <2>1, <2>2, <2>4, <2>6 DEF SameIntent, IntentOf
    <3> QED
      BY <1>1, <2>2, <3>1, NothingPromised DEF Kept
  <2>7. CASE status \in {"denied", "failed", "delivered"}
    <3>1. IntentOf(rows'[r]) = status
      BY <2>1, <2>2, <2>7 DEF IntentOf
    <3>2. status = "denied" => sent[r] = 0
      BY <1>1, <2>3 DEF OutboxInv, SendingOK, UnmarkedUnsent, Unmarked
    <3>3. status = "delivered" => sent[r] = 1
      <4> SUFFICES ASSUME status = "delivered" PROVE sent[r] = 1
        OBVIOUS
      <4>1. Sender(w) /\ HasSent(w)
        BY <1>1 DEF Sender, HasSent
      <4> QED
        BY <4>1, SenderFacts DEF SenderOK
    <3>4. Promise!Settle(r)
      BY <1>1, <2>2, <2>4, <2>7, <3>1, <3>2, <3>3, Settles
    <3> QED
      BY <1>1, <3>4 DEF Kept, Promise!Next
  <2> QED
    BY <2>3, <2>5, <2>6, <2>7
<1> QED
  BY <1>2, <1>3, CompleteRows

-----------------------------------------------------------------------------
LEMMA StepRefines ==
  ASSUME OutboxInv, [Next]_vars
  PROVE  Kept
<1>1. ASSUME NEW r \in Rows, NEW t \in Transactions \cup {None}, Enqueue(r, t)
      PROVE  Kept
  BY <1>1, EnqueueRefines
<1>2. ASSUME NEW t \in Transactions, Commit(t) \/ Rollback(t)
      PROVE  Kept
  BY <1>2, CommitRefines, RollbackRefines
<1>3. ASSUME NEW w \in Workers, NEW t \in Tokens, LeaseEnds(w, t)
      PROVE  Kept
  BY <1>3, ClockRefines
<1>4. ASSUME NEW r \in Rows, BackoffEnds(r)
      PROVE  Kept
  BY <1>4, ClockRefines
<1>5. ASSUME NEW w \in Workers,
             \/ Recover(w) \/ ClaimReady(w) \/ BeginDispatch(w) \/ StartDispatch(w)
             \/ Dispatch(w) \/ Complete(w)
      PROVE  Kept
  BY <1>5, RecoverRefines, ClaimReadyRefines, BeginRefines, StartDispatchRefines,
     DispatchRefines, CompleteRefines
<1>6. ASSUME NEW w \in Workers,
             \/ TakeNext(w) \/ Authorize(w) \/ BeginUnanswered(w) \/ CompleteFails(w)
             \/ StartPump(w) \/ Fire(w) \/ PassEnds(w) \/ StopResolves(w) \/ Die(w) \/ Stop(w)
      PROVE  Kept
  <2>1. UNCHANGED << rows, sent >>
    BY <1>6 DEF TakeNext, Authorize, BeginUnanswered, CompleteFails, StartPump, Fire, PassEnds,
                StopResolves, Die, Stop
  <2> QED
    BY <2>1, QuietRefines
<1>7. ASSUME NEW b \in begins, LateBegin(b)
      PROVE  Kept
  <2>1. b \in Begin
    BY DEF OutboxInv, OutboxTypeOK
  <2> QED
    BY <1>7, <2>1, MarkRefines DEF LateBegin
<1>8. CASE UNCHANGED vars
  BY <1>8, QuietRefines DEF vars
<1> QED
  BY <1>1, <1>2, <1>3, <1>4, <1>5, <1>6, <1>7, <1>8, OutboxAssumption DEF Next

(* The outbox keeps its promise to every intent: committed before it is    *)
(* sent, tried again only after a confirmed absence of effects, settled    *)
(* once and truthfully (worker.ts:378-384, ports.ts:94-116).               *)
THEOREM OutboxKeepsPromise == Spec => KeepsPromise
<1>1. Init => Promise!Init
  <2> SUFFICES ASSUME Init PROVE Promise!Init
    OBVIOUS
  <2>1. \A r \in Rows : IntentOf(rows[r]) = "absent"
    BY NoRowType DEF Init, IntentOf
  <2> QED
    BY <2>1 DEF Init, Promise!Init
<1>2. OutboxInv /\ [Next]_vars => [Promise!Next]_(Promise!vars)
  BY StepRefines DEF Kept
<1> QED
  BY <1>1, <1>2, OutboxInvariant, PTL DEF Spec, KeepsPromise, Promise!SafeSpec
=============================================================================
