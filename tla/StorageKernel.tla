--------------------------- MODULE StorageKernel ---------------------------
(***************************************************************************)
(* The kernels of db/src/kernel/kernel-core.ts over better-sqlite3: every  *)
(* kernel is one connection, the connections to one file share a turn      *)
(* lock, and a call chain (an async context) nests run(), transaction()    *)
(* and backupTo() calls on them.                                           *)
(*                                                                         *)
(* stack[c] holds the calls chain c is inside of, innermost last.  A call  *)
(* waits in the queue ("queued"), has its turn but has not run on yet      *)
(* ("granted": the await of acquire() resumes in a later microtask), or is *)
(* in its body ("body").  `via` says how it came to its body: by a turn of *)
(* its own, through the scope of an enclosing call of the same kernel, or  *)
(* by joining a transaction that legacy code opened on the connection.     *)
(***************************************************************************)
EXTENDS TurnLock, FiniteSets

CONSTANTS Kernels,    \* kernels, one connection each
          Files,      \* database files
          FileOf,     \* [Kernels -> Files]
          Legacy,     \* kernels on whose connection legacy code opens transactions
          MaxDepth,   \* bound: [Chains -> Nat], nested calls of a chain
          MaxCalls    \* bound: calls a chain makes between its outermost call and its return

ASSUME KernelsAssumption ==
  /\ IsFiniteSet(Chains)
  /\ FileOf \in [Kernels -> Files]
  /\ Legacy \subseteq Kernels
  /\ MaxDepth \in [Chains -> Nat] /\ MaxCalls \in Nat

VARIABLES locks,      \* [Files -> Lock]
          stack,      \* [Chains -> Seq(Frame)]
          foreign,    \* kernels whose connection has a transaction legacy code opened
          calls       \* calls each chain entered since its outermost one, for MaxCalls

vars == << locks, stack, foreign, calls >>

Calls == {"run", "transaction", "owned", "backup"}
Frame == [kernel : Kernels, call : Calls, via : {"turn", "scope", "foreign"},
          at : {"queued", "granted", "body"}]

(* An owned transaction is a transaction() that may not join anything.     *)
IsTransaction(frame) == frame.call \in {"transaction", "owned"}

KindOf(call) == IF call = "run" THEN "shared" ELSE "exclusive"

Top(c) == stack[c][Len(stack[c])]

(* The innermost call moves on, or returns.                                *)
TopAt(s, at) == [s EXCEPT ![Len(s)].at = at]
Pop(s) == SubSeq(s, 1, Len(s) - 1)

(* The scope an async context carries for a kernel: set by a run() that    *)
(* took a turn and by every transaction that is not nested in another.     *)
SetsScope(frame) == frame.at = "body" /\ \/ frame.call = "run" /\ frame.via = "turn"
                                         \/ IsTransaction(frame) /\ frame.via # "scope"
ScopeFrames(c, k) == { i \in 1 .. Len(stack[c]) : stack[c][i].kernel = k /\ SetsScope(stack[c][i]) }
InScope(c, k)       == ScopeFrames(c, k) # {}
InTransaction(c, k) == \E i \in ScopeFrames(c, k) : IsTransaction(stack[c][i])

(* heldLocks: the files whose turn the chain's bodies hold.                *)
HoldsLock(c, f) ==
  \E i \in 1 .. Len(stack[c]) : /\ stack[c][i].via = "turn" /\ stack[c][i].at = "body"
                                /\ FileOf[stack[c][i].kernel] = f

(* ownTransactions > 0: a transaction this kernel began is open.           *)
OwnOpen(k) ==
  \E c \in Chains : \E i \in 1 .. Len(stack[c]) :
    /\ stack[c][i].kernel = k /\ stack[c][i].via = "turn" /\ stack[c][i].at = "body"
    /\ IsTransaction(stack[c][i])

JoinsForeign(k) == ~OwnOpen(k) /\ k \in foreign

-----------------------------------------------------------------------------
Init ==
  /\ locks = [f \in Files |-> FreeLock]
  /\ stack = [c \in Chains |-> <<>>]
  /\ foreign = {}
  /\ calls = [c \in Chains |-> 0]

(* Between calls, or inside a body.                                        *)
CanCall(c) ==
  /\ stack[c] # <<>> => Top(c).at = "body"
  /\ Len(stack[c]) < MaxDepth[c] /\ calls[c] < MaxCalls

Push(c, frame) ==
  /\ stack' = [stack EXCEPT ![c] = Append(stack[c], frame)]
  /\ calls' = [calls EXCEPT ![c] = calls[c] + 1]
  /\ UNCHANGED foreign

(* The call reaches its body without a turn of its own.                    *)
PassThrough(c, k, call, via) ==
  /\ Push(c, [kernel |-> k, call |-> call, via |-> via, at |-> "body"])
  /\ UNCHANGED locks

(* The call throws before anything happened; its caller goes on.           *)
Refuse(c) == UNCHANGED vars

(* Variant: a chain that holds the file's turn queues up behind itself.    *)
TakingTurnBlindly(c, k, call) ==
  LET l == locks[FileOf[k]] IN
  /\ locks' = [locks EXCEPT ![FileOf[k]] = Acquire(l, c, KindOf(call))]
  /\ Push(c, [kernel |-> k, call |-> call, via |-> "turn",
              at |-> IF TakesAtOnce(l, KindOf(call)) THEN "granted" ELSE "queued"])

(* takingTurn(): waiting for a turn this chain holds through another       *)
(* connection would never end, so that throws.                             *)
TakingTurn(c, k, call) ==
  LET l == locks[FileOf[k]] IN
  IF HoldsLock(c, FileOf[k]) THEN Refuse(c)
  ELSE /\ locks' = [locks EXCEPT ![FileOf[k]] = Acquire(l, c, KindOf(call))]
       /\ Push(c, [kernel |-> k, call |-> call, via |-> "turn",
                   at |-> IF TakesAtOnce(l, KindOf(call)) THEN "granted" ELSE "queued"])

Run(c, k) ==
  /\ CanCall(c)
  /\ IF InScope(c, k) THEN PassThrough(c, k, "run", "scope")
     ELSE IF JoinsForeign(k) THEN PassThrough(c, k, "run", "foreign")
     ELSE TakingTurn(c, k, "run")

Transaction(c, k) ==
  /\ CanCall(c)
  /\ IF InTransaction(c, k) THEN PassThrough(c, k, "transaction", "scope")
     ELSE IF InScope(c, k) THEN Refuse(c)
     ELSE IF JoinsForeign(k) THEN PassThrough(c, k, "transaction", "foreign")
     ELSE TakingTurn(c, k, "transaction")

(* assertOwnedAvailable(), before the wait for a turn and again after it.  *)
OwnedAvailable(c, k) == ~InScope(c, k) /\ ~JoinsForeign(k)

OwnedTransaction(c, k) ==
  /\ CanCall(c)
  /\ IF OwnedAvailable(c, k) THEN TakingTurn(c, k, "owned") ELSE Refuse(c)

BackupTo(c, k) ==
  /\ CanCall(c)
  /\ IF InTransaction(c, k) THEN Refuse(c) ELSE TakingTurn(c, k, "backup")

-----------------------------------------------------------------------------
(* The top call of c leaves with its turn, which release() passes on.      *)
Leave(c) ==
  LET f == FileOf[Top(c).kernel]
      l == GiveBack(locks[f], KindOf(Top(c).call)) IN
  /\ locks' = [locks EXCEPT ![f] = Release(locks[f], KindOf(Top(c).call))]
  /\ stack' = [d \in Chains |->
                 IF d = c THEN Pop(stack[d])
                 ELSE IF d \in GrantedChains(l) THEN TopAt(stack[d], "granted")
                 ELSE stack[d]]
  /\ calls' = [calls EXCEPT ![c] = IF Len(stack[c]) = 1 THEN 0 ELSE calls[c]]
  /\ UNCHANGED foreign

(* BEGIN IMMEDIATE fails inside a transaction that is open on the same     *)
(* connection, and while another connection to the file is writing.        *)
FileBusy(k) == \E j \in foreign : FileOf[j] = FileOf[k]

(* Variant: a call that fails before its body returns without a release.   *)
StartLeaking(c) ==
  /\ stack[c] # <<>> /\ Top(c).at = "granted"
  /\ IF IsTransaction(Top(c)) /\ FileBusy(Top(c).kernel)
     THEN /\ stack' = [stack EXCEPT ![c] = Pop(stack[c])]
          /\ UNCHANGED << locks, foreign, calls >>
     ELSE /\ stack' = [stack EXCEPT ![c] = TopAt(stack[c], "body")]
          /\ UNCHANGED << locks, foreign, calls >>

(* The wait for the turn is over: the call goes on to its body.            *)
Start(c) ==
  /\ stack[c] # <<>> /\ Top(c).at = "granted"
  /\ LET k == Top(c).kernel IN
     IF \/ Top(c).call = "owned" /\ ~OwnedAvailable(c, k)
        \/ IsTransaction(Top(c)) /\ FileBusy(k)
     THEN Leave(c)
     ELSE /\ stack' = [stack EXCEPT ![c] = TopAt(stack[c], "body")]
          /\ UNCHANGED << locks, foreign, calls >>

(* The body settles: commit or rollback, then the turn is released.        *)
End(c) ==
  /\ stack[c] # <<>> /\ Top(c).at = "body"
  /\ IF Top(c).via = "turn" THEN Leave(c)
     ELSE /\ stack' = [stack EXCEPT ![c] = Pop(stack[c])]
          /\ calls' = [calls EXCEPT ![c] = IF Len(stack[c]) = 1 THEN 0 ELSE calls[c]]
          /\ UNCHANGED << locks, foreign >>

-----------------------------------------------------------------------------
(* Legacy code opens and ends transactions on a connection without turns;  *)
(* SQLite lets it only while nobody writes to the file.                    *)
ForeignBegin(k) ==
  /\ ~FileBusy(k) /\ \A j \in Kernels : FileOf[j] = FileOf[k] => ~OwnOpen(j)
  /\ foreign' = foreign \cup {k}
  /\ UNCHANGED << locks, stack, calls >>

ForeignEnd(k) ==
  /\ k \in foreign
  /\ foreign' = foreign \ {k}
  /\ UNCHANGED << locks, stack, calls >>

Next ==
  \/ \E c \in Chains, k \in Kernels :
       Run(c, k) \/ Transaction(c, k) \/ OwnedTransaction(c, k) \/ BackupTo(c, k)
  \/ \E c \in Chains : Start(c) \/ End(c)
  \/ \E k \in Legacy : ForeignBegin(k) \/ ForeignEnd(k)

(* A promise that is resolved runs on, and every body settles.             *)
Fairness == \A c \in Chains : WF_vars(Start(c)) /\ WF_vars(End(c))

Spec == Init /\ [][Next]_vars /\ Fairness

-----------------------------------------------------------------------------
KernelTypeOK ==
  /\ locks \in [Files -> Lock]
  /\ stack \in [Chains -> Seq(Frame)]
  /\ foreign \subseteq Legacy
  /\ calls \in [Chains -> Nat]

(* The chains that have a turn of a file out, of one kind.                 *)
HasTurn(c, f, kind) ==
  \E i \in 1 .. Len(stack[c]) :
    /\ stack[c][i].via = "turn" /\ stack[c][i].at # "queued"
    /\ FileOf[stack[c][i].kernel] = f /\ KindOf(stack[c][i].call) = kind
TurnHolders(f, kind) == { c \in Chains : HasTurn(c, f, kind) }

(* The lock's reason to exist: while a transaction or a backup has its     *)
(* turn of a file, no other chain's run() body, transaction or backup has  *)
(* one, whatever connection it uses.                                       *)
TurnsExclude ==
  \A f \in Files : \A c \in TurnHolders(f, "exclusive") :
    TurnHolders(f, "exclusive") \cup TurnHolders(f, "shared") = {c}

(* No turn is lost or counted twice, on any way out of a call: the lock's  *)
(* counters are what the chains hold.                                      *)
LockCountsTurns ==
  \A f \in Files :
    /\ locks[f].shared = Cardinality(TurnHolders(f, "shared"))
    /\ locks[f].exclusive = (TurnHolders(f, "exclusive") # {})

(* No lost grant: the chain at the head of a queue waits for somebody,     *)
(* and the queue is exactly the calls that wait.                           *)
NoLostGrant ==
  \A f \in Files :
    /\ locks[f].waiting # <<>> => ~Fits(locks[f], locks[f].waiting[1].kind)
    /\ \A c \in Chains :
         (\E i \in 1 .. Len(locks[f].waiting) : locks[f].waiting[i].chain = c)
           <=> (stack[c] # <<>> /\ Top(c).at = "queued" /\ FileOf[Top(c).kernel] = f)

(* First come, first served (turn-lock.ts:8): whoever gets a turn gets it  *)
(* no earlier than everyone who queued before.                             *)
QueuedBefore(c, f) ==
  LET q == locks[f].waiting IN
  { q[i].chain : i \in { j \in 1 .. Len(q) : \A h \in 1 .. j : q[h].chain # c } }
HasAnyTurn(c, f) == \E kind \in Kinds : HasTurn(c, f, kind)
NoOvertaking ==
  [][\A f \in Files, c \in Chains :
       HasAnyTurn(c, f)' /\ ~HasAnyTurn(c, f)
         => \A d \in QueuedBefore(c, f) : HasAnyTurn(d, f)']_vars

(* Nobody starves and no chain waits for itself: a queued call gets its    *)
(* turn.                                                                   *)
Queued(c) == stack[c] # <<>> /\ Top(c).at = "queued"
EveryTurnComes == \A c \in Chains : Queued(c) ~> ~Queued(c)

(* kernel-core.ts:47-49: while a legacy transaction is open, kernel calls  *)
(* join it "instead of failing on a nested `BEGIN`".                       *)
BeginWouldNest(c) == /\ stack[c] # <<>> /\ Top(c).at = "granted" /\ Top(c).call = "transaction"
                     /\ Top(c).kernel \in foreign
NoNestedBegin ==
  [][\A c \in Chains : BeginWouldNest(c) => Len(stack'[c]) >= Len(stack[c])]_vars
=============================================================================
