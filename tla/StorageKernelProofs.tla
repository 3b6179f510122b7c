------------------------ MODULE StorageKernelProofs ------------------------
(***************************************************************************)
(* Theorems about the kernels and their turn locks, for every set of call  *)
(* chains, kernels and files and every depth of nesting.                   *)
(***************************************************************************)
EXTENDS StorageKernel, TurnLockProofs

-----------------------------------------------------------------------------
(* The inductive invariant                                                 *)

(* What the calls a chain is inside of hold and wait for.                  *)
TurnIn(s, f, kind) ==
  \E i \in 1 .. Len(s) : /\ s[i].via = "turn" /\ s[i].at # "queued"
                         /\ FileOf[s[i].kernel] = f /\ KindOf(s[i].call) = kind
WaitsIn(s, f, kind) ==
  /\ s # <<>> /\ s[Len(s)].at = "queued"
  /\ FileOf[s[Len(s)].kernel] = f /\ KindOf(s[Len(s)].call) = kind

(* Only the innermost call has not reached its body, and only for a turn   *)
(* of its own; a chain takes one turn of a file at most.                   *)
StackOK(s) ==
  /\ \A i \in 1 .. Len(s) : s[i].at # "body" => i = Len(s) /\ s[i].via = "turn"
  /\ \A i, j \in 1 .. Len(s) :
       s[i].via = "turn" /\ s[j].via = "turn" /\ FileOf[s[i].kernel] = FileOf[s[j].kernel]
         => i = j

Waiting(f) == { w \in Waiter : WaitsIn(stack[w.chain], f, w.kind) }

(* The lock of a file is what the stacks say.                              *)
FileInv(f) ==
  /\ HeldIs(locks[f], TurnHolders(f, "shared"), TurnHolders(f, "exclusive"))
  /\ QueueIs(locks[f], TurnHolders(f, "shared"), TurnHolders(f, "exclusive"), Waiting(f))
  /\ HeadBlocked(locks[f])

KernelInv ==
  /\ KernelTypeOK
  /\ \A c \in Chains : StackOK(stack[c])
  /\ \A f \in Files : FileInv(f)

(* NoOvertaking, of one step.                                              *)
NobodyOvertakes ==
  \A f \in Files, c \in Chains :
    HasAnyTurn(c, f)' /\ ~HasAnyTurn(c, f) => \A d \in QueuedBefore(c, f) : HasAnyTurn(d, f)'

-----------------------------------------------------------------------------
(* What the steps do to one stack                                          *)

SameTurns(s, t) ==
  \A f \in Files, kind \in Kinds :
    (TurnIn(t, f, kind) <=> TurnIn(s, f, kind)) /\ (WaitsIn(t, f, kind) <=> WaitsIn(s, f, kind))

InBody(s) == s # <<>> => s[Len(s)].at = "body"

LEMMA FrameFields ==
  ASSUME NEW frame \in Frame
  PROVE  /\ frame.kernel \in Kernels /\ FileOf[frame.kernel] \in Files
         /\ frame.call \in Calls /\ KindOf(frame.call) \in Kinds
         /\ frame.via \in {"turn", "scope", "foreign"} /\ frame.at \in {"queued", "granted", "body"}
BY KernelsAssumption DEF Frame, KindOf, Kinds

LEMMA StackLen ==
  ASSUME NEW s \in Seq(Frame)
  PROVE  /\ Len(s) \in Nat /\ (s # <<>> <=> Len(s) >= 1)
         /\ s # <<>> => Len(s) \in 1 .. Len(s) /\ s[Len(s)] \in Frame
         /\ \A i \in 1 .. Len(s) : s[i] \in Frame
<1>1. Len(s) \in Nat /\ (s # <<>> <=> Len(s) >= 1)
  BY LenProperties, EmptySeq
<1>2. \A i \in 1 .. Len(s) : s[i] \in Frame
  BY ElementOfSeq
<1> QED
  BY <1>1, <1>2

(* Entering a call without a turn.                                         *)
LEMMA PushFree ==
  ASSUME NEW s \in Seq(Frame), StackOK(s), InBody(s),
         NEW frame \in Frame, frame.at = "body", frame.via # "turn"
  PROVE  /\ Append(s, frame) \in Seq(Frame) /\ StackOK(Append(s, frame))
         /\ SameTurns(s, Append(s, frame))
<1> DEFINE t == Append(s, frame)
<1>1. Len(s) \in Nat /\ (s # <<>> => Len(s) \in 1 .. Len(s))
  BY StackLen
<1>2. /\ t \in Seq(Frame) /\ t # <<>> /\ Len(t) = Len(s) + 1
      /\ \A i \in 1 .. Len(s) : t[i] = s[i]
      /\ t[Len(s) + 1] = frame
  BY AppendProperties
<1> HIDE DEF t
<1>3. \A i \in 1 .. Len(t) : i \in 1 .. Len(s) \/ i = Len(s) + 1
  BY <1>1, <1>2
<1>4. \A i \in 1 .. Len(s) : i \in 1 .. Len(t)
  BY <1>1, <1>2
<1>5. \A i \in 1 .. Len(s) : s[i].at = "body"
  BY <1>1, StackLen DEF StackOK, InBody
<1>6. StackOK(t)
  BY <1>2, <1>3, <1>5 DEF StackOK
<1>7. ASSUME NEW f \in Files, NEW kind \in Kinds
      PROVE  /\ TurnIn(t, f, kind) <=> TurnIn(s, f, kind)
             /\ WaitsIn(t, f, kind) <=> WaitsIn(s, f, kind)
  <2>1. TurnIn(t, f, kind) <=> TurnIn(s, f, kind)
    BY <1>2, <1>3, <1>4 DEF TurnIn
  <2>2. ~WaitsIn(t, f, kind) /\ ~WaitsIn(s, f, kind)
    BY <1>2 DEF WaitsIn, InBody
  <2> QED
    BY <2>1, <2>2
<1> QED
  BY <1>2, <1>6, <1>7 DEF SameTurns, t

(* Entering a call that asks for a turn of a file the chain has none of.   *)
LEMMA PushTurn ==
  ASSUME NEW s \in Seq(Frame), StackOK(s), InBody(s),
         NEW frame \in Frame, frame.at # "body", frame.via = "turn",
         \A i \in 1 .. Len(s) :
           ~(s[i].via = "turn" /\ s[i].at = "body" /\ FileOf[s[i].kernel] = FileOf[frame.kernel])
  PROVE  /\ Append(s, frame) \in Seq(Frame) /\ StackOK(Append(s, frame))
         /\ \A f \in Files, kind \in Kinds :
              LET asks == f = FileOf[frame.kernel] /\ kind = KindOf(frame.call) IN
              /\ TurnIn(Append(s, frame), f, kind)
                   <=> TurnIn(s, f, kind) \/ (frame.at = "granted" /\ asks)
              /\ WaitsIn(Append(s, frame), f, kind) <=> frame.at = "queued" /\ asks
              /\ ~WaitsIn(s, f, kind)
         /\ \A kind \in Kinds : ~TurnIn(s, FileOf[frame.kernel], kind)
<1> DEFINE t == Append(s, frame)
<1>1. Len(s) \in Nat /\ (s # <<>> => Len(s) \in 1 .. Len(s))
  BY StackLen
<1>2. /\ t \in Seq(Frame) /\ t # <<>> /\ Len(t) = Len(s) + 1
      /\ \A i \in 1 .. Len(s) : t[i] = s[i]
      /\ t[Len(s) + 1] = frame
  BY AppendProperties
<1> HIDE DEF t
<1>3. \A i \in 1 .. Len(t) : i \in 1 .. Len(s) \/ i = Len(s) + 1
  BY <1>1, <1>2
<1>4. (\A i \in 1 .. Len(s) : i \in 1 .. Len(t)) /\ Len(s) + 1 \in 1 .. Len(t)
  BY <1>1, <1>2
<1>5. \A i \in 1 .. Len(s) :
        /\ s[i].at = "body"
        /\ ~(s[i].via = "turn" /\ FileOf[s[i].kernel] = FileOf[frame.kernel])
  BY <1>1, StackLen DEF StackOK, InBody
<1>6. StackOK(t)
  BY <1>2, <1>3, <1>5 DEF StackOK
<1>7. frame.at \in {"queued", "granted"}
  BY FrameFields
<1>8. ASSUME NEW f \in Files, NEW kind \in Kinds
      PROVE  LET asks == f = FileOf[frame.kernel] /\ kind = KindOf(frame.call) IN
             /\ TurnIn(t, f, kind) <=> TurnIn(s, f, kind) \/ (frame.at = "granted" /\ asks)
             /\ WaitsIn(t, f, kind) <=> frame.at = "queued" /\ asks
             /\ ~WaitsIn(s, f, kind)
  <2>1. TurnIn(t, f, kind) <=> \/ TurnIn(s, f, kind)
                               \/ /\ frame.at = "granted"
                                  /\ f = FileOf[frame.kernel] /\ kind = KindOf(frame.call)
    BY <1>2, <1>3, <1>4, <1>7 DEF TurnIn
  <2>2. WaitsIn(t, f, kind) <=> /\ frame.at = "queued"
                                /\ f = FileOf[frame.kernel] /\ kind = KindOf(frame.call)
    BY <1>2 DEF WaitsIn
  <2>3. ~WaitsIn(s, f, kind)
    BY DEF WaitsIn, InBody
  <2> QED
    BY <2>1, <2>2, <2>3
<1>9. \A kind \in Kinds : ~TurnIn(s, FileOf[frame.kernel], kind)
  BY <1>5 DEF TurnIn
<1> QED
  BY <1>2, <1>6, <1>8, <1>9 DEF t

(* The innermost call moves on.                                            *)
LEMMA TopAtElements ==
  ASSUME NEW s \in Seq(Frame), s # <<>>, NEW at \in {"granted", "body"}
  PROVE  /\ TopAt(s, at) \in Seq(Frame) /\ TopAt(s, at) # <<>> /\ Len(TopAt(s, at)) = Len(s)
         /\ \A i \in 1 .. Len(s) :
              /\ TopAt(s, at)[i].kernel = s[i].kernel
              /\ TopAt(s, at)[i].call = s[i].call
              /\ TopAt(s, at)[i].via = s[i].via
              /\ TopAt(s, at)[i].at = IF i = Len(s) THEN at ELSE s[i].at
<1> DEFINE n == Len(s)
           e == [s[n] EXCEPT !.at = at]
<1>1. n \in 1 .. Len(s) /\ s[n] \in Frame /\ Len(s) >= 1
  BY StackLen
<1>2. /\ e \in Frame /\ e.kernel = s[n].kernel /\ e.call = s[n].call /\ e.via = s[n].via
      /\ e.at = at
  BY <1>1 DEF Frame
<1>3. TopAt(s, at) = [s EXCEPT ![n] = e]
  BY DEF TopAt
<1> HIDE DEF e, n
<1>4. /\ TopAt(s, at) \in Seq(Frame) /\ Len(TopAt(s, at)) = Len(s)
      /\ \A i \in 1 .. Len(s) : TopAt(s, at)[i] = IF i = n THEN e ELSE s[i]
  BY <1>1, <1>2, <1>3, ExceptSeq
<1>5. TopAt(s, at) # <<>>
  BY <1>1, <1>4, EmptySeq
<1> QED
  BY <1>2, <1>4, <1>5 DEF n

LEMMA TopToBody ==
  ASSUME NEW s \in Seq(Frame), StackOK(s), s # <<>>, s[Len(s)].at = "granted"
  PROVE  /\ TopAt(s, "body") \in Seq(Frame) /\ StackOK(TopAt(s, "body"))
         /\ SameTurns(s, TopAt(s, "body"))
<1> DEFINE t == TopAt(s, "body")
<1>1. /\ t \in Seq(Frame) /\ t # <<>> /\ Len(t) = Len(s)
      /\ \A i \in 1 .. Len(s) :
           /\ t[i].kernel = s[i].kernel /\ t[i].call = s[i].call /\ t[i].via = s[i].via
           /\ t[i].at = IF i = Len(s) THEN "body" ELSE s[i].at
  BY TopAtElements
<1> HIDE DEF t
<1>2. Len(s) \in 1 .. Len(s)
  BY StackLen
<1>3. StackOK(t)
  BY <1>1 DEF StackOK
<1>4. ASSUME NEW f \in Files, NEW kind \in Kinds
      PROVE  /\ TurnIn(t, f, kind) <=> TurnIn(s, f, kind)
             /\ WaitsIn(t, f, kind) <=> WaitsIn(s, f, kind)
  <2>1. \A i \in 1 .. Len(s) : t[i].at # "queued" <=> s[i].at # "queued"
    BY <1>1
  <2>2. TurnIn(t, f, kind) <=> TurnIn(s, f, kind)
    BY <1>1, <2>1 DEF TurnIn
  <2>3. ~WaitsIn(t, f, kind) /\ ~WaitsIn(s, f, kind)
    BY <1>1, <1>2 DEF WaitsIn
  <2> QED
    BY <2>2, <2>3
<1> QED
  BY <1>1, <1>3, <1>4 DEF SameTurns, t

LEMMA TopGranted ==
  ASSUME NEW s \in Seq(Frame), StackOK(s), s # <<>>, s[Len(s)].at = "queued"
  PROVE  /\ TopAt(s, "granted") \in Seq(Frame) /\ StackOK(TopAt(s, "granted"))
         /\ \A f \in Files, kind \in Kinds :
              /\ TurnIn(TopAt(s, "granted"), f, kind) <=> TurnIn(s, f, kind) \/ WaitsIn(s, f, kind)
              /\ ~WaitsIn(TopAt(s, "granted"), f, kind)
<1> DEFINE t == TopAt(s, "granted")
<1>1. /\ t \in Seq(Frame) /\ t # <<>> /\ Len(t) = Len(s)
      /\ \A i \in 1 .. Len(s) :
           /\ t[i].kernel = s[i].kernel /\ t[i].call = s[i].call /\ t[i].via = s[i].via
           /\ t[i].at = IF i = Len(s) THEN "granted" ELSE s[i].at
  BY TopAtElements
<1> HIDE DEF t
<1>2. Len(s) \in 1 .. Len(s) /\ s[Len(s)].via = "turn"
  BY StackLen DEF StackOK
<1>3. StackOK(t)
  BY <1>1, <1>2 DEF StackOK
<1>4. ASSUME NEW f \in Files, NEW kind \in Kinds
      PROVE  /\ TurnIn(t, f, kind) <=> TurnIn(s, f, kind) \/ WaitsIn(s, f, kind)
             /\ ~WaitsIn(t, f, kind)
  <2>1. \A i \in 1 .. Len(s) : t[i].at # "queued" <=> s[i].at # "queued" \/ i = Len(s)
    BY <1>1
  <2>2. TurnIn(t, f, kind) <=> TurnIn(s, f, kind) \/ WaitsIn(s, f, kind)
    BY <1>1, <1>2, <2>1 DEF TurnIn, WaitsIn
  <2>3. ~WaitsIn(t, f, kind)
    BY <1>1, <1>2 DEF WaitsIn
  <2> QED
    BY <2>2, <2>3
<1> QED
  BY <1>1, <1>3, <1>4 DEF t

(* The innermost call returns.                                             *)
LEMMA PopElements ==
  ASSUME NEW s \in Seq(Frame), s # <<>>
  PROVE  /\ Pop(s) \in Seq(Frame) /\ Len(Pop(s)) = Len(s) - 1
         /\ \A i \in 1 .. Len(s) - 1 : Pop(s)[i] = s[i]
<1>1. Len(s) \in Nat /\ Len(s) >= 1 /\ \A i \in 1 .. Len(s) : s[i] \in Frame
  BY StackLen
<1>2. \A i \in 1 .. Len(s) - 1 : s[i] \in Frame
  BY <1>1
<1>3. /\ SubSeq(s, 1, Len(s) - 1) \in Seq(Frame)
      /\ Len(SubSeq(s, 1, Len(s) - 1)) = IF 1 <= Len(s) - 1 THEN (Len(s) - 1) - 1 + 1 ELSE 0
      /\ \A i \in 1 .. (Len(s) - 1) - 1 + 1 : SubSeq(s, 1, Len(s) - 1)[i] = s[1 + i - 1]
  BY <1>1, <1>2, SubSeqProperties
<1>4. (Len(s) - 1) - 1 + 1 = Len(s) - 1 /\ \A i \in 1 .. Len(s) - 1 : 1 + i - 1 = i
  BY <1>1
<1>5. Len(SubSeq(s, 1, Len(s) - 1)) = Len(s) - 1
  <2> DEFINE m == Len(s) - 1
             k == Len(SubSeq(s, 1, Len(s) - 1))
  <2>1. m \in Nat /\ k = IF 1 <= m THEN m - 1 + 1 ELSE 0
    BY <1>1, <1>3
  <2> HIDE DEF m, k
  <2>2. k = m
    BY <2>1
  <2> QED
    BY <2>2 DEF k, m
<1>6. \A i \in 1 .. Len(s) - 1 : SubSeq(s, 1, Len(s) - 1)[i] = s[i]
  BY <1>3, <1>4
<1> QED
  BY <1>3, <1>5, <1>6 DEF Pop

LEMMA PopOK ==
  ASSUME NEW s \in Seq(Frame), StackOK(s), s # <<>>, s[Len(s)].at # "queued"
  PROVE  /\ Pop(s) \in Seq(Frame) /\ StackOK(Pop(s))
         /\ \A f \in Files, kind \in Kinds : ~WaitsIn(s, f, kind) /\ ~WaitsIn(Pop(s), f, kind)
         /\ s[Len(s)].via # "turn" => SameTurns(s, Pop(s))
         /\ s[Len(s)].via = "turn" =>
              \A f \in Files, kind \in Kinds :
                /\ TurnIn(Pop(s), f, kind)
                     <=> TurnIn(s, f, kind) /\ f # FileOf[s[Len(s)].kernel]
                /\ TurnIn(s, FileOf[s[Len(s)].kernel], kind) <=> kind = KindOf(s[Len(s)].call)
<1> DEFINE t == Pop(s)
           n == Len(s)
<1>1. n \in Nat /\ n \in 1 .. n /\ n \in 1 .. Len(s)
  BY StackLen
<1>2. /\ t \in Seq(Frame) /\ Len(t) = n - 1
      /\ \A i \in 1 .. n - 1 : t[i] = s[i]
  BY PopElements
<1> HIDE DEF t
<1>3. \A i \in 1 .. n : i \in 1 .. n - 1 \/ i = n
  BY <1>1
<1>4. \A i \in 1 .. n - 1 : i \in 1 .. n /\ i # n
  BY <1>1
<1>5. \A i \in 1 .. n - 1 : t[i].at = "body"
  BY <1>2, <1>4 DEF StackOK
<1>6. StackOK(t)
  <2>1. ASSUME NEW i \in 1 .. n - 1, NEW j \in 1 .. n - 1, t[i].via = "turn", t[j].via = "turn",
               FileOf[t[i].kernel] = FileOf[t[j].kernel]
        PROVE  i = j
    <3>1. i \in 1 .. Len(s) /\ j \in 1 .. Len(s) /\ t[i] = s[i] /\ t[j] = s[j]
      BY <1>2, <1>4
    <3> QED
      BY <2>1, <3>1 DEF StackOK
  <2> QED
    BY <1>2, <1>5, <2>1 DEF StackOK
<1>7. ASSUME NEW f \in Files, NEW kind \in Kinds
      PROVE  ~WaitsIn(s, f, kind) /\ ~WaitsIn(t, f, kind)
  <2>1. t # <<>> => Len(t) \in 1 .. n - 1
    BY <1>2, StackLen
  <2> QED
    BY <1>5, <2>1 DEF WaitsIn
<1>8. ASSUME s[n].via # "turn", NEW f \in Files, NEW kind \in Kinds
      PROVE  TurnIn(t, f, kind) <=> TurnIn(s, f, kind)
  BY <1>2, <1>3, <1>4, <1>8 DEF TurnIn
<1>9. ASSUME s[n].via = "turn", NEW f \in Files, NEW kind \in Kinds
      PROVE  /\ TurnIn(t, f, kind) <=> TurnIn(s, f, kind) /\ f # FileOf[s[n].kernel]
             /\ TurnIn(s, FileOf[s[n].kernel], kind) <=> kind = KindOf(s[n].call)
  <2>1. \A i \in 1 .. n : s[i].via = "turn" /\ FileOf[s[i].kernel] = FileOf[s[n].kernel] => i = n
    BY <1>1, <1>9 DEF StackOK
  <2>2. TurnIn(s, FileOf[s[n].kernel], kind) <=> kind = KindOf(s[n].call)
    BY <1>1, <1>9, <2>1 DEF TurnIn
  <2>3. TurnIn(t, f, kind) => TurnIn(s, f, kind) /\ f # FileOf[s[n].kernel]
    BY <1>2, <1>4, <2>1 DEF TurnIn
  <2>4. TurnIn(s, f, kind) /\ f # FileOf[s[n].kernel] => TurnIn(t, f, kind)
    BY <1>2, <1>3 DEF TurnIn
  <2> QED
    BY <2>2, <2>3, <2>4
<1> QED
  BY <1>2, <1>6, <1>7, <1>8, <1>9 DEF SameTurns, t

-----------------------------------------------------------------------------
(* Steps of the kernels                                                    *)

LEMMA HoldersAreTurns ==
  ASSUME NEW f, NEW kind
  PROVE  /\ TurnHolders(f, kind) = { c \in Chains : TurnIn(stack[c], f, kind) }
         /\ \A c \in Chains : HasTurn(c, f, kind) <=> TurnIn(stack[c], f, kind)
BY DEF TurnHolders, HasTurn, TurnIn

LEMMA HoldersAreTurnsNext ==
  ASSUME NEW f, NEW kind
  PROVE  /\ TurnHolders(f, kind)' = { c \in Chains : TurnIn(stack'[c], f, kind) }
         /\ \A c \in Chains : HasTurn(c, f, kind)' <=> TurnIn(stack'[c], f, kind)
         /\ Waiting(f)' = { w \in Waiter : WaitsIn(stack'[w.chain], f, w.kind) }
BY DEF TurnHolders, HasTurn, TurnIn, Waiting, WaitsIn

(* The chains that gain a turn of one kind.                                *)
LEMMA HoldersSame ==
  ASSUME NEW f, NEW kind,
         \A c \in Chains : TurnIn(stack'[c], f, kind) <=> TurnIn(stack[c], f, kind)
  PROVE  TurnHolders(f, kind)' = TurnHolders(f, kind)
<1>1. TurnHolders(f, kind) = { c \in Chains : TurnIn(stack[c], f, kind) }
  BY HoldersAreTurns
<1>2. TurnHolders(f, kind)' = { c \in Chains : TurnIn(stack'[c], f, kind) }
  BY HoldersAreTurnsNext
<1> QED
  BY <1>1, <1>2

LEMMA HoldersGain ==
  ASSUME NEW f, NEW kind, NEW e \in Chains,
         \A c \in Chains : TurnIn(stack'[c], f, kind) <=> TurnIn(stack[c], f, kind) \/ c = e
  PROVE  TurnHolders(f, kind)' = TurnHolders(f, kind) \cup {e}
<1>1. TurnHolders(f, kind) = { c \in Chains : TurnIn(stack[c], f, kind) }
  BY HoldersAreTurns
<1>2. TurnHolders(f, kind)' = { c \in Chains : TurnIn(stack'[c], f, kind) }
  BY HoldersAreTurnsNext
<1> QED
  BY <1>1, <1>2

(* A file whose lock and whose turns stay as they were.                    *)
LEMMA QuietFile ==
  ASSUME NEW f \in Files, FileInv(f), locks'[f] = locks[f],
         \A c \in Chains, kind \in Kinds :
           /\ TurnIn(stack'[c], f, kind) <=> TurnIn(stack[c], f, kind)
           /\ WaitsIn(stack'[c], f, kind) <=> WaitsIn(stack[c], f, kind)
  PROVE  FileInv(f)' /\ \A c \in Chains : HasAnyTurn(c, f)' <=> HasAnyTurn(c, f)
<1>1. /\ TurnHolders(f, "shared")' = TurnHolders(f, "shared")
      /\ TurnHolders(f, "exclusive")' = TurnHolders(f, "exclusive")
  <2>1. ASSUME NEW kind \in Kinds PROVE TurnHolders(f, kind)' = TurnHolders(f, kind)
    BY HoldersSame
  <2> QED
    BY <2>1 DEF Kinds
<1>2. Waiting(f)' = Waiting(f)
  BY HoldersAreTurnsNext DEF Waiting, Waiter
<1>3. \A c \in Chains : HasAnyTurn(c, f)' <=> HasAnyTurn(c, f)
  BY HoldersAreTurns, HoldersAreTurnsNext DEF HasAnyTurn
<1>4. FileInv(f)'
  BY <1>1, <1>2 DEF FileInv
<1> QED
  BY <1>3, <1>4

(* A step that leaves the locks and the turns alone.                       *)
LEMMA QuietStep ==
  ASSUME KernelInv, locks' = locks, KernelTypeOK',
         \A c \in Chains : StackOK(stack'[c]) /\ SameTurns(stack[c], stack'[c])
  PROVE  KernelInv' /\ NobodyOvertakes
<1>1. ASSUME NEW f \in Files
      PROVE  FileInv(f)' /\ \A c \in Chains : HasAnyTurn(c, f)' <=> HasAnyTurn(c, f)
  <2>1. FileInv(f) /\ locks'[f] = locks[f]
    BY DEF KernelInv
  <2>2. \A c \in Chains, kind \in Kinds :
           /\ TurnIn(stack'[c], f, kind) <=> TurnIn(stack[c], f, kind)
           /\ WaitsIn(stack'[c], f, kind) <=> WaitsIn(stack[c], f, kind)
    BY DEF SameTurns
  <2> QED
    BY <2>1, <2>2, QuietFile
<1>2. \A c \in Chains : StackOK(stack[c])'
  BY DEF StackOK
<1>3. KernelInv'
  BY <1>1, <1>2 DEF KernelInv
<1> QED
  BY <1>1, <1>3 DEF NobodyOvertakes

LEMMA StutterStep ==
  ASSUME KernelInv, UNCHANGED vars
  PROVE  KernelInv' /\ NobodyOvertakes
<1>1. KernelTypeOK' /\ locks' = locks /\ stack' = stack
  BY DEF KernelInv, KernelTypeOK, vars
<1>2. \A c \in Chains : StackOK(stack'[c]) /\ SameTurns(stack[c], stack'[c])
  BY <1>1 DEF KernelInv, SameTurns
<1> QED
  BY <1>1, <1>2, QuietStep

(* The stack a chain can call from.                                        *)
LEMMA CallerStack ==
  ASSUME KernelInv, NEW c \in Chains, CanCall(c)
  PROVE  stack[c] \in Seq(Frame) /\ StackOK(stack[c]) /\ InBody(stack[c])
BY DEF KernelInv, KernelTypeOK, CanCall, InBody, Top

LEMMA PushTypes ==
  ASSUME KernelTypeOK, NEW c \in Chains, NEW frame, Push(c, frame),
         Append(stack[c], frame) \in Seq(Frame)
  PROVE  /\ stack' \in [Chains -> Seq(Frame)] /\ foreign' \subseteq Legacy
         /\ calls' \in [Chains -> Nat]
         /\ \A d \in Chains : stack'[d] = IF d = c THEN Append(stack[c], frame) ELSE stack[d]
<1>1. /\ stack \in [Chains -> Seq(Frame)] /\ calls \in [Chains -> Nat] /\ foreign \subseteq Legacy
      /\ stack' = [stack EXCEPT ![c] = Append(stack[c], frame)]
      /\ calls' = [calls EXCEPT ![c] = calls[c] + 1] /\ foreign' = foreign
  BY DEF KernelTypeOK, Push
<1>2. calls[c] + 1 \in Nat
  BY <1>1
<1> QED
  BY <1>1, <1>2

LEMMA PassThroughStep ==
  ASSUME KernelInv, NEW c \in Chains, NEW k \in Kernels, CanCall(c),
         NEW call \in Calls, NEW via \in {"scope", "foreign"}, PassThrough(c, k, call, via)
  PROVE  KernelInv' /\ NobodyOvertakes
<1> DEFINE frame == [kernel |-> k, call |-> call, via |-> via, at |-> "body"]
<1>1. frame \in Frame /\ frame.at = "body" /\ frame.via # "turn"
  BY DEF Frame
<1>2. KernelTypeOK /\ Push(c, frame) /\ locks' = locks
  BY DEF KernelInv, PassThrough
<1> HIDE DEF frame
<1>3. /\ Append(stack[c], frame) \in Seq(Frame) /\ StackOK(Append(stack[c], frame))
      /\ SameTurns(stack[c], Append(stack[c], frame))
  BY <1>1, CallerStack, PushFree
<1>4. /\ stack' \in [Chains -> Seq(Frame)] /\ foreign' \subseteq Legacy
      /\ calls' \in [Chains -> Nat]
      /\ \A d \in Chains : stack'[d] = IF d = c THEN Append(stack[c], frame) ELSE stack[d]
  BY <1>2, <1>3, PushTypes
<1>5. KernelTypeOK'
  BY <1>2, <1>4 DEF KernelTypeOK
<1>6. \A d \in Chains : StackOK(stack'[d]) /\ SameTurns(stack[d], stack'[d])
  <2>1. \A d \in Chains : StackOK(stack[d]) /\ SameTurns(stack[d], stack[d])
    BY DEF KernelInv, SameTurns
  <2> QED
    BY <1>3, <1>4, <2>1
<1> QED
  BY <1>2, <1>5, <1>6, QuietStep

(* Asking for a turn of a file: the stack of the asking chain.             *)
LEMMA AskedStack ==
  ASSUME KernelInv, NEW c \in Chains, NEW k \in Kernels, NEW call \in Calls,
         CanCall(c), ~HoldsLock(c, FileOf[k]), NEW at \in {"granted", "queued"}, NEW frame,
         frame = [kernel |-> k, call |-> call, via |-> "turn", at |-> at], Push(c, frame)
  PROVE  /\ stack' \in [Chains -> Seq(Frame)] /\ foreign' \subseteq Legacy
         /\ calls' \in [Chains -> Nat]
         /\ \A d \in Chains : StackOK(stack'[d])
         /\ \A d \in Chains, f \in Files, kind \in Kinds :
              /\ TurnIn(stack'[d], f, kind)
                   <=> \/ TurnIn(stack[d], f, kind)
                       \/ at = "granted" /\ d = c /\ f = FileOf[k] /\ kind = KindOf(call)
              /\ WaitsIn(stack'[d], f, kind)
                   <=> \/ WaitsIn(stack[d], f, kind)
                       \/ at = "queued" /\ d = c /\ f = FileOf[k] /\ kind = KindOf(call)
         /\ \A kind \in Kinds :
              ~TurnIn(stack[c], FileOf[k], kind) /\ ~WaitsIn(stack[c], FileOf[k], kind)
<1>1. /\ frame \in Frame /\ frame.at = at /\ at # "body" /\ frame.via = "turn"
      /\ frame.kernel = k /\ frame.call = call
  BY DEF Frame
<1>2. KernelTypeOK /\ Push(c, frame)
  BY DEF KernelInv
<1>3. \A i \in 1 .. Len(stack[c]) :
        ~(/\ stack[c][i].via = "turn" /\ stack[c][i].at = "body"
          /\ FileOf[stack[c][i].kernel] = FileOf[frame.kernel])
  BY <1>1 DEF HoldsLock
<1>4. stack[c] \in Seq(Frame) /\ StackOK(stack[c]) /\ InBody(stack[c])
  BY CallerStack
<1>5. /\ Append(stack[c], frame) \in Seq(Frame) /\ StackOK(Append(stack[c], frame))
      /\ \A f \in Files, kind \in Kinds :
           /\ TurnIn(Append(stack[c], frame), f, kind)
                <=> \/ TurnIn(stack[c], f, kind)
                    \/ at = "granted" /\ f = FileOf[k] /\ kind = KindOf(call)
           /\ WaitsIn(Append(stack[c], frame), f, kind)
                <=> at = "queued" /\ f = FileOf[k] /\ kind = KindOf(call)
           /\ ~WaitsIn(stack[c], f, kind)
      /\ \A kind \in Kinds : ~TurnIn(stack[c], FileOf[k], kind)
  BY <1>1, <1>3, <1>4, PushTurn
<1>6. /\ stack' \in [Chains -> Seq(Frame)] /\ foreign' \subseteq Legacy
      /\ calls' \in [Chains -> Nat]
      /\ \A d \in Chains : stack'[d] = IF d = c THEN Append(stack[c], frame) ELSE stack[d]
  BY <1>2, <1>5, PushTypes
<1>7. \A d \in Chains : StackOK(stack'[d])
  BY <1>5, <1>6 DEF KernelInv
<1>8. ASSUME NEW d \in Chains, NEW f \in Files, NEW kind \in Kinds
      PROVE  /\ TurnIn(stack'[d], f, kind)
                  <=> \/ TurnIn(stack[d], f, kind)
                      \/ at = "granted" /\ d = c /\ f = FileOf[k] /\ kind = KindOf(call)
             /\ WaitsIn(stack'[d], f, kind)
                  <=> \/ WaitsIn(stack[d], f, kind)
                      \/ at = "queued" /\ d = c /\ f = FileOf[k] /\ kind = KindOf(call)
  <2>1. CASE d = c
    BY <1>5, <1>6, <2>1
  <2>2. CASE d # c
    BY <1>6, <2>2
  <2> QED
    BY <2>1, <2>2
<1>9. FileOf[k] \in Files
  BY KernelsAssumption
<1> QED
  BY <1>5, <1>6, <1>7, <1>8, <1>9

LEMMA TakingTurnStep ==
  ASSUME KernelInv, NEW c \in Chains, NEW k \in Kernels, CanCall(c),
         NEW call \in Calls, TakingTurn(c, k, call)
  PROVE  KernelInv' /\ NobodyOvertakes
<1> DEFINE f == FileOf[k]
           l == locks[f]
           kind == KindOf(call)
           S == TurnHolders(f, "shared")
           X == TurnHolders(f, "exclusive")
           W == Waiting(f)
<1>1. CASE HoldsLock(c, f)
  <2>1. UNCHANGED vars
    BY <1>1 DEF TakingTurn, Refuse
  <2> QED
    BY <2>1, StutterStep
<1>2. CASE ~HoldsLock(c, f)
  <2>0. PICK at \in {"granted", "queued"} :
          at = IF TakesAtOnce(l, kind) THEN "granted" ELSE "queued"
    OBVIOUS
  <2>1. /\ locks' = [locks EXCEPT ![f] = Acquire(l, c, kind)]
        /\ Push(c, [kernel |-> k, call |-> call, via |-> "turn", at |-> at])
    BY <1>2, <2>0 DEF TakingTurn
  <2>2. /\ locks \in [Files -> Lock] /\ f \in Files /\ l \in Lock /\ kind \in Kinds
    BY KernelsAssumption DEF KernelInv, KernelTypeOK, KindOf, Kinds
  <2>3. HeldIs(l, S, X) /\ QueueIs(l, S, X, W) /\ HeadBlocked(l)
    BY <2>2 DEF KernelInv, FileInv
  <2>4. /\ stack' \in [Chains -> Seq(Frame)] /\ foreign' \subseteq Legacy
        /\ calls' \in [Chains -> Nat]
        /\ \A d \in Chains : StackOK(stack'[d])
        /\ \A d \in Chains, g \in Files, j \in Kinds :
             /\ TurnIn(stack'[d], g, j)
                  <=> TurnIn(stack[d], g, j) \/ (at = "granted" /\ d = c /\ g = f /\ j = kind)
             /\ WaitsIn(stack'[d], g, j)
                  <=> WaitsIn(stack[d], g, j) \/ (at = "queued" /\ d = c /\ g = f /\ j = kind)
        /\ \A j \in Kinds : ~TurnIn(stack[c], f, j) /\ ~WaitsIn(stack[c], f, j)
    <3>1. ~HoldsLock(c, FileOf[k])
      BY <1>2
    <3>2. PICK frame : frame = [kernel |-> k, call |-> call, via |-> "turn", at |-> at]
      OBVIOUS
    <3>3. Push(c, frame)
      BY <2>1, <3>2
    <3> HIDE DEF l, S, X, W
    <3> QED
      BY <3>1, <3>2, <3>3, AskedStack
  <2> HIDE DEF f, kind
  <2>5. c \notin S \cup X /\ \A w \in W : w.chain # c
    BY <2>4, HoldersAreTurns DEF Kinds, Waiting, Waiter
  <2>6. Acquire(l, c, kind) \in Lock
    <3>1. CASE TakesAtOnce(l, kind)
      BY <2>2, <2>3, <2>5, <3>1, TakeKeepsLock
    <3>2. CASE ~TakesAtOnce(l, kind)
      BY <2>2, <2>3, <2>5, <3>2, QueueUpKeepsLock
    <3> QED
      BY <3>1, <3>2
  <2>7. KernelTypeOK'
    BY <2>1, <2>2, <2>4, <2>6 DEF KernelTypeOK
  <2>8. ASSUME NEW g \in Files, g # f
        PROVE  FileInv(g)' /\ \A d \in Chains : HasAnyTurn(d, g)' <=> HasAnyTurn(d, g)
    <3>1. FileInv(g) /\ locks'[g] = locks[g]
      BY <2>1, <2>2, <2>8 DEF KernelInv
    <3>2. \A d \in Chains, j \in Kinds :
             /\ TurnIn(stack'[d], g, j) <=> TurnIn(stack[d], g, j)
             /\ WaitsIn(stack'[d], g, j) <=> WaitsIn(stack[d], g, j)
      BY <2>4, <2>8
    <3> QED
      BY <3>1, <3>2, QuietFile
  <2>9. locks'[f] = Acquire(l, c, kind)
    BY <2>1, <2>2
  <2>10. CASE TakesAtOnce(l, kind)
    <3>1. at = "granted"
      BY <2>0, <2>10
    <3>2. ASSUME NEW j \in Kinds
          PROVE  TurnHolders(f, j)' = IF kind = j THEN TurnHolders(f, j) \cup {c}
                                                  ELSE TurnHolders(f, j)
      <4>1. CASE kind = j
        <5>1. \A d \in Chains : TurnIn(stack'[d], f, j) <=> TurnIn(stack[d], f, j) \/ d = c
          BY <2>2, <2>4, <3>1, <4>1
        <5> QED
          BY <4>1, <5>1, HoldersGain
      <4>2. CASE kind # j
        <5>1. \A d \in Chains : TurnIn(stack'[d], f, j) <=> TurnIn(stack[d], f, j)
          BY <2>2, <2>4, <4>2
        <5> QED
          BY <4>2, <5>1, HoldersSame
      <4> QED
        BY <4>1, <4>2
    <3>3. Waiting(f)' = W
      BY <2>2, <2>4, <3>1, HoldersAreTurnsNext DEF Waiting, Waiter
    <3>4. /\ TurnHolders(f, "shared")' = IF kind = "shared" THEN S \cup {c} ELSE S
          /\ TurnHolders(f, "exclusive")' = IF kind = "exclusive" THEN X \cup {c} ELSE X
      BY <3>2 DEF Kinds
    <3>5. /\ HeldIs(Acquire(l, c, kind), TurnHolders(f, "shared")', TurnHolders(f, "exclusive")')
          /\ QueueIs(Acquire(l, c, kind), TurnHolders(f, "shared")', TurnHolders(f, "exclusive")', W)
          /\ HeadBlocked(Acquire(l, c, kind))
      <4> HIDE DEF S, X, W, l
      <4> QED
        BY <2>2, <2>3, <2>5, <2>10, <3>4, TakeKeepsLock
    <3>6. FileInv(f)'
      BY <2>9, <3>3, <3>5 DEF FileInv
    <3>7. \A d \in Chains : QueuedBefore(d, f) = {}
      BY <2>10 DEF QueuedBefore, TakesAtOnce
    <3>8. KernelInv'
      BY <2>4, <2>7, <2>8, <3>6 DEF KernelInv, StackOK
    <3>9. NobodyOvertakes
      BY <2>8, <3>7 DEF NobodyOvertakes
    <3> QED
      BY <3>8, <3>9
  <2>11. CASE ~TakesAtOnce(l, kind)
    <3> DEFINE r == [chain |-> c, kind |-> kind]
    <3>1. at = "queued"
      BY <2>0, <2>11
    <3>2. ASSUME NEW j \in Kinds PROVE TurnHolders(f, j)' = TurnHolders(f, j)
      <4>1. \A d \in Chains : TurnIn(stack'[d], f, j) <=> TurnIn(stack[d], f, j)
        BY <2>2, <2>4, <3>1
      <4> QED
        BY <4>1, HoldersSame
    <3>3. TurnHolders(f, "shared")' = S /\ TurnHolders(f, "exclusive")' = X
      BY <3>2 DEF Kinds
    <3>4. r \in Waiter /\ r.chain = c /\ r.kind = kind
          /\ \A w \in Waiter : w.chain = c /\ w.kind = kind => w = r
      BY <2>2 DEF Waiter
    <3>5. Waiting(f)' = W \cup {r}
      <4> HIDE DEF r
      <4>1. \A w \in Waiter : w.chain \in Chains /\ w.kind \in Kinds
        BY DEF Waiter
      <4>2. \A w \in Waiter : WaitsIn(stack'[w.chain], f, w.kind)
                                <=> WaitsIn(stack[w.chain], f, w.kind) \/ w = r
        BY <2>2, <2>4, <3>1, <3>4, <4>1
      <4> QED
        BY <3>4, <4>2, HoldersAreTurnsNext DEF Waiting
    <3>6. /\ HeldIs(Acquire(l, c, kind), S, X)
          /\ QueueIs(Acquire(l, c, kind), S, X, W \cup {r})
          /\ HeadBlocked(Acquire(l, c, kind))
      <4> HIDE DEF S, X, W, l
      <4> QED
        BY <2>2, <2>3, <2>5, <2>11, QueueUpKeepsLock
    <3>7. FileInv(f)'
      BY <2>9, <3>3, <3>5, <3>6 DEF FileInv
    <3>8. \A d \in Chains : HasAnyTurn(d, f)' <=> HasAnyTurn(d, f)
      BY <2>2, <2>4, <3>1, HoldersAreTurns, HoldersAreTurnsNext DEF HasAnyTurn
    <3>9. KernelInv'
      BY <2>4, <2>7, <2>8, <3>7 DEF KernelInv, StackOK
    <3>10. NobodyOvertakes
      BY <2>8, <3>8 DEF NobodyOvertakes
    <3> QED
      BY <3>9, <3>10
  <2> QED
    BY <2>10, <2>11
<1> QED
  BY <1>1, <1>2

(* A call that leaves with its turn: what it does to every stack.          *)
LEMMA LeftStacks ==
  ASSUME KernelInv, NEW c \in Chains, stack[c] # <<>>, Top(c).at # "queued", Top(c).via = "turn",
         NEW f \in Files, f = FileOf[Top(c).kernel],
         NEW kind \in Kinds, kind = KindOf(Top(c).call),
         NEW G \in SUBSET Chains, c \notin G,
         \A d \in G : \E j \in Kinds : WaitsIn(stack[d], f, j),
         stack' = [d \in Chains |->
                     IF d = c THEN Pop(stack[d])
                     ELSE IF d \in G THEN TopAt(stack[d], "granted") ELSE stack[d]]
  PROVE  /\ stack' \in [Chains -> Seq(Frame)]
         /\ \A d \in Chains : StackOK(stack'[d])
         /\ \A e \in Files, j \in Kinds :
              /\ TurnIn(stack'[c], e, j) <=> TurnIn(stack[c], e, j) /\ e # f
              /\ ~WaitsIn(stack'[c], e, j) /\ ~WaitsIn(stack[c], e, j)
         /\ \A j \in Kinds : TurnIn(stack[c], f, j) <=> j = kind
         /\ \A d \in Chains \ {c}, e \in Files, j \in Kinds :
              /\ TurnIn(stack'[d], e, j)
                   <=> TurnIn(stack[d], e, j) \/ (d \in G /\ WaitsIn(stack[d], e, j))
              /\ WaitsIn(stack'[d], e, j) <=> WaitsIn(stack[d], e, j) /\ d \notin G
<1>1. \A d \in Chains : stack[d] \in Seq(Frame) /\ StackOK(stack[d])
  BY DEF KernelInv, KernelTypeOK
<1>2. /\ Pop(stack[c]) \in Seq(Frame) /\ StackOK(Pop(stack[c]))
      /\ \A e \in Files, j \in Kinds :
           /\ ~WaitsIn(stack[c], e, j) /\ ~WaitsIn(Pop(stack[c]), e, j)
           /\ TurnIn(Pop(stack[c]), e, j) <=> TurnIn(stack[c], e, j) /\ e # f
           /\ TurnIn(stack[c], f, j) <=> j = kind
  BY <1>1, PopOK DEF Top
<1>3. stack'[c] = Pop(stack[c])
  OBVIOUS
<1>4. ASSUME NEW d \in Chains \ {c}
      PROVE  /\ stack'[d] \in Seq(Frame) /\ StackOK(stack'[d])
             /\ \A e \in Files, j \in Kinds :
                  /\ TurnIn(stack'[d], e, j)
                       <=> TurnIn(stack[d], e, j) \/ (d \in G /\ WaitsIn(stack[d], e, j))
                  /\ WaitsIn(stack'[d], e, j) <=> WaitsIn(stack[d], e, j) /\ d \notin G
  <2>1. CASE d \in G
    <3>1. stack'[d] = TopAt(stack[d], "granted")
      BY <2>1
    <3>2. stack[d] # <<>> /\ stack[d][Len(stack[d])].at = "queued"
      BY <2>1 DEF WaitsIn
    <3>3. /\ TopAt(stack[d], "granted") \in Seq(Frame) /\ StackOK(TopAt(stack[d], "granted"))
          /\ \A e \in Files, j \in Kinds :
               /\ TurnIn(TopAt(stack[d], "granted"), e, j)
                    <=> TurnIn(stack[d], e, j) \/ WaitsIn(stack[d], e, j)
               /\ ~WaitsIn(TopAt(stack[d], "granted"), e, j)
      BY <1>1, <3>2, TopGranted
    <3> QED
      BY <2>1, <3>1, <3>3
  <2>2. CASE d \notin G
    <3>1. stack'[d] = stack[d]
      BY <2>2
    <3> QED
      BY <1>1, <2>2, <3>1
  <2> QED
    BY <2>1, <2>2
<1>5. stack' \in [Chains -> Seq(Frame)]
  <2>1. \A d \in Chains : stack'[d] \in Seq(Frame)
    BY <1>2, <1>3, <1>4
  <2>2. stack' = [d \in Chains |-> stack'[d]]
    OBVIOUS
  <2> QED
    BY <2>1, <2>2
<1> QED
  BY <1>2, <1>3, <1>4, <1>5

LEMMA LeaveStep ==
  ASSUME KernelInv, NEW c \in Chains, stack[c] # <<>>, Top(c).at # "queued", Top(c).via = "turn",
         Leave(c)
  PROVE  KernelInv' /\ NobodyOvertakes
<1>1. KernelTypeOK /\ Top(c) \in Frame
  BY StackLen DEF KernelInv, KernelTypeOK, Top
<1>2. PICK f \in Files : f = FileOf[Top(c).kernel]
  BY <1>1, FrameFields
<1>3. PICK kind \in Kinds : kind = KindOf(Top(c).call)
  BY <1>1, FrameFields
<1> DEFINE l == locks[f]
           g == GiveBack(l, kind)
           S == TurnHolders(f, "shared")
           X == TurnHolders(f, "exclusive")
           W == Waiting(f)
           S1 == IF kind = "shared" THEN S \ {c} ELSE S
           X1 == IF kind = "exclusive" THEN X \ {c} ELSE X
<1>4. /\ locks' = [locks EXCEPT ![f] = GrantHeads(g)]
      /\ stack' = [d \in Chains |->
                     IF d = c THEN Pop(stack[d])
                     ELSE IF d \in GrantedChains(g) THEN TopAt(stack[d], "granted") ELSE stack[d]]
      /\ calls' = [calls EXCEPT ![c] = IF Len(stack[c]) = 1 THEN 0 ELSE calls[c]]
      /\ foreign' = foreign
  BY <1>2, <1>3 DEF Leave, Release
<1>5. l \in Lock /\ HeldIs(l, S, X) /\ QueueIs(l, S, X, W)
  BY <1>1 DEF KernelInv, KernelTypeOK, FileInv
<1>6. TurnIn(stack[c], f, kind)
  <2>1. Len(stack[c]) \in 1 .. Len(stack[c])
    BY <1>1, StackLen DEF KernelTypeOK
  <2> QED
    BY <1>2, <1>3, <2>1 DEF TurnIn, Top
<1>7. c \in TurnHolders(f, kind)
  BY <1>6, HoldersAreTurns
<1>8. (kind = "shared" => c \in S) /\ (kind = "exclusive" => c \in X)
  BY <1>7
<1>9. g \in Lock /\ g.waiting = l.waiting /\ HeldIs(g, S1, X1) /\ QueueIs(g, S1, X1, W)
  <2> HIDE DEF l, S, X, W
  <2> QED
    BY <1>5, <1>8, GiveBackKeepsLock, GiveBackKeepsQueue
<1>10. PICK G \in SUBSET Chains : G = GrantedChains(g)
  <2>1. GrantedChains(g) \subseteq Chains
    <3>1. \A i \in 1 .. Grants(g) : i \in 1 .. Len(g.waiting)
      BY <1>9, GrantsCounts, LockFields
    <3> QED
      BY <1>9, <3>1, LockFields DEF GrantedChains
  <2> QED
    BY <2>1
<1>11. ASSUME NEW i \in 1 .. Len(l.waiting)
       PROVE  /\ l.waiting[i].chain \in Chains /\ l.waiting[i].kind \in Kinds
              /\ WaitsIn(stack[l.waiting[i].chain], f, l.waiting[i].kind)
              /\ l.waiting[i].chain # c
  <2>1. l.waiting[i] \in W /\ l.waiting[i].chain \notin S \cup X
    BY <1>5 DEF QueueIs
  <2> QED
    BY <1>8, <2>1 DEF Kinds, Waiting, Waiter
<1>12. c \notin G /\ \A d \in G : \E j \in Kinds : WaitsIn(stack[d], f, j)
  <2>1. ASSUME NEW d \in G PROVE d # c /\ \E j \in Kinds : WaitsIn(stack[d], f, j)
    <3>1. PICK i \in 1 .. Grants(g) : d = g.waiting[i].chain
      BY <1>10 DEF GrantedChains
    <3>2. i \in 1 .. Len(l.waiting)
      BY <1>9, GrantsCounts, LockFields
    <3> QED
      BY <1>9, <1>11, <3>1, <3>2
  <2> QED
    BY <2>1
<1>13. /\ stack' \in [Chains -> Seq(Frame)]
       /\ \A d \in Chains : StackOK(stack'[d])
       /\ \A e \in Files, j \in Kinds :
            /\ TurnIn(stack'[c], e, j) <=> TurnIn(stack[c], e, j) /\ e # f
            /\ ~WaitsIn(stack'[c], e, j) /\ ~WaitsIn(stack[c], e, j)
       /\ \A j \in Kinds : TurnIn(stack[c], f, j) <=> j = kind
       /\ \A d \in Chains \ {c}, e \in Files, j \in Kinds :
            /\ TurnIn(stack'[d], e, j)
                 <=> TurnIn(stack[d], e, j) \/ (d \in G /\ WaitsIn(stack[d], e, j))
            /\ WaitsIn(stack'[d], e, j) <=> WaitsIn(stack[d], e, j) /\ d \notin G
  <2>1. stack' = [d \in Chains |->
                    IF d = c THEN Pop(stack[d])
                    ELSE IF d \in G THEN TopAt(stack[d], "granted") ELSE stack[d]]
    BY <1>4, <1>10
  <2> HIDE DEF l, g
  <2> QED
    BY <1>2, <1>3, <1>12, <2>1, LeftStacks
<1>14. ASSUME NEW j \in Kinds
       PROVE  /\ TurnHolders(f, j)' = (IF kind = j THEN TurnHolders(f, j) \ {c} ELSE TurnHolders(f, j))
                                        \cup GrantedOf(g, j)
              /\ \A d \in Chains : d \in GrantedOf(g, j) <=> d \in G /\ WaitsIn(stack[d], f, j)
              /\ GrantedOf(g, j) \subseteq G
  <2>1. W \in SUBSET Waiter
    BY DEF Waiting
  <2>2. ASSUME NEW d \in Chains
        PROVE  d \in GrantedOf(g, j) <=> d \in G /\ WaitsIn(stack[d], f, j)
    <3> DEFINE r == [chain |-> d, kind |-> j]
    <3>1. r \in Waiter /\ r.chain = d /\ r.kind = j
      BY DEF Waiter
    <3>2. r \in W <=> WaitsIn(stack[d], f, j)
      BY <3>1 DEF Waiting
    <3> HIDE DEF l, g, S1, X1, W
    <3>3. d \in GrantedOf(g, j) <=> d \in GrantedChains(g) /\ r \in W
      BY <1>9, <2>1, GrantedWaited
    <3> QED
      BY <1>10, <3>2, <3>3
  <2>3. GrantedOf(g, j) \subseteq G
    BY <1>10 DEF GrantedOf, GrantedChains
  <2> HIDE DEF g
  <2>4. ASSUME NEW d \in Chains
        PROVE  TurnIn(stack'[d], f, j)
                 <=> \/ d \in TurnHolders(f, j) /\ ~(kind = j /\ d = c)
                     \/ d \in GrantedOf(g, j)
    <3>1. d \in TurnHolders(f, j) <=> TurnIn(stack[d], f, j)
      BY HoldersAreTurns
    <3>2. CASE d = c
      BY <1>12, <1>13, <2>3, <3>1, <3>2
    <3>3. CASE d # c
      BY <1>13, <2>2, <3>1, <3>3
    <3> QED
      BY <3>2, <3>3
  <2>5. TurnHolders(f, j)' = { d \in Chains : TurnIn(stack'[d], f, j) } /\ TurnHolders(f, j) \subseteq Chains
    BY HoldersAreTurns, HoldersAreTurnsNext
  <2>6. TurnHolders(f, j)' = (IF kind = j THEN TurnHolders(f, j) \ {c} ELSE TurnHolders(f, j))
                               \cup GrantedOf(g, j)
    BY <2>3, <2>4, <2>5
  <2> QED
    BY <2>2, <2>3, <2>6
<1>15. Waiting(f)' = { w \in W : w.chain \notin G }
  <2>1. \A w \in Waiter : w.chain \in Chains /\ w.kind \in Kinds
    BY DEF Waiter
  <2>2. \A w \in Waiter : WaitsIn(stack'[w.chain], f, w.kind)
                            <=> WaitsIn(stack[w.chain], f, w.kind) /\ w.chain \notin G
    BY <1>13, <2>1
  <2> QED
    BY <2>2, HoldersAreTurnsNext DEF Waiting
<1>16. /\ GrantHeads(g) \in Lock
       /\ HeldIs(GrantHeads(g), TurnHolders(f, "shared")', TurnHolders(f, "exclusive")')
       /\ QueueIs(GrantHeads(g), TurnHolders(f, "shared")', TurnHolders(f, "exclusive")', Waiting(f)')
       /\ HeadBlocked(GrantHeads(g))
  <2>1. /\ TurnHolders(f, "shared")' = S1 \cup GrantedOf(g, "shared")
        /\ TurnHolders(f, "exclusive")' = X1 \cup GrantedOf(g, "exclusive")
    BY <1>14 DEF Kinds
  <2>2. Waiting(f)' = { w \in W : w.chain \notin GrantedChains(g) }
    BY <1>10, <1>15
  <2> HIDE DEF g, S1, X1, W
  <2> QED
    BY <1>9, <2>1, <2>2, GrantsKeepLock
<1> HIDE DEF g, S1, X1
<1>17. locks'[f] = GrantHeads(g) /\ KernelTypeOK'
  <2>1. calls' \in [Chains -> Nat]
    BY <1>1, <1>4 DEF KernelTypeOK
  <2>2. locks' \in [Files -> Lock] /\ locks'[f] = GrantHeads(g)
    BY <1>1, <1>4, <1>16 DEF KernelTypeOK
  <2> QED
    BY <1>1, <1>4, <1>13, <2>1, <2>2 DEF KernelTypeOK
<1>18. FileInv(f)'
  BY <1>16, <1>17 DEF FileInv
<1>19. ASSUME NEW e \in Files, e # f
       PROVE  FileInv(e)' /\ \A d \in Chains : HasAnyTurn(d, e)' <=> HasAnyTurn(d, e)
  <2>1. FileInv(e) /\ locks'[e] = locks[e]
    BY <1>1, <1>4, <1>19 DEF KernelInv, KernelTypeOK
  <2>2. \A d \in G, j \in Kinds : ~WaitsIn(stack[d], e, j)
    BY <1>12, <1>19 DEF WaitsIn
  <2>3. \A d \in Chains, j \in Kinds :
           /\ TurnIn(stack'[d], e, j) <=> TurnIn(stack[d], e, j)
           /\ WaitsIn(stack'[d], e, j) <=> WaitsIn(stack[d], e, j)
    BY <1>13, <1>19, <2>2
  <2> QED
    BY <2>1, <2>3, QuietFile
<1>20. ASSUME NEW d \in Chains, HasAnyTurn(d, f)', ~HasAnyTurn(d, f), NEW b \in QueuedBefore(d, f)
       PROVE  HasAnyTurn(b, f)'
  <2>1. PICK j \in Kinds : TurnIn(stack'[d], f, j) /\ ~TurnIn(stack[d], f, j)
    BY <1>20, HoldersAreTurns, HoldersAreTurnsNext DEF HasAnyTurn
  <2>2. d \in G
    BY <1>13, <2>1
  <2>3. PICK i \in 1 .. Len(l.waiting) :
          b = l.waiting[i].chain /\ \A h \in 1 .. i : l.waiting[h].chain # d
    BY <1>20 DEF QueuedBefore
  <2>4. b \in G
    BY <1>9, <1>10, <2>2, <2>3, GrantedInOrder
  <2>5. PICK m \in Kinds : WaitsIn(stack[b], f, m)
    BY <1>12, <2>4
  <2>6. b \in Chains \ {c}
    BY <1>12, <2>4
  <2>7. TurnIn(stack'[b], f, m)
    BY <1>13, <2>4, <2>5, <2>6
  <2> QED
    BY <2>6, <2>7, HoldersAreTurnsNext DEF HasAnyTurn
<1>21. KernelInv'
  BY <1>13, <1>17, <1>18, <1>19 DEF KernelInv, StackOK
<1>22. NobodyOvertakes
  BY <1>19, <1>20 DEF NobodyOvertakes
<1> QED
  BY <1>21, <1>22

(* A call's body starts, or it fails before.                               *)
LEMMA StartStep ==
  ASSUME KernelInv, NEW c \in Chains, Start(c)
  PROVE  KernelInv' /\ NobodyOvertakes
<1>1. /\ stack[c] \in Seq(Frame) /\ StackOK(stack[c]) /\ stack[c] # <<>>
      /\ stack[c][Len(stack[c])].at = "granted" /\ KernelTypeOK
  BY DEF KernelInv, KernelTypeOK, Start, Top
<1>2. CASE Leave(c)
  <2>1. Top(c).via = "turn" /\ Top(c).at # "queued"
    BY <1>1, StackLen DEF StackOK, Top
  <2> QED
    BY <1>1, <1>2, <2>1, LeaveStep
<1>3. CASE /\ stack' = [stack EXCEPT ![c] = TopAt(stack[c], "body")]
           /\ UNCHANGED << locks, foreign, calls >>
  <2>1. /\ TopAt(stack[c], "body") \in Seq(Frame) /\ StackOK(TopAt(stack[c], "body"))
        /\ SameTurns(stack[c], TopAt(stack[c], "body"))
    BY <1>1, TopToBody
  <2>2. \A d \in Chains : stack'[d] = IF d = c THEN TopAt(stack[c], "body") ELSE stack[d]
    BY <1>1, <1>3 DEF KernelTypeOK
  <2>3. KernelTypeOK'
    BY <1>1, <1>3, <2>1 DEF KernelTypeOK
  <2>4. \A d \in Chains : StackOK(stack'[d]) /\ SameTurns(stack[d], stack'[d])
    <3>1. \A d \in Chains : StackOK(stack[d]) /\ SameTurns(stack[d], stack[d])
      BY DEF KernelInv, SameTurns
    <3> QED
      BY <2>1, <2>2, <3>1
  <2> QED
    BY <1>3, <2>3, <2>4, QuietStep
<1> QED
  BY <1>2, <1>3 DEF Start

LEMMA EndStep ==
  ASSUME KernelInv, NEW c \in Chains, End(c)
  PROVE  KernelInv' /\ NobodyOvertakes
<1>1. /\ stack[c] \in Seq(Frame) /\ StackOK(stack[c]) /\ stack[c] # <<>>
      /\ stack[c][Len(stack[c])].at = "body" /\ KernelTypeOK
  BY DEF KernelInv, KernelTypeOK, End, Top
<1>2. CASE Top(c).via = "turn"
  <2>1. Leave(c) /\ Top(c).at # "queued"
    BY <1>1, <1>2 DEF End, Top
  <2> QED
    BY <1>1, <1>2, <2>1, LeaveStep
<1>3. CASE Top(c).via # "turn"
  <2>1. /\ stack' = [stack EXCEPT ![c] = Pop(stack[c])]
        /\ calls' = [calls EXCEPT ![c] = IF Len(stack[c]) = 1 THEN 0 ELSE calls[c]]
        /\ locks' = locks /\ foreign' = foreign
    BY <1>3 DEF End
  <2>2. /\ Pop(stack[c]) \in Seq(Frame) /\ StackOK(Pop(stack[c]))
        /\ SameTurns(stack[c], Pop(stack[c]))
    BY <1>1, <1>3, PopOK DEF Top
  <2>3. \A d \in Chains : stack'[d] = IF d = c THEN Pop(stack[c]) ELSE stack[d]
    BY <1>1, <2>1 DEF KernelTypeOK
  <2>4. KernelTypeOK'
    BY <1>1, <2>1, <2>2 DEF KernelTypeOK
  <2>5. \A d \in Chains : StackOK(stack'[d]) /\ SameTurns(stack[d], stack'[d])
    <3>1. \A d \in Chains : StackOK(stack[d]) /\ SameTurns(stack[d], stack[d])
      BY DEF KernelInv, SameTurns
    <3> QED
      BY <2>2, <2>3, <3>1
  <2> QED
    BY <2>1, <2>4, <2>5, QuietStep
<1> QED
  BY <1>2, <1>3

LEMMA CallStep ==
  ASSUME KernelInv, NEW c \in Chains, NEW k \in Kernels,
         Run(c, k) \/ Transaction(c, k) \/ OwnedTransaction(c, k) \/ BackupTo(c, k)
  PROVE  KernelInv' /\ NobodyOvertakes
<1>1. /\ "run" \in Calls /\ "transaction" \in Calls /\ "owned" \in Calls /\ "backup" \in Calls
      /\ CanCall(c)
  BY DEF Calls, Run, Transaction, OwnedTransaction, BackupTo
<1>2. CASE Refuse(c)
  BY <1>2, StutterStep DEF Refuse
<1>3. CASE \E call \in Calls, via \in {"scope", "foreign"} : PassThrough(c, k, call, via)
  BY <1>1, <1>3, PassThroughStep
<1>4. CASE \E call \in Calls : TakingTurn(c, k, call)
  BY <1>1, <1>4, TakingTurnStep
<1>5. CASE Run(c, k)
  BY <1>1, <1>3, <1>4, <1>5 DEF Run
<1>6. CASE Transaction(c, k)
  BY <1>1, <1>2, <1>3, <1>4, <1>6 DEF Transaction
<1>7. CASE OwnedTransaction(c, k)
  BY <1>1, <1>2, <1>4, <1>7 DEF OwnedTransaction
<1>8. CASE BackupTo(c, k)
  BY <1>1, <1>2, <1>4, <1>8 DEF BackupTo
<1> QED
  BY <1>5, <1>6, <1>7, <1>8

(* Legacy code's transactions touch no turn.                               *)
LEMMA ForeignStep ==
  ASSUME KernelInv, NEW k \in Legacy, ForeignBegin(k) \/ ForeignEnd(k)
  PROVE  KernelInv' /\ NobodyOvertakes
<1>1. /\ KernelTypeOK /\ locks' = locks /\ stack' = stack /\ calls' = calls
      /\ foreign' \subseteq Legacy
  BY DEF KernelInv, KernelTypeOK, ForeignBegin, ForeignEnd
<1>2. KernelTypeOK'
  BY <1>1 DEF KernelTypeOK
<1>3. \A c \in Chains : StackOK(stack'[c]) /\ SameTurns(stack[c], stack'[c])
  BY <1>1 DEF KernelInv, SameTurns
<1> QED
  BY <1>1, <1>2, <1>3, QuietStep

-----------------------------------------------------------------------------
LEMMA InitInv == Init => KernelInv
<1> SUFFICES ASSUME Init PROVE KernelInv
  OBVIOUS
<1>1. /\ \A f \in Files : locks[f] = FreeLock /\ \A c \in Chains : stack[c] = <<>>
      /\ \A c \in Chains : stack[c] = <<>>
  BY DEF Init
<1>2. FreeLock \in Lock /\ FreeLock.shared = 0 /\ ~FreeLock.exclusive /\ FreeLock.waiting = <<>>
  <2>1. << >> \in Seq(Waiter)
    BY EmptySeq
  <2> QED
    BY <2>1 DEF FreeLock, Lock
<1>3. KernelTypeOK
  <2>1. << >> \in Seq(Frame)
    BY EmptySeq
  <2> QED
    BY <1>2, <2>1 DEF Init, KernelTypeOK
<1>4. \A c \in Chains : StackOK(stack[c])
  <2>1. Len(<< >>) = 0 /\ 1 .. 0 = {}
    OBVIOUS
  <2>2. StackOK(<< >>)
    BY <2>1 DEF StackOK
  <2> QED
    BY <1>1, <2>2
<1>5. ASSUME NEW f \in Files PROVE FileInv(f)
  <2>1. \A kind : TurnHolders(f, kind) = {}
    BY <1>1 DEF TurnHolders, HasTurn
  <2>2. Waiting(f) = {}
    BY <1>1 DEF Waiting, Waiter, WaitsIn
  <2>3. locks[f] = FreeLock
    BY <1>1
  <2>4. HeldIs(FreeLock, {}, {})
    BY FS_EmptySet DEF HeldIs, FreeLock
  <2>5. QueueIs(FreeLock, {}, {}, {}) /\ HeadBlocked(FreeLock)
    <3>1. FreeLock.waiting = << >> /\ Len(<< >>) = 0 /\ 1 .. 0 = {}
      BY <1>2
    <3> QED
      BY <3>1 DEF QueueIs, HeadBlocked
  <2> QED
    BY <2>1, <2>2, <2>3, <2>4, <2>5 DEF FileInv
<1> QED
  BY <1>3, <1>4, <1>5 DEF KernelInv

LEMMA NextInv == KernelInv /\ [Next]_vars => KernelInv' /\ NobodyOvertakes
<1> SUFFICES ASSUME KernelInv, [Next]_vars PROVE KernelInv' /\ NobodyOvertakes
  OBVIOUS
<1>1. CASE \E c \in Chains, k \in Kernels :
             Run(c, k) \/ Transaction(c, k) \/ OwnedTransaction(c, k) \/ BackupTo(c, k)
  BY <1>1, CallStep
<1>2. CASE \E c \in Chains : Start(c)
  BY <1>2, StartStep
<1>3. CASE \E c \in Chains : End(c)
  BY <1>3, EndStep
<1>4. CASE \E k \in Legacy : ForeignBegin(k) \/ ForeignEnd(k)
  BY <1>4, ForeignStep
<1>5. CASE UNCHANGED vars
  BY <1>5, StutterStep
<1> QED
  BY <1>1, <1>2, <1>3, <1>4, <1>5 DEF Next

LEMMA KernelInvariant == Spec => []KernelInv
<1>1. KernelInv /\ [Next]_vars => KernelInv'
  BY NextInv
<1> QED
  BY <1>1, InitInv, PTL DEF Spec

LEMMA InvExcludes == KernelInv => TurnsExclude
<1> SUFFICES ASSUME KernelInv, NEW f \in Files, NEW c \in TurnHolders(f, "exclusive")
             PROVE  TurnHolders(f, "exclusive") \cup TurnHolders(f, "shared") = {c}
  BY DEF TurnsExclude
<1> QED
  BY DEF KernelInv, FileInv, HeldIs

LEMMA InvCounts == KernelInv => LockCountsTurns
BY DEF KernelInv, FileInv, HeldIs, LockCountsTurns

LEMMA InvNoLostGrant == KernelInv => NoLostGrant
<1> SUFFICES ASSUME KernelInv, NEW f \in Files
             PROVE  /\ locks[f].waiting # <<>> => ~Fits(locks[f], locks[f].waiting[1].kind)
                    /\ \A c \in Chains :
                         (\E i \in 1 .. Len(locks[f].waiting) : locks[f].waiting[i].chain = c)
                           <=> (stack[c] # <<>> /\ Top(c).at = "queued" /\ FileOf[Top(c).kernel] = f)
  BY DEF NoLostGrant
<1>1. HeadBlocked(locks[f])
  BY DEF KernelInv, FileInv
<1>2. /\ \A i \in 1 .. Len(locks[f].waiting) : locks[f].waiting[i] \in Waiting(f)
      /\ \A w \in Waiting(f) : \E i \in 1 .. Len(locks[f].waiting) : w = locks[f].waiting[i]
  BY DEF KernelInv, FileInv, QueueIs
<1>3. ASSUME NEW c \in Chains, NEW i \in 1 .. Len(locks[f].waiting), locks[f].waiting[i].chain = c
      PROVE  stack[c] # <<>> /\ Top(c).at = "queued" /\ FileOf[Top(c).kernel] = f
  BY <1>2, <1>3 DEF Waiting, WaitsIn, Top
<1>4. ASSUME NEW c \in Chains, stack[c] # <<>>, Top(c).at = "queued", FileOf[Top(c).kernel] = f
      PROVE  \E i \in 1 .. Len(locks[f].waiting) : locks[f].waiting[i].chain = c
  <2> DEFINE w == [chain |-> c, kind |-> KindOf(Top(c).call)]
  <2>1. w \in Waiter /\ w.chain = c /\ w.kind = KindOf(Top(c).call)
    BY DEF Waiter, KindOf, Kinds
  <2>2. w \in Waiting(f)
    BY <1>4, <2>1 DEF Waiting, WaitsIn, Top
  <2> QED
    BY <1>2, <2>1, <2>2
<1> QED
  BY <1>1, <1>3, <1>4 DEF HeadBlocked

(* Locks, calls and queues keep their types in every behaviour.            *)
THEOREM KernelTypesHold == Spec => []KernelTypeOK
<1>1. KernelInv => KernelTypeOK
  BY DEF KernelInv
<1> QED
  BY <1>1, KernelInvariant, PTL

(* A transaction or a backup that has its turn of a file is alone there,   *)
(* however many kernels and chains use the file and however they nest.     *)
THEOREM TurnsStayExclusive == Spec => []TurnsExclude
BY KernelInvariant, InvExcludes, PTL

(* The counters of every lock are the turns its chains hold.               *)
THEOREM LocksCountRight == Spec => []LockCountsTurns
BY KernelInvariant, InvCounts, PTL

(* Whoever waits is in the queue, and its head waits for somebody.         *)
THEOREM NoGrantIsLost == Spec => []NoLostGrant
BY KernelInvariant, InvNoLostGrant, PTL

(* Turns are granted first come, first served.                             *)
THEOREM NobodyIsOvertaken == Spec => NoOvertaking
<1>1. KernelInv /\ [Next]_vars
        => [\A f \in Files, c \in Chains :
              HasAnyTurn(c, f)' /\ ~HasAnyTurn(c, f)
                => \A d \in QueuedBefore(c, f) : HasAnyTurn(d, f)']_vars
  BY NextInv DEF NobodyOvertakes
<1> QED
  BY <1>1, KernelInvariant, PTL DEF Spec, NoOvertaking
=============================================================================
