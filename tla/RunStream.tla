------------------------------ MODULE RunStream ------------------------------
(***************************************************************************)
(* One run followed by one client over server-sent events: stream, emit    *)
(* and finish of packages/daemon/src/run-lifecycle.ts on the event log,    *)
(* handleRunEventStreamRequest of packages/daemon/src/http/runs.ts and the *)
(* channel of packages/http-kit/src/sse.ts.                                *)
(*                                                                         *)
(* An append is recorded at once and its continuation, which notifies the  *)
(* subscribers, runs later, in the order of the appends: tasks is that     *)
(* FIFO.  A replay takes its snapshot at once as well.  Its answer comes   *)
(* after the continuations that were due before it, and any time later:    *)
(* the port promises no more.  Driver, client and socket act in between.   *)
(*                                                                         *)
(* The client reconnects with the cursor of the last event it received     *)
(* (Last-Event-ID), and without one after the server reported a gap.  It   *)
(* is external, like the socket.                                           *)
(***************************************************************************)
EXTENDS Integers, Sequences, FiniteSets, SequencesExt

CONSTANTS
  Run,                    (* the run                                       *)
  Conns, NoConn,          (* connection slots, used again when released    *)
  MaxEntries, InMemory, MaxCursor,  (* see EventLog                        *)
  MaxQueued, HighWater,   (* see SseChannel                                *)
  MaxDrops                (* bounds the model: connections the client cuts *)

ASSUME StreamAssumptions ==
  /\ NoConn \notin Conns
  /\ MaxEntries \in Nat \ {0} /\ MaxCursor \in Nat /\ InMemory \in BOOLEAN
  /\ MaxQueued \in Nat \ {0} /\ HighWater \in Nat \ {0} /\ MaxDrops \in Nat

VARIABLES
  log,      (* the event log                                               *)
  state,    (* status.state of the run, "finishing" with finishPromise set *)
  end,      (* terminalEndEntry, an empty sequence when undefined          *)
  tasks,    (* continuations of appends and replays, oldest first          *)
  conn,     (* the server's side of each connection                        *)
  client,   (* the client                                                  *)
  drops     (* connections cut so far                                      *)

vars == << log, state, end, tasks, conn, client, drops >>

Log == INSTANCE EventLog WITH Runs <- {Run}, Payloads <- {"data"}, Keys <- {},
                              NoKey <- "none", MaxRuns <- 1

IsEnd(entry) == entry.event = "end"

Sse == INSTANCE SseChannel WITH IsEndEvent <- IsEnd

History == log.runs[Run].history

Record(event) == Log!AppendTo(log, Run, event, "data", "none")

-----------------------------------------------------------------------------
(* Connections                                                             *)

(***************************************************************************)
(* channel: the SSE channel.  call: the handler's await of stream: reading *)
(* until the answer is due, answered, delivered once replay and catch-up   *)
(* are done, returned.  sub: the subscriber, which buffers while           *)
(* replaying.  owned: the handler holds unsubscribeFn.  refused: a gap was *)
(* reported.  cut: the client is gone.                                     *)
(***************************************************************************)
Unknown == [kind |-> "none", entries |-> << >>, truncated |-> FALSE]

FreeConn == [channel  |-> Sse!MarkClosed(Sse!NewChannel),
             call     |-> "returned",
             answer   |-> Unknown,
             sub      |-> "none",
             buffered |-> << >>,
             owned    |-> FALSE,
             refused  |-> FALSE,
             cut      |-> TRUE]

NewConn == [FreeConn EXCEPT !.channel = Sse!NewChannel, !.call = "reading",
                            !.sub = "replaying", !.cut = FALSE]

(* The close callback unsubscribes, once the handler has what to call.     *)
AfterClose(c) == IF c.channel.closed /\ c.owned THEN [c EXCEPT !.sub = "none"] ELSE c

(* notifySubscribers                                                       *)
Notify(entry) ==
  [c \in Conns |->
     CASE conn[c].sub = "replaying" -> [conn[c] EXCEPT !.buffered = Append(@, entry)]
       [] conn[c].sub = "live"      -> AfterClose([conn[c] EXCEPT !.channel = Sse!OnEvents(@, << entry >>)])
       [] OTHER                     -> conn[c]]

-----------------------------------------------------------------------------
(* The driver                                                              *)

(* The appends whose continuation has not run, by their place in tasks.    *)
Appends == {p \in 1 .. Len(tasks) : tasks[p].op # "replay"}

(***************************************************************************)
(* Bounds the model: the driver has no more appends in flight than the log *)
(* keeps entries.  A reader that subscribed within a longer burst would    *)
(* get what is left of the burst in the log, and then, from its buffer,    *)
(* the older events that no longer are.                                    *)
(***************************************************************************)
BurstFits == Cardinality(Appends) < MaxEntries

Emit ==
  /\ state = "running"
  /\ BurstFits
  /\ log.runs[Run].nextId <= MaxCursor
  /\ log' = Record("agent")
  /\ tasks' = Append(tasks, [op |-> "emit", entry |-> Last(log'.runs[Run].history)])
  /\ UNCHANGED << state, end, conn, client, drops >>

Finish ==
  /\ state = "running"
  /\ state' = "finishing"
  /\ log' = Record("end")
  /\ tasks' = Append(tasks, [op |-> "end", entry |-> Last(log'.runs[Run].history)])
  /\ UNCHANGED << end, conn, client, drops >>

(* The in-memory log compacts the ended run.                               *)
Compact ==
  /\ Log!Compact(Run)
  /\ UNCHANGED << state, end, tasks, conn, client, drops >>

-----------------------------------------------------------------------------
(* Continuations                                                           *)

EmitSettles ==
  /\ tasks # << >> /\ Head(tasks).op = "emit"
  /\ conn' = Notify(Head(tasks).entry)
  /\ tasks' = Tail(tasks)
  /\ UNCHANGED << log, state, end, client, drops >>

FinishSettles ==
  /\ tasks # << >> /\ Head(tasks).op = "end"
  /\ state' = "terminal"
  /\ end' = << Head(tasks).entry >>
  /\ conn' = Notify(Head(tasks).entry)
  /\ tasks' = Tail(tasks)
  /\ UNCHANGED << log, client, drops >>

(* From here on the answer of the replay may arrive.                       *)
ReplaySettles ==
  /\ tasks # << >> /\ Head(tasks).op = "replay"
  /\ conn' = [conn EXCEPT ![Head(tasks).conn].call = "answered"]
  /\ tasks' = Tail(tasks)
  /\ UNCHANGED << log, state, end, client, drops >>

Without(events, entries) ==
  Log!Kept(events, {i \in 1 .. Len(events) : events[i] \notin ToSet(entries)})

(* Variant: what was buffered during the replay is not caught up.          *)
CaughtUpWithout(replayed, buffered) == replayed

(* Variant: the buffer is not compared with what the replay delivered.     *)
CaughtUpTwice(replayed, buffered) == replayed \o buffered

(* The replayed entries, then what was buffered and has not been replayed. *)
CaughtUp(replayed, buffered) == replayed \o Without(buffered, replayed)

(***************************************************************************)
(* stream goes on with the answer: it delivers the replay, the catch-up    *)
(* and, if the run is terminal and none of these was its end, the end.     *)
(***************************************************************************)
Deliver(c) ==
  /\ conn[c].call = "answered"
  /\ \E caughtUp \in {CaughtUp(conn[c].answer.entries, conn[c].buffered)} :
       LET closing == IF state = "terminal" THEN Without(end, caughtUp) ELSE << >>
           settled == [conn[c] EXCEPT !.buffered = << >>, !.call = "delivered"]
       IN  conn' = [conn EXCEPT ![c] =
             IF conn[c].answer.kind # "ok"
               THEN [settled EXCEPT !.sub = "none"]
               ELSE [settled EXCEPT !.channel = Sse!OnEvents(@, caughtUp \o closing),
                                    !.sub = IF state = "terminal" THEN "none" ELSE "live"]]
  /\ UNCHANGED << log, state, end, tasks, client, drops >>

(* Variant: the handler does not ask whether the channel closed meanwhile. *)
ReturnUnchecked(c) ==
  /\ conn[c].call = "delivered"
  /\ conn' = [conn EXCEPT ![c] =
       [@ EXCEPT !.call = "returned", !.answer = Unknown, !.owned = TRUE,
                 !.channel = Sse!Open(@)]]
  /\ UNCHANGED << log, state, end, tasks, client, drops >>

(***************************************************************************)
(* handleRunEventStreamRequest goes on with stream's result: it answers    *)
(* 409 on a gap, unsubscribes when the channel has closed meanwhile, and   *)
(* otherwise leaves unsubscribing to the close callback.                   *)
(***************************************************************************)
Return(c) ==
  /\ conn[c].call = "delivered"
  /\ LET k == [conn[c] EXCEPT !.call = "returned", !.answer = Unknown]
     IN  conn' = [conn EXCEPT ![c] =
           IF conn[c].answer.kind # "ok"
             THEN [k EXCEPT !.channel = Sse!MarkClosed(@), !.refused = TRUE]
           ELSE IF k.channel.closed
             THEN [k EXCEPT !.sub = "none"]
           ELSE AfterClose([k EXCEPT !.owned = TRUE, !.channel = Sse!Open(@)])]
  /\ UNCHANGED << log, state, end, tasks, client, drops >>

-----------------------------------------------------------------------------
(* Socket and client                                                       *)

(* The response drains.                                                    *)
Drain(c) ==
  /\ Sse!CanDrain(conn[c].channel)
  /\ conn' = [conn EXCEPT ![c] = AfterClose([conn[c] EXCEPT !.channel = Sse!Drained(@)])]
  /\ UNCHANGED << log, state, end, tasks, client, drops >>

(* The response closes: the server notices that the client is gone.        *)
NoticeCut(c) ==
  /\ conn[c].cut /\ ~conn[c].channel.closed
  /\ conn' = [conn EXCEPT ![c] = AfterClose([conn[c] EXCEPT !.channel = Sse!MarkClosed(@)])]
  /\ UNCHANGED << log, state, end, tasks, client, drops >>

Released(c) ==
  /\ conn[c].cut /\ conn[c].channel.closed
  /\ conn[c].call = "returned" /\ conn[c].sub = "none"

(* A request arrives: stream subscribes, then asks for the replay.         *)
Request(c) ==
  /\ client.conn = NoConn /\ ~client.sawEnd
  /\ Released(c)
  /\ client' = [client EXCEPT !.conn = c]
  /\ conn' = [conn EXCEPT ![c] = [NewConn EXCEPT !.answer = Log!Replay(log, Run, client.cursor)]]
  /\ tasks' = Append(tasks, [op |-> "replay", conn |-> c])
  /\ UNCHANGED << log, state, end, drops >>

Receive(c) ==
  /\ client.conn = c
  /\ conn[c].channel.wire # << >>
  /\ LET entry == Head(conn[c].channel.wire)
     IN  client' = [client EXCEPT !.cursor = entry.id, !.seen = entry.id,
                                  !.reads = @ + 1, !.sawEnd = IsEnd(entry)]
  /\ conn' = [conn EXCEPT ![c].channel.wire = Tail(@)]
  /\ UNCHANGED << log, state, end, tasks, drops >>

(* The response has ended, or was the report of a gap.                     *)
Eof(c) ==
  /\ client.conn = c
  /\ conn[c].channel.closed /\ conn[c].channel.wire = << >>
  /\ client' = [client EXCEPT !.conn = NoConn,
                              !.cursor = IF conn[c].refused THEN Log!NullCursor ELSE @]
  /\ conn' = [conn EXCEPT ![c] = [@ EXCEPT !.cut = TRUE]]
  /\ UNCHANGED << log, state, end, tasks, drops >>

(* The client goes away; what is on the wire is lost.                      *)
Cut(c) ==
  /\ drops < MaxDrops
  /\ client.conn = c
  /\ client' = [client EXCEPT !.conn = NoConn]
  /\ conn' = [conn EXCEPT ![c] = [@ EXCEPT !.cut = TRUE, !.channel.wire = << >>]]
  /\ drops' = drops + 1
  /\ UNCHANGED << log, state, end, tasks >>

(* The client reloads: it forgets that it saw the end, not its cursor, and *)
(* comes back for a run that has nothing new for it but the end again.     *)
Reload ==
  /\ drops < MaxDrops
  /\ client.conn = NoConn /\ client.sawEnd
  /\ client' = [client EXCEPT !.sawEnd = FALSE]
  /\ drops' = drops + 1
  /\ UNCHANGED << log, state, end, tasks, conn >>

-----------------------------------------------------------------------------
Init ==
  /\ log = Log!AppendTo(Log!EmptyLog, Run, "start", "data", "none")
  /\ state = "running"
  /\ end = << >>
  /\ tasks = << >>
  /\ conn = [c \in Conns |-> FreeConn]
  /\ client = [conn |-> NoConn, cursor |-> Log!NullCursor, seen |-> 0, reads |-> 0,
               sawEnd |-> FALSE]
  /\ drops = 0

Next ==
  \/ Emit
  \/ Finish
  \/ Compact
  \/ EmitSettles
  \/ FinishSettles
  \/ ReplaySettles
  \/ \E c \in Conns : Deliver(c)
  \/ \E c \in Conns : Return(c)
  \/ \E c \in Conns : Drain(c)
  \/ \E c \in Conns : NoticeCut(c)
  \/ \E c \in Conns : Request(c)
  \/ \E c \in Conns : Receive(c)
  \/ \E c \in Conns : Eof(c)
  \/ \E c \in Conns : Cut(c)
  \/ Reload

(***************************************************************************)
(* Continuations run, sockets drain and report their closing, and a client *)
(* that wants the run keeps reading and reconnecting.  The driver owes     *)
(* nothing: liveness is about runs that did end.                           *)
(***************************************************************************)
Fairness ==
  /\ WF_vars(EmitSettles \/ FinishSettles \/ ReplaySettles)
  /\ \A c \in Conns : WF_vars(Deliver(c)) /\ WF_vars(Return(c)) /\ WF_vars(Drain(c))
  /\ \A c \in Conns : WF_vars(NoticeCut(c)) /\ WF_vars(Receive(c)) /\ WF_vars(Eof(c))
  /\ WF_vars(\E c \in Conns : Request(c))

Spec == Init /\ [][Next]_vars /\ Fairness

-----------------------------------------------------------------------------
(* Properties                                                              *)

Entries == Seq(Log!Entry)

Channels == [queue : Entries, flowing : BOOLEAN, writable : BOOLEAN,
             closed : BOOLEAN, wire : Entries]

Tasks == [op : {"emit", "end"}, entry : Log!Entry] \cup [op : {"replay"}, conn : Conns]

Answers == [kind : {"none", "unknown-run", "replay-gap", "ok"}, entries : Entries,
            truncated : BOOLEAN]

Connections == [channel : Channels, answer : Answers, buffered : Entries,
                call : {"reading", "answered", "delivered", "returned"},
                sub : {"none", "replaying", "live"},
                owned : BOOLEAN, refused : BOOLEAN, cut : BOOLEAN]

Clients == [conn : Conns \cup {NoConn}, cursor : Nat \cup {Log!NullCursor}, seen : Nat,
            reads : Nat, sawEnd : BOOLEAN]

(* The types, and the limits of the queue and the socket (sse.ts, enqueue).*)
RunStreamTypeOK ==
  /\ log \in Log!LogType
  /\ state \in {"running", "finishing", "terminal"}
  /\ end \in Entries
  /\ tasks \in Seq(Tasks)
  /\ conn \in [Conns -> Connections]
  /\ \A c \in Conns : /\ Len(conn[c].channel.queue) <= MaxQueued
                      /\ Len(conn[c].channel.wire) <= HighWater
  /\ client \in Clients
  /\ drops \in 0 .. MaxDrops

(* The notifications still to come.                                        *)
Due == LET appends == Log!Kept(tasks, Appends)
       IN  [i \in 1 .. Len(appends) |-> appends[i].entry]

(***************************************************************************)
(* A live subscription misses nothing and repeats nothing: what is on the  *)
(* wire, in the queue and due to be notified is exactly what was recorded  *)
(* after the client's cursor (or, before its first event, some newest part *)
(* of the run).  This is what subscribing before the replay, buffering and *)
(* the set of delivered ids are for.                                       *)
(***************************************************************************)
LiveStreamIsComplete ==
  \A c \in Conns :
    client.conn = c /\ conn[c].sub = "live" /\ ~conn[c].channel.closed =>
      LET coming == conn[c].channel.wire \o conn[c].channel.queue \o Due
      IN  IF client.cursor = Log!NullCursor
            THEN coming # << >> /\ coming = Log!Newest(History, Len(coming))
            ELSE coming = Log!After(History, client.cursor)

(***************************************************************************)
(* No subscriber outlives its connection: when the handler has returned    *)
(* and the channel is closed, the run holds no reference to it, whether    *)
(* the client left, overflowed or got the end before, during or after the  *)
(* replay.                                                                 *)
(***************************************************************************)
NoLeakedSubscriber ==
  \A c \in Conns :
    conn[c].call = "returned" /\ conn[c].channel.closed => conn[c].sub = "none"

(***************************************************************************)
(* The client is fed as RunFeed promises: it reads the events in order and *)
(* none twice, but for the end, which a client that comes back for a       *)
(* terminal run reads once more (run-lifecycle.ts:140-143); it skips none  *)
(* the log retains, and reaches the end of an ended run.  reads counts     *)
(* every event the client reads, so that a repeated one is no stutter.     *)
(***************************************************************************)
Feed == INSTANCE RunFeed WITH
          recorded <- log.runs[Run].nextId - 1,
          oldest   <- Log!OldestRetainedId(log.runs[Run]),
          ended    <- state # "running",
          seen     <- client.seen,
          reads    <- client.reads,
          done     <- client.sawEnd

ImplementsFeed == Feed!Spec
=============================================================================
