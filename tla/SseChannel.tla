----------------------------- MODULE SseChannel -----------------------------
(***************************************************************************)
(* The bounded server-sent-event channel of packages/http-kit/src/sse.ts,  *)
(* as a value and the operations on it.  A channel queues events until it  *)
(* is opened and while the socket reports backpressure; it closes itself   *)
(* after the terminal event and when a stalled client overflows the queue. *)
(*                                                                         *)
(* wire is the socket: events written and not yet received.  A write that  *)
(* fills it to HighWater returns false; "drain" comes when it is empty.    *)
(* The queue of a closed channel is unreachable and counts as empty.       *)
(***************************************************************************)
EXTENDS Integers, Sequences

CONSTANTS
  MaxQueued,     (* maxQueuedEvents, at least 1                            *)
  HighWater,     (* the socket's high-water mark, in events                *)
  IsEndEvent(_)  (* isEndEvent                                             *)

NewChannel == [queue |-> << >>, flowing |-> FALSE, writable |-> TRUE,
               closed |-> FALSE, wire |-> << >>]

MarkClosed(c) == [c EXCEPT !.closed = TRUE, !.queue = << >>]

(* How many queued events the pump's loop takes: until the socket is full, *)
(* the queue is empty or the terminal event has been written.              *)
PumpCount(c) ==
  LET room == HighWater - Len(c.wire)
      most == IF Len(c.queue) < room THEN Len(c.queue) ELSE room
      ends == {i \in 1 .. most : IsEndEvent(c.queue[i])}
  IN  IF ends = {} THEN most ELSE CHOOSE i \in ends : \A j \in ends : i <= j

Pump(c) ==
  IF ~c.flowing \/ c.closed \/ ~c.writable THEN c
  ELSE LET n    == PumpCount(c)
           wire == c.wire \o SubSeq(c.queue, 1, n)
           sent == [c EXCEPT !.queue    = SubSeq(@, n + 1, Len(@)),
                             !.wire     = wire,
                             !.writable = Len(wire) < HighWater]
       IN  IF n > 0 /\ IsEndEvent(c.queue[n]) THEN MarkClosed(sent) ELSE sent

(* Variant: the queue has no limit.                                        *)
EnqueueAllUnbounded(c, events) ==
  IF c.closed THEN c ELSE Pump([c EXCEPT !.queue = @ \o events])

(***************************************************************************)
(* enqueue of one event after the other.  What the socket does not take is *)
(* queued; a full queue means a stalled client, which is disconnected.     *)
(***************************************************************************)
EnqueueAll(c, events) ==
  IF c.closed THEN c
  ELSE LET pumped == Pump([c EXCEPT !.queue = @ \o events])
       IN  IF Len(pumped.queue) > MaxQueued THEN MarkClosed(pumped) ELSE pumped

Open(c) == IF c.closed THEN c ELSE Pump([c EXCEPT !.flowing = TRUE])

(* onEvent of the run stream: open, then enqueue, for each of the events.  *)
OnEvents(c, events) ==
  IF c.closed \/ events = << >> THEN c ELSE EnqueueAll([c EXCEPT !.flowing = TRUE], events)

(* The "drain" event of the response.                                      *)
CanDrain(c) == ~c.closed /\ ~c.writable /\ c.wire = << >>

Drained(c) == Pump([c EXCEPT !.writable = TRUE])
=============================================================================
