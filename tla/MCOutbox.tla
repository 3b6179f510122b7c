------------------------------ MODULE MCOutbox ------------------------------
(***************************************************************************)
(* An instance of the fenced outbox: intents enqueued in a transaction and *)
(* on their own, and workers that die, overrun their leases and stop.      *)
(***************************************************************************)
EXTENDS Outbox
=============================================================================
