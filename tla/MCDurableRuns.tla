--------------------------- MODULE MCDurableRuns ---------------------------
(***************************************************************************)
(* An instance of the durable answer: two coordinators, one tool call.     *)
(***************************************************************************)
EXTENDS DurableRuns
=============================================================================
