--------------------------- MODULE MCRunLifecycle ---------------------------
(***************************************************************************)
(* Instances of the run registry; each cfg chooses a log adapter, options  *)
(* and bounds:                                                             *)
(*                                                                         *)
(*   Durable     two runs over the sqlite log, one retained terminal run,  *)
(*               a failing append and two crashes                          *)
(*   Watchdogs   one run over the in-memory log with both watchdogs,       *)
(*               cancellation and nested slow-run suspensions              *)
(*   CursorReuse, StaleEnd, KeyAfterRestart, SpentWatchdog                 *)
(*               the smallest instances of four promises the code breaks   *)
(***************************************************************************)
EXTENDS RunLifecycle
=============================================================================
