---------------------------- MODULE MCRunStream ----------------------------
(***************************************************************************)
(* One run of up to five entries over the in-memory log, which keeps three *)
(* of them, and a client with two connection slots.                        *)
(***************************************************************************)
EXTENDS RunStream
=============================================================================
