------------------------------- MODULE MCSync -------------------------------
(* Two servers. *)
EXTENDS Sync

CONSTANTS s1, s2
============================================================================
