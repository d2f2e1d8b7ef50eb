------------------------------ MODULE MCSjsms ------------------------------
(* Two calls with two ports to choose from. *)
EXTENDS Sjsms

CONSTANTS p1, p2
============================================================================
