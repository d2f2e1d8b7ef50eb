---------------------------- MODULE MCBloomRing ----------------------------
(* Two digests in a filter of two bits: they share one, and the words of   *)
(* the second hash to the same bit.                                        *)
EXTENDS BloomRing, TLC

CONSTANTS d1, d2, b1, b2

MCBitsOf == (d1 :> <<b1, b2>>) @@ (d2 :> <<b2, b2>>)
============================================================================
