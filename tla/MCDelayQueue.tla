---------------------------- MODULE MCDelayQueue ----------------------------
(* Small instances of DelayQueue: updates u1 and u2, an update o1 received *)
(* from the peer (UPDATE_OPER), and a rotation r1.                         *)
EXTENDS DelayQueue

CONSTANTS u1, u2, o1, r1
=============================================================================
