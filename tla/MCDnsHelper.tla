---------------------------- MODULE MCDnsHelper ----------------------------
(* Two queries of the same client, one checked by helo and one by reverse, *)
(* whose helo name and address share a slot of the cache.                  *)
EXTENDS DnsHelper, TLC

CONSTANTS a1, a2, x, n1, n2

MCCheck    == (a1 :> "helo") @@ (a2 :> "reverse")
MCHeloName == (a1 :> n1) @@ (a2 :> n1)
MCAddress  == (a1 :> x) @@ (a2 :> x)
MCPtrName  == x :> n2
MCHash     == (n1 :> 1) @@ (x :> 1) @@ (n2 :> 2)
============================================================================
