------------------------------ MODULE MCQuery ------------------------------
(* Small instances of Query: no check; a DNS block list, which sends an    *)
(* early result; that and the random check, which may answer anything,     *)
(* with and without a block threshold; a check that asks the DNS helper.   *)
EXTENDS Query

CONSTANTS q1, q2

MCConfig(list, threshold) == [checklist |-> list, block_threshold |-> threshold]

MCHelo == {MCConfig({"helo"}, 0)}
MCConfigs ==
    {MCConfig({}, 0), MCConfig({"dnsbl"}, 0), MCConfig({"reverse"}, 0),
     MCConfig({"dnsbl", "random"}, 0), MCConfig({"dnsbl", "random"}, 2)}
=============================================================================
