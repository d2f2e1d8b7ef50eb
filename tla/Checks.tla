------------------------------- MODULE Checks -------------------------------
(***************************************************************************)
(* What the checks of check_*.c may answer: a judgment and a weight, as a  *)
(* function of what the check finds out from DNS, a blocker daemon or an   *)
(* SPF library.  Operators have the names of the check routines.           *)
(***************************************************************************)
EXTENDS Integers

CONSTANTS
    dnsbl_weight,    \* dnsbl->weight of a DNS list
    blocker_weight   \* ctx->config.blocker.weight

ASSUME ChecksAssumption == dnsbl_weight \in Nat /\ blocker_weight \in Nat

(* judgment_t *)
J_UNDEFINED == 0
J_SUSPICIOUS == 1
J_BLOCK == 2
J_PASS == 3

Result == [judgment : J_UNDEFINED..J_PASS, weight : Nat]

Answer(j, w) == [judgment |-> j, weight |-> w]

Undefined == Answer(J_UNDEFINED, 0)

Suspicious(w) == IF w > 0 THEN Answer(J_SUSPICIOUS, w) ELSE Undefined

(* A name or an address that is looked up: not found, found and different  *)
(* from what the client says, or found and the same.                       *)
Lookup == {"none", "other", "same"}

(* The address of the client's PTR name must be the client's. *)
reverse(ptr, addr) ==
    IF ptr = "none" \/ addr # "same" THEN Suspicious(1) ELSE Undefined

(* One point for a HELO name that is not the client's address, one for a   *)
(* PTR name that is not the HELO name; two for a name that is not valid.   *)
helo(valid, addr, ptr) ==
    IF ~valid THEN Suspicious(2)
    ELSE Suspicious((IF addr = "same" THEN 0 ELSE 1) + (IF ptr = "same" THEN 0 ELSE 1))

randomc(r) ==
    CASE r % 7 = 0 -> Answer(J_PASS, 0)
      [] r % 7 # 0 /\ r % 5 = 0 -> Answer(J_BLOCK, 0)
      [] r % 7 # 0 /\ r % 5 # 0 /\ r % 3 = 0 -> Suspicious(1)
      [] OTHER -> Undefined

(* The daemon may be out of reach. *)
blocker(answered, listed) ==
    IF answered /\ listed THEN Answer(J_SUSPICIOUS, blocker_weight) ELSE Undefined

spfc(spf) ==
    CASE spf = "fail" -> Answer(J_BLOCK, 0)
      [] spf = "softfail" -> Suspicious(1)
      [] OTHER -> Undefined

(* addrinfo_callback(): a match in one list, sent at once, and what        *)
(* dnsblc() answers in the end.                                            *)
addrinfo_callback == Answer(J_SUSPICIOUS, dnsbl_weight)

dnsblc(whitelist, done) == IF done /\ whitelist THEN Answer(J_PASS, 0) ELSE Undefined

-----------------------------------------------------------------------------
(* The checks main() can start, and those it registers as definitive. *)
AllChecks == {"dnsbl", "dnswl", "rhsbl", "reverse", "helo", "blocker", "random", "spf"}
DnsLists == {"dnsbl", "dnswl", "rhsbl"}
Definitive == {"dnswl", "random", "spf"}

Final(c) ==
    CASE c \in {"dnsbl", "rhsbl"} -> {dnsblc(FALSE, FALSE)}
      [] c = "dnswl" -> {dnsblc(TRUE, done) : done \in BOOLEAN}
      [] c = "reverse" -> {reverse(ptr, addr) : ptr \in Lookup, addr \in Lookup}
      [] c = "helo" -> {helo(v, addr, ptr) : v \in BOOLEAN, addr \in Lookup, ptr \in Lookup}
      [] c = "blocker" -> {blocker(a, l) : a \in BOOLEAN, l \in BOOLEAN}
      [] c = "random" -> {randomc(r) : r \in 0..104}
      [] c = "spf" -> {spfc(s) : s \in {"fail", "softfail", "pass", "error"}}

Early(c) == IF c \in {"dnsbl", "rhsbl"} THEN {addrinfo_callback} ELSE {}
=============================================================================
