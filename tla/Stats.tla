-------------------------------- MODULE Stats --------------------------------
(***************************************************************************)
(* The statistics (stats.c), counted by the worker threads                 *)
(* (update_counters() and finalize() in worker.c), reported and zeroed by  *)
(* main(), and read by the status thread (srvstatus.c).                    *)
(*                                                                         *)
(* A worker takes the mutex three times for one query, and main() may come *)
(* in between.  Only get_srvstatus() calls a function that takes the mutex *)
(* while it holds it, so the other critical sections are one step each.    *)
(***************************************************************************)
EXTENDS Integers, FiniteSets

CONSTANTS
    Workers,     \* threads that answer queries
    Statuses,    \* kinds of answers: trust, match, greylist, block
    Delays       \* milliseconds a query may take

ASSUME StatsAssumption ==
    /\ IsFiniteSet(Workers)
    /\ Statuses # {}
    /\ Delays \subseteq Nat /\ Delays # {}

VARIABLES
    mx,        \* stats.mx: "free", or "status" while get_srvstatus() holds it
    count,     \* stats.trust, ...: queries in this period
    all,       \* stats.all_trust, ...: queries since the start
    avg_delay, max_delay,
    worker,    \* where a worker is, and the status of its query
    logged     \* not in the program: queries in the periods that were reported

statistics == <<mx, count, all, avg_delay, max_delay, worker, logged>>

Zeros == [s \in Statuses |-> 0]
Idle  == [pc |-> "idle", status |-> CHOOSE s \in Statuses : TRUE]

StatsTypeOK ==
    /\ mx \in {"free", "status"}
    /\ \A f \in {count, all, avg_delay, max_delay, logged} : f \in [Statuses -> Nat]
    /\ worker \in [Workers -> [pc : {"idle", "all", "delay"}, status : Statuses]]

StatsInit ==
    /\ mx = "free"
    /\ count = Zeros /\ all = Zeros
    /\ avg_delay = Zeros /\ max_delay = Zeros
    /\ worker = [w \in Workers |-> Idle]
    /\ logged = Zeros

(* The process ends, and with it its memory; init_stats() starts from      *)
(* zero.                                                                   *)
init_stats ==
    /\ mx' = "free"
    /\ count' = Zeros /\ all' = Zeros
    /\ avg_delay' = Zeros /\ max_delay' = Zeros
    /\ worker' = [w \in Workers |-> Idle]
    /\ logged' = Zeros

----------------------------------------------------------------------------
(* update_counters(): INCF_STATS twice. *)
IncfPeriod(w, s) ==
    /\ worker[w].pc = "idle"
    /\ mx = "free"
    /\ count' = [count EXCEPT ![s] = @ + 1]
    /\ worker' = [worker EXCEPT ![w] = [pc |-> "all", status |-> s]]
    /\ UNCHANGED <<mx, all, avg_delay, max_delay, logged>>

IncfAll(w) ==
    /\ worker[w].pc = "all"
    /\ mx = "free"
    /\ all' = [all EXCEPT ![worker[w].status] = @ + 1]
    /\ worker' = [worker EXCEPT ![w].pc = "delay"]
    /\ UNCHANGED <<mx, count, avg_delay, max_delay, logged>>

(* The running average of n delays, here in whole milliseconds.  n is 0 if *)
(* the period was closed since the query was counted; n - 1 is unsigned in *)
(* the program.                                                            *)
Average(old, n, d) == IF n = 0 THEN d ELSE (old * (n - 1) + d) \div n

(* finalize(): trust_delay_update(), match_delay_update(), ... *)
delay_update(w, d) ==
    LET s == worker[w].status
    IN /\ worker[w].pc = "delay"
       /\ mx = "free"
       /\ avg_delay' = [avg_delay EXCEPT ![s] = Average(@, count[s], d)]
       /\ max_delay' = [max_delay EXCEPT ![s] = IF @ < d THEN d ELSE @]
       /\ worker' = [worker EXCEPT ![w] = Idle]
       /\ UNCHANGED <<mx, count, all, logged>>

(* The longest delay is not reset. *)
zero_stats_all ==
    /\ mx = "free"
    /\ count' = Zeros
    /\ all' = Zeros
    /\ avg_delay' = Zeros
    /\ logged' = [s \in Statuses |-> logged[s] + count[s]]
    /\ UNCHANGED <<mx, max_delay, worker>>

zero_stats ==
    /\ mx = "free"
    /\ logged' = [s \in Statuses |-> logged[s] + count[s]]
    /\ count' = Zeros
    /\ avg_delay' = Zeros
    /\ UNCHANGED <<mx, all, max_delay, worker>>

----------------------------------------------------------------------------
QUEUE_WARN == 30
QUEUE_ERR  == 50

(* get_srvstatus(): a dead thread or a rotation that is overdue by a       *)
(* minute, the updates the bloom manager has not taken, the peer.          *)
SrvState(dead, stuck, update_len_out, peer_missing) ==
    IF dead \/ stuck \/ update_len_out > QUEUE_ERR THEN "ERR"
    ELSE IF update_len_out > QUEUE_WARN \/ peer_missing THEN "WARN"
    ELSE "OK"

(* When all is well it takes the mutex and, in dnsbl_stats(), waits for    *)
(* it: nobody answers the next status query.                               *)
get_srvstatus(state) ==
    /\ mx = "free"
    /\ mx' = IF state = "OK" THEN "status" ELSE mx
    /\ UNCHANGED <<count, all, avg_delay, max_delay, worker, logged>>

(* Every query is in exactly one report, or in the period that has not     *)
(* been reported yet, and in the total, once both increments are done.     *)
AddUp ==
    \A s \in Statuses :
        all[s] + Cardinality({w \in Workers : worker[w].pc = "all" /\ worker[w].status = s})
            = logged[s] + count[s]
=============================================================================
