------------------------------- MODULE Daemon -------------------------------
(***************************************************************************)
(* A grossd process from its start to its end, over and over (main() in    *)
(* gross.c): it reads the configuration, checks the pid file, maps the     *)
(* state file, serves, and dies.  While it serves, the main thread does    *)
(* the periodic maintenance, and signals, workers, DNS lookups and the     *)
(* status thread come in between.                                          *)
(*                                                                         *)
(* The rotations that main() asks for are in BloomRing, the startup        *)
(* synchronisation is in Sync.                                             *)
(***************************************************************************)
EXTENDS Conf, StateFile, Stats

CONSTANTS
    ConfFiles,       \* configuration files the administrator may write
    ERRORTOLERANCE,  \* check_dnsbl.h
    MaxFlight,       \* bound on the lookups under way in one list
    StatInterval,    \* seconds between two reports, stat_interval
    RefillInterval,  \* seconds between two refills of the tolerance counters
    MaxStarts,       \* bound on the number of processes
    MaxEvents        \* bound on the number of queries, lookups, signals, status
                     \* requests and changes of the configuration file

ASSUME DaemonAssumption ==
    /\ ConfFiles # {} /\ ConfFiles \subseteq Seq(Lines)
    /\ ERRORTOLERANCE \in Nat \ {0} /\ MaxFlight \in Nat
    /\ StatInterval \in Nat /\ RefillInterval \in Nat \ {0}
    /\ MaxStarts \in Nat /\ MaxEvents \in Nat

VARIABLES
    phase,         \* "down", "starting" or "serving"
    pidfile_there, \* the pid file exists
    conffile,      \* the configuration file
    reasons,       \* ctx->config.grey_reason and block_reason
    options,       \* the values of the multivalue options
    pending,       \* FLG_RECONFIGURE_PENDING
    mpc,           \* where the main thread is in its loop
    since_stats, since_refill,  \* seconds since stats.begin and toleration
    tolerance,     \* tolerancecounter of each DNS list
    flight,        \* lookups under way in each DNS list
    starts, events,
    \* What follows is not in the program.
    started,       \* the file the process has read at its start
    announced,     \* the file is as it was at the start or the last SIGHUP
    missed         \* that SIGHUP came between a reload and the end of it

life    == <<phase, pidfile_there, starts, started, events>>
reload  == <<conffile, reasons, options, pending, announced, missed>>
lists   == <<tolerance, flight>>
timers  == <<since_stats, since_refill>>
vars    == <<life, reload, mpc, timers, lists, statefile, statistics>>

ListKinds == {"dnsbl", "rhsbl", "dnswl"}
Options   == ListKinds \cup {"stat_type"}
ListNames(kind) == UNION {WrittenAll(f, kind) : f \in ConfFiles}
DnsLists  == UNION {{<<kind, name>> : name \in ListNames(kind)} : kind \in ListKinds}

(* The values in the files and in DEFAULT_CONFIG. *)
Texts == LineValues(Defaults) \cup UNION {LineValues(f) : f \in ConfFiles}

(* Each file and what read_config() makes of it. *)
Configs       == {<<f, read_config(default_config, f)>> : f \in ConfFiles}
ConfigOf(f)   == (CHOOSE c \in Configs : c[1] = f)[2]
ReadableFiles == {f \in ConfFiles : Readable(f)}
WrittenIn     == [f \in ConfFiles |-> [r \in Reasons |-> Written(f, r)]]

TypeOK ==
    /\ StateFileTypeOK
    /\ StatsTypeOK
    /\ phase \in {"down", "starting", "serving"}
    /\ phase = "down" <=> doing = "none"
    /\ pidfile_there \in BOOLEAN
    /\ conffile \in ConfFiles /\ started \in ConfFiles
    /\ reasons \in [Reasons -> Texts \cup {NULL}]
    /\ options \in [Options -> SUBSET Texts]
    /\ mpc \in {"stats", "log", "refill", "check", "read", "toggle", "sleep"}
    /\ pending \in BOOLEAN /\ announced \in BOOLEAN /\ missed \in BOOLEAN
    /\ since_stats \in 0..(StatInterval + 1)
    /\ since_refill \in 0..RefillInterval
    /\ tolerance \in [DnsLists -> (1 - MaxFlight)..ERRORTOLERANCE]
    /\ flight \in [DnsLists -> 0..MaxFlight]
    /\ starts \in 0..MaxStarts
    /\ events \in 0..MaxEvents

Init ==
    /\ StateFileInit
    /\ StatsInit
    /\ phase = "down"
    /\ pidfile_there = FALSE
    /\ conffile \in ConfFiles
    /\ started = conffile
    /\ reasons = [n \in Reasons |-> NULL]
    /\ options = [n \in Options |-> {}]
    /\ pending = FALSE
    /\ mpc = "stats"
    /\ since_stats = 0 /\ since_refill = 0
    /\ tolerance = [l \in DnsLists |-> ERRORTOLERANCE]
    /\ flight = [l \in DnsLists |-> 0]
    /\ starts = 0 /\ events = 0
    /\ announced = FALSE /\ missed = FALSE

----------------------------------------------------------------------------
Event == events < MaxEvents /\ events' = events + 1

Others == <<phase, pidfile_there, starts, started>>

(* The administrator. *)
Edit(f) ==
    /\ Event
    /\ f # conffile
    /\ conffile' = f
    /\ announced' = FALSE
    /\ UNCHANGED <<Others, reasons, options, pending, missed, mpc, timers, lists, statefile,
                   statistics>>

(* grossd -C *)
CreateStatefile ==
    /\ phase = "down"
    /\ conffile \in ReadableFiles
    /\ \E n \in Sizes : create_statefile(n)
    /\ UNCHANGED <<life, reload, mpc, timers, lists, statistics>>

CleanUp ==
    /\ phase = "down"
    /\ \/ RemoveStatefile /\ UNCHANGED pidfile_there
       \/ pidfile_there /\ pidfile_there' = FALSE /\ UNCHANGED statefile
    /\ UNCHANGED <<phase, starts, started, events, reload, mpc, timers, lists, statistics>>

----------------------------------------------------------------------------
(* The start.  main() reads the configuration, which must be free of       *)
(* errors, looks for the pid file if told to, writes it, and maps the      *)
(* state file.  If that does not fit it exits and the pid file stays.      *)
Start(n, b) ==
    LET config == ConfigOf(conffile)
    IN /\ phase = "down"
       /\ starts < MaxStarts
       /\ conffile \in ReadableFiles
       /\ ~(pidfile_check(config) /\ pidfile_there)
       /\ starts' = starts + 1
       /\ pidfile_there' = (pidfile_there \/ pidfile(config))
       /\ \/ /\ MapFile(n, b)
             /\ phase' = "starting"
             /\ reasons' = [r \in Reasons |-> gconf(config, r)]
             /\ options' = [o \in Options |-> IF o = "stat_type" THEN statlevel(config)
                                                                 ELSE Values(config, o)]
             /\ started' = conffile
             /\ announced' = TRUE
          \/ /\ ~Fits(n)
             /\ UNCHANGED <<statefile, phase, reasons, options, started, announced>>
       /\ UNCHANGED <<events, conffile, pending, missed, mpc, timers, lists, statistics>>

Store ==
    /\ phase = "starting"
    /\ StoreNew \/ CHANGE_ADDRESS
    /\ UNCHANGED <<life, reload, mpc, timers, lists, statistics>>

Serve ==
    /\ phase = "starting"
    /\ doing = "ready"
    /\ phase' = "serving"
    /\ UNCHANGED <<pidfile_there, starts, started, events, reload, mpc, timers, lists, statefile,
                   statistics>>

(* The process ends, and with it what it had in memory. *)
End ==
    /\ phase' = "down"
    /\ Unmap
    /\ init_stats
    /\ mpc' = "stats"
    /\ since_stats' = 0 /\ since_refill' = 0
    /\ tolerance' = [l \in DnsLists |-> ERRORTOLERANCE]
    /\ flight' = [l \in DnsLists |-> 0]
    /\ reasons' = [n \in Reasons |-> NULL]
    /\ options' = [n \in Options |-> {}]
    /\ pending' = FALSE /\ announced' = FALSE /\ missed' = FALSE
    /\ UNCHANGED <<starts, started, conffile>>

(* It is killed, or fails: the pid file stays.  (A bound: there are no     *)
(* more events once a start has failed half way.)                          *)
Die ==
    /\ phase # "down"
    /\ End
    /\ events' = IF phase = "starting" THEN MaxEvents ELSE events
    /\ UNCHANGED pidfile_there

(* mrproper(): SIGINT and SIGTERM, which are blocked until it serves. *)
mrproper ==
    /\ phase = "serving"
    /\ End
    /\ pidfile_there' = (pidfile_there /\ ~pidfile(ConfigOf(started)))
    /\ UNCHANGED events

----------------------------------------------------------------------------
(* The loop of main(). *)
MainAt(here) == phase = "serving" /\ mpc = here

ReportStats ==
    /\ MainAt("stats")
    /\ \/ /\ since_stats > StatInterval
          /\ zero_stats
          /\ since_stats' = 0
          /\ mpc' = "log"
       \/ /\ since_stats <= StatInterval
          /\ mpc' = "refill"
          /\ UNCHANGED <<since_stats, statistics>>
    /\ UNCHANGED <<life, reload, since_refill, lists, statefile>>

(* log_stats() takes the mutex again, in dnsbl_stats(). *)
log_stats ==
    /\ MainAt("log")
    /\ mx = "free"
    /\ mpc' = "refill"
    /\ UNCHANGED <<life, reload, timers, lists, statefile, statistics>>

(* tolerate_dnsbl() *)
tolerate_dnsbl_uncapped(t) == t + 1

tolerate_dnsbl_nonneg(t) == IF t \in 0..(ERRORTOLERANCE - 1) THEN t + 1 ELSE t

tolerate_dnsbl(t) == IF t < ERRORTOLERANCE THEN t + 1 ELSE t

(* Every ten seconds, for the lists in ctx->dnsbl only. *)
increment_dnsbl_tolerance_counters ==
    /\ MainAt("refill")
    /\ \/ /\ since_refill >= RefillInterval
          /\ since_refill' = 0
          /\ tolerance' = [l \in DnsLists |->
                              IF l[1] = "dnsbl" THEN tolerate_dnsbl(tolerance[l])
                                                ELSE tolerance[l]]
       \/ /\ since_refill < RefillInterval
          /\ UNCHANGED <<since_refill, tolerance>>
    /\ mpc' = "check"
    /\ UNCHANGED <<life, reload, since_stats, flight, statefile, statistics>>

CheckPending ==
    /\ MainAt("check")
    /\ mpc' = IF pending THEN "read" ELSE "sleep"
    /\ UNCHANGED <<life, reload, timers, lists, statefile, statistics>>

(* The reload: a file with errors changes nothing. *)
Reload ==
    /\ MainAt("read")
    /\ \E config \in {ConfigOf(conffile)} :
          reasons' = IF conffile \in ReadableFiles THEN reconfigure_grossd(config, reasons)
                                                   ELSE reasons
    /\ mpc' = "toggle"
    /\ UNCHANGED <<life, conffile, options, pending, announced, missed, timers, lists,
                   statefile, statistics>>

(* flags ^= FLG_RECONFIGURE_PENDING *)
Toggle ==
    /\ MainAt("toggle")
    /\ pending' = ~pending
    /\ mpc' = "sleep"
    /\ UNCHANGED <<life, conffile, reasons, options, announced, missed, timers, lists,
                   statefile, statistics>>

Sleep ==
    /\ MainAt("sleep")
    /\ mpc' = "stats"
    /\ since_stats' = IF since_stats > StatInterval THEN since_stats ELSE since_stats + 1
    /\ since_refill' = IF since_refill >= RefillInterval THEN since_refill ELSE since_refill + 1
    /\ UNCHANGED <<life, reload, lists, statefile, statistics>>

Main ==
    \/ ReportStats \/ log_stats \/ increment_dnsbl_tolerance_counters
    \/ CheckPending \/ Reload \/ Toggle \/ Sleep

----------------------------------------------------------------------------
(* SIGHUP: the handler runs in the main thread, anywhere in its loop. *)
reconfig ==
    /\ phase = "serving"
    /\ Event
    /\ pending' = TRUE
    /\ announced' = TRUE
    /\ missed' = (mpc = "toggle")
    /\ UNCHANGED <<Others, conffile, reasons, options, mpc, timers, lists, statefile,
                   statistics>>

(* dnsblc(): query_clearance() keeps a list that timed out too often from  *)
(* being asked; a lookup that times out counts down, also one that was     *)
(* begun before the others did.                                            *)
query_clearance(l) == tolerance[l] > 0

AskList(l) ==
    /\ phase = "serving"
    /\ Event
    /\ l[2] \in options[l[1]]
    /\ query_clearance(l)
    /\ flight[l] < MaxFlight
    /\ flight' = [flight EXCEPT ![l] = @ + 1]
    /\ UNCHANGED <<Others, reload, mpc, timers, tolerance, statefile, statistics>>

ListAnswers(l, timeout) ==
    /\ phase = "serving"
    /\ flight[l] > 0
    /\ flight' = [flight EXCEPT ![l] = @ - 1]
    /\ tolerance' = IF timeout THEN [tolerance EXCEPT ![l] = @ - 1] ELSE tolerance
    /\ UNCHANGED <<life, reload, mpc, timers, statefile, statistics>>

CountQuery(w, s) ==
    /\ phase = "serving"
    /\ Event
    /\ IncfPeriod(w, s)
    /\ UNCHANGED <<Others, reload, mpc, timers, lists, statefile>>

EndQuery(w) ==
    /\ phase = "serving"
    /\ IncfAll(w) \/ \E d \in Delays : delay_update(w, d)
    /\ UNCHANGED <<life, reload, mpc, timers, lists, statefile>>

srvstatus ==
    /\ phase = "serving"
    /\ Event
    /\ \E state \in {SrvState(dead, stuck, out, alone) :
                         dead, stuck, alone \in BOOLEAN,
                         out \in {0, QUEUE_WARN + 1, QUEUE_ERR + 1}} :
          get_srvstatus(state)
    /\ UNCHANGED <<Others, reload, mpc, timers, lists, statefile>>

----------------------------------------------------------------------------
Next ==
    \/ \E f \in ConfFiles : Edit(f)
    \/ CreateStatefile \/ CleanUp
    \/ \E n \in Sizes, b \in Bases : Start(n, b)
    \/ Store \/ Serve \/ Die \/ mrproper
    \/ Main \/ reconfig
    \/ \E l \in DnsLists : AskList(l) \/ \E t \in BOOLEAN : ListAnswers(l, t)
    \/ \E w \in Workers : EndQuery(w) \/ \E s \in Statuses : CountQuery(w, s)
    \/ srvstatus

Spec == Init /\ [][Next]_vars

(* The main thread is scheduled.  Nothing is assumed of the others. *)
FairSpec == Spec /\ WF_vars(Main)

----------------------------------------------------------------------------
(* walk_mmap_info(): a process that serves has a ring whose pointers all   *)
(* point into its own mapping, however often and wherever the file was     *)
(* mapped before.  The exception is a file that some process was           *)
(* initialising or moving to another address when it died: its magic       *)
(* string says it is complete, and the next start goes on from there.      *)
StateFileWhole == phase = "serving" => Whole \/ cut

(* record_config_item(), main(): the options are those of the file the     *)
(* process started with, defaults replaced as a reader expects, and the    *)
(* reasons are those of the file at the last SIGHUP, unless its errors     *)
(* kept it from being read or the reload is still to come.  The exception  *)
(* is a SIGHUP that arrives after a reload has read the file and before    *)
(* it has toggled the flag: it is forgotten.                               *)
ConfigInEffect ==
    phase = "serving" =>
        /\ \A k \in ListKinds : options[k] = WrittenAll(started, k)
        /\ options["stat_type"] = {"full"} \/ options["stat_type"] \subseteq WrittenAll(started, "stat_type")
        /\ announced /\ ~pending /\ ~missed /\ conffile \in ReadableFiles =>
              \A r \in Reasons : reasons[r] = WrittenIn[conffile][r]

(* update_counters(), log_stats(): counted queries are reported once and   *)
(* none is lost between two reports, and an average delay is never longer  *)
(* than the longest delay, although a period may be closed and other       *)
(* queries be counted between a query and its delay.                       *)
StatsConsistent ==
    /\ AddUp
    /\ \A s \in Statuses : avg_delay[s] <= max_delay[s]

(* increment_dnsbl_tolerance_counters(): a DNS block list that timed out   *)
(* too often is asked again some time later.  The exception is a process   *)
(* in which a status query met a server in good health: it holds the       *)
(* statistics mutex for ever, and so main() stops at its next report.      *)
ListsComeBack ==
    \A l \in DnsLists :
        l[1] = "dnsbl" /\ phase = "serving" /\ ~query_clearance(l)
            ~> query_clearance(l) \/ phase # "serving" \/ mx = "status"
=============================================================================
