----------------------------- MODULE ThreadPool -----------------------------
(***************************************************************************)
(* A thread pool of thread_pool.c: threads that take edicts from the work  *)
(* queue, start another thread when the last idle one takes a job, reject  *)
(* the job when the pool has its maximum of threads, and shut down when    *)
(* many of them idle.                                                      *)
(*                                                                         *)
(* Steps are the critical sections of pool_ctx->mx and of the queue's own  *)
(* mutex.  ewma_idle is a float; here it is its ceiling, and the moving    *)
(* average of it and an observation is any integer between the two, which  *)
(* decides the comparison with an integer as the float does.               *)
(***************************************************************************)
EXTENDS Integers, Sequences, FiniteSets, SequencesExt

CONSTANTS
    Threads,    \* identities of threads ever created, the bound of the model
    Jobs,       \* edicts that may be submitted
    Limits,     \* the possible values of pool_ctx->max_thread, 0: no limit
    KEEP,       \* threads that never shut down (8 in the source)
    NoJob

(* A job makes the pool start at most one thread, so one identity more     *)
(* than there are jobs is enough.                                          *)
ASSUME ThreadPoolAssumption ==
    /\ IsFiniteSet(Threads)
    /\ IsFiniteSet(Jobs)
    /\ Cardinality(Threads) > Cardinality(Jobs)
    /\ Limits \subseteq Nat
    /\ KEEP \in Nat \ {0}
    /\ NoJob \notin Jobs

VARIABLES
    max_thread, count_thread, count_idle, ewma_idle, wdlist,  \* pool_ctx_t
    due,         \* last_idle_check is more than IDLETIME ago
    work_queue,
    pc, edict,   \* where each thread is and the edict it holds
    job          \* what has become of each edict

vars == <<max_thread, count_thread, count_idle, ewma_idle, wdlist, due,
          work_queue, pc, edict, job>>

Places == {"none", "created", "top", "enter", "blocked", "woken", "got",
           "run", "reject", "gone"}

(* Threads that have counted themselves and those counted as idle. *)
Started == {t \in Threads : pc[t] \notin {"none", "created", "gone"}}
Idling == {t \in Threads : pc[t] \in {"enter", "blocked", "woken"}}

TypeOK ==
    /\ max_thread \in Limits
    /\ count_thread \in Nat
    /\ count_idle \in Nat
    /\ ewma_idle \in Nat
    /\ wdlist \in Seq(Threads)
    /\ due \in BOOLEAN
    /\ work_queue \in Seq(Jobs)
    /\ pc \in [Threads -> Places]
    /\ edict \in [Threads -> Jobs \cup {NoJob}]
    /\ job \in [Jobs -> {"new", "queued", "taken", "done", "rejected"}]

-----------------------------------------------------------------------------
(* create_thread(): which identity the new thread gets does not matter. *)
FreshThread(unused) == CHOOSE t \in unused : TRUE

(* create_thread_pool() starts the first thread. *)
create_thread_pool ==
    /\ max_thread \in Limits
    /\ count_thread = 0
    /\ count_idle = 0
    /\ ewma_idle = 0
    /\ wdlist = <<>>
    /\ due = FALSE
    /\ work_queue = <<>>
    /\ pc = [t \in Threads |-> IF t = FreshThread(Threads) THEN "created" ELSE "none"]
    /\ edict = [t \in Threads |-> NoJob]
    /\ job = [j \in Jobs |-> "new"]

Init == create_thread_pool

submit_job(j) ==
    /\ job[j] = "new"
    /\ job' = [job EXCEPT ![j] = "queued"]
    /\ work_queue' = Append(work_queue, j)
    /\ UNCHANGED <<max_thread, count_thread, count_idle, ewma_idle, wdlist, due, pc, edict>>

Elapse ==
    /\ ~due
    /\ due' = TRUE
    /\ UNCHANGED <<max_thread, count_thread, count_idle, ewma_idle, wdlist, work_queue, pc, edict, job>>

(* A new thread counts itself and enters the watchdog list. *)
Start(t) ==
    /\ pc[t] = "created"
    /\ count_thread' = count_thread + 1
    /\ wdlist' = <<t>> \o wdlist
    /\ due' = FALSE
    /\ pc' = [pc EXCEPT ![t] = "top"]
    /\ UNCHANGED <<max_thread, count_idle, ewma_idle, work_queue, edict, job>>

ShutDownListed(t) ==
    /\ due
    /\ count_thread > KEEP
    /\ ewma_idle > count_thread \div 2
    /\ due' = FALSE
    /\ count_thread' = count_thread - 1
    /\ ewma_idle' = ewma_idle - 1
    /\ wdlist' = IF Head(wdlist) = t THEN Tail(wdlist) ELSE wdlist
    /\ pc' = [pc EXCEPT ![t] = "gone"]
    /\ UNCHANGED count_idle

ShutDown(t) ==
    /\ due
    /\ count_thread > KEEP
    /\ ewma_idle > count_thread \div 2
    /\ due' = FALSE
    /\ count_thread' = count_thread - 1
    /\ ewma_idle' = ewma_idle - 1
    /\ wdlist' = RemoveFirst(wdlist, t)
    /\ pc' = [pc EXCEPT ![t] = "gone"]
    /\ UNCHANGED count_idle

(* EWMA() of the average and the idle threads other than this one. *)
EWMA(e) ==
    \/ ewma_idle <= e /\ e <= count_idle
    \/ count_idle <= e /\ e <= ewma_idle

Idle(t) ==
    /\ ~(due /\ count_thread > KEEP /\ ewma_idle > count_thread \div 2)
    /\ due' = FALSE
    /\ \E e \in 0..Cardinality(Threads) : EWMA(e) /\ ewma_idle' = e
    /\ count_idle' = count_idle + 1
    /\ pc' = [pc EXCEPT ![t] = "enter"]
    /\ UNCHANGED <<count_thread, wdlist>>

(* The top of the loop: the idle check every IDLETIME, then the wait. *)
Top(t) ==
    /\ pc[t] = "top"
    /\ ShutDown(t) \/ Idle(t)
    /\ UNCHANGED <<max_thread, work_queue, edict, job>>

(* get_msg_timed() takes the first edict, ... *)
get_msg(t) ==
    /\ pc[t] \in {"enter", "blocked"}
    /\ work_queue # <<>>
    /\ edict' = [edict EXCEPT ![t] = Head(work_queue)]
    /\ work_queue' = Tail(work_queue)
    /\ job' = [job EXCEPT ![Head(work_queue)] = "taken"]
    /\ pc' = [pc EXCEPT ![t] = "woken"]
    /\ UNCHANGED <<max_thread, count_thread, count_idle, ewma_idle, wdlist, due>>

(* ... waits when there is none, ... *)
Block(t) ==
    /\ pc[t] = "enter"
    /\ work_queue = <<>>
    /\ pc' = [pc EXCEPT ![t] = "blocked"]
    /\ UNCHANGED <<max_thread, count_thread, count_idle, ewma_idle, wdlist, due, work_queue, edict, job>>

(* ... and gives up after IDLETIME, even if an edict has just arrived. *)
TimeOut(t) ==
    /\ pc[t] = "blocked"
    /\ pc' = [pc EXCEPT ![t] = "woken"]
    /\ UNCHANGED <<max_thread, count_thread, count_idle, ewma_idle, wdlist, due, work_queue, edict, job>>

WokenForgotten(t) ==
    /\ pc[t] = "woken"
    /\ count_idle' = IF edict[t] = NoJob THEN count_idle ELSE count_idle - 1
    /\ pc' = [pc EXCEPT ![t] = IF edict[t] = NoJob THEN "top" ELSE "got"]
    /\ UNCHANGED <<max_thread, count_thread, ewma_idle, wdlist, due, work_queue, edict, job>>

WokenTwice(t) ==
    /\ pc[t] = "woken"
    /\ count_idle' = count_idle - (IF edict[t] = NoJob THEN 1 ELSE 2)
    /\ pc' = [pc EXCEPT ![t] = IF edict[t] = NoJob THEN "top" ELSE "got"]
    /\ UNCHANGED <<max_thread, count_thread, ewma_idle, wdlist, due, work_queue, edict, job>>

Woken(t) ==
    /\ pc[t] = "woken"
    /\ count_idle' = count_idle - 1
    /\ pc' = [pc EXCEPT ![t] = IF edict[t] = NoJob THEN "top" ELSE "got"]
    /\ UNCHANGED <<max_thread, count_thread, ewma_idle, wdlist, due, work_queue, edict, job>>

SpawnNone(t) ==
    /\ pc[t] = "got"
    /\ pc' = [pc EXCEPT ![t] = "run"]
    /\ UNCHANGED <<max_thread, count_thread, count_idle, ewma_idle, wdlist, due, work_queue, edict, job>>

(* The last idle thread that takes a job starts another thread, or rejects *)
(* the job if there are too many.                                          *)
Spawn(t) ==
    /\ pc[t] = "got"
    /\ IF count_idle >= 1
       THEN pc' = [pc EXCEPT ![t] = "run"]
       ELSE IF count_thread <= max_thread \/ max_thread = 0
       THEN LET new == FreshThread({u \in Threads : pc[u] = "none"}) IN
               pc' = [pc EXCEPT ![t] = "run", ![new] = "created"]
       ELSE pc' = [pc EXCEPT ![t] = "reject"]
    /\ UNCHANGED <<max_thread, count_thread, count_idle, ewma_idle, wdlist, due, work_queue, edict, job>>

(* The routine returns, or the caller is told that its job was rejected;   *)
(* the thread drops its reference to the edict and goes on.                *)
End(t, at, how) ==
    /\ pc[t] = at
    /\ job' = [job EXCEPT ![edict[t]] = how]
    /\ edict' = [edict EXCEPT ![t] = NoJob]
    /\ pc' = [pc EXCEPT ![t] = "top"]
    /\ UNCHANGED <<max_thread, count_thread, count_idle, ewma_idle, wdlist, due, work_queue>>

Finish(t) == End(t, "run", "done")

RejectSilently(t) == End(t, "reject", "taken")

Reject(t) == End(t, "reject", "rejected")

thread_pool(t) ==
    Start(t) \/ Top(t) \/ get_msg(t) \/ Block(t) \/ TimeOut(t) \/ Woken(t) \/ Spawn(t) \/ Reject(t)

Next ==
    \/ Elapse
    \/ \E j \in Jobs : submit_job(j)
    \/ \E t \in Threads : thread_pool(t) \/ Finish(t)

(* Every thread runs; nothing is said of how long a routine takes. *)
Spec == create_thread_pool /\ [][Next]_vars /\ \A t \in Threads : WF_vars(thread_pool(t))

-----------------------------------------------------------------------------
(* thread_pool(): the two counters that decide on starting, rejecting and  *)
(* shutting down are right in every interleaving.                          *)
CountsRight ==
    /\ count_thread = Cardinality(Started)
    /\ count_idle = Cardinality(Idling)

(* thread_pool(): the watchdog list, whose nodes live on the stacks of the *)
(* threads, holds each running thread once and none that has exited.       *)
WatchdogListsTheLiving ==
    /\ Range(wdlist) = Started
    /\ Len(wdlist) = Cardinality(Started)

(* thread_pool(), "We were the last idling thread, start another": in a    *)
(* pool without limit, as long as no thread has shut down, some thread is  *)
(* on its way to take the next job, however long the others are busy.      *)
Listening == {t \in Threads : pc[t] \in Places \ {"none", "run", "reject", "gone"}}

SomeoneListens ==
    max_thread = 0 /\ (\A t \in Threads : pc[t] # "gone") => Listening # {}

(* thread_pool(): if routines return, every submitted job is run or        *)
(* rejected in the end, with a limit and with threads shutting down too.   *)
JobsEnd ==
    (\A t \in Threads : WF_vars(Finish(t)))
        => \A j \in Jobs : job[j] = "queued" ~> job[j] \in {"done", "rejected"}

(* man/grossd.conf.5.adoc on pool_maxthreads, which becomes max_thread: it *)
(* "is the maximum threadcount per pool".                                  *)
MaxThreadsKept == max_thread > 0 => Cardinality(Started) <= max_thread
=============================================================================
