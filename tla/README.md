# A TLA+ model of grossd

grossd is a greylisting server. A mail server asks it about a triplet (client
address, sender, recipient); grossd looks the triplet up in a ring of Bloom
filters, runs the configured checks in thread pools, and answers TRUST, MATCH,
GREY or BLOCK. Greylisted triplets enter the ring after a delay, so that a
client which comes back later is found. Two servers may replicate each other.

This directory holds specifications of the parts that carry that logic, TLC
configurations that check them on small instances, and TLAPS proofs. File names
without a directory are those of `src/`.

## Inventory

| Part | State | Operations | Who touches it |
|---|---|---|---|
| Bloom ring (`bloom.c`) | group of filters, current index, aggregate, `last_rotate`; may live in a mapped state file | insert, lookup, rotate, zero; merge of a peer's chunk, rebuild of the aggregate (not reached, see below) | written by the bloom manager only, read without a lock by all workers |
| Bloom manager (`bloommgr.c`) | one thread, one message at a time | UPDATE, UPDATE_OPER, ABSOLUTE_UPDATE, ROTATE, SYNC_AGGREGATE | receives from `update_q`; posts the semaphore main() waits on |
| State file (`srvutils.c`) | header with magic string, the ring | create, map, relocate the pointers | main() at start; the manager by writing the ring |
| Message queues (`msgqueue.c`) | queues with a mutex each, the metaqueue of released ones; a delay queue is a pair and a thread | put, instant put, timed get, freeze, walk, thaw, get and release a queue | everybody |
| Thread pools (`thread_pool.c`) | counters, moving average, watchdog list, work queue | submit, start, idle, reject, shut down | protocol servers, test_tuple(), checks |
| Queries (`worker.c`) | request and edict with reference counts, result queue, judgment, weight | test_tuple() | a protocol handler, and a pool thread for every check |
| Checks (`check_*.c`) | tolerance counter of each DNS list | one routine each | pool threads; resolver callbacks |
| DNS helper (`helper_dns.c`) | pipe, cache, answer queues | lookup with a time limit | reverse and helo checks, its own thread |
| Peer sync (`syncmgr.c`) | connection state | startup sync, update of the peer, config exchange | its own threads, test_tuple() |
| Main loop (`gross.c`) | configuration, flags | start, rotate, refill tolerance, reload | main thread, signal handlers |
| Protocols (`worker_*.c`) | one connection or datagram each | parse, answer | pool threads |
| Statistics, status (`stats.c`, `srvstatus.c`) | counters under a mutex | count, log, report | all threads |
| Counters (`counter.c`) | table of counters by address | increment, read | its test |
| Configuration (`conf.c`) | list of items | read a file, look an option up | main() at start and reload |
| Clients (`grosscheck.c`, ...) | a socket, the time left, the servers left | ask, wait, ask the other server | the mail server |
| Utilities | - | I/O, strings, hashes | everybody |

What is hard here is concurrency (a lock-free reader, a delay thread, pools
that grow and shrink, checks that outlive their query), crashes of a process
whose memory is a file, time (late rotations, time limits racing answers), and
reference counting across threads. `PROJECT.json` lists these hazards line by
line.

What makes each part correct: the ring finds what it has to remember and
forgets the rest; the queue delays, keeps order and loses nothing; a pool serves
every job; a query is answered in time, with a decision that does not depend on
the order of the answers, and frees what it shares exactly once; of two servers
neither is harmed by the other, nor waits for it for ever.

## Modules

`BloomRing` - the ring and its manager. A digest is the sequence of its hash
words under the filter's mask, a filter the set of its one bits. Every store is
a step: `InsertAggregate` and `InsertGroup` set one bit, `ZeroNext`, `Copy`,
`ZeroAggregate` and `ZeroGroup` change one, so a lookup (evaluated in
every state) and a `Crash` may come between any two. `GetRotate` is a ROTATE
message that passes the first look at the clock in rotate(); a message that does
not pass changes nothing. `RotateOne` and `RotateZero` are the second look. The
ROTATE messages come from main()'s loop only, so there are none before the workers
start (`phase`), and none after main() has stopped in its loop (`LoopBlocks`): it
calls log_stats(), which needs a mutex that the status thread may keep (see
`Stats`). The messages of a peer are left out, see `Sync`. `stamp`, `touched` and
`crashes` are history variables for the properties. Bits of the copy and the
clearing are stored in any order, which covers the order of memcpy() and of the
loop.

`..._proofs` - the inductive invariants and the proofs, see below.

`DelayChannel` - what a delay queue promises: a delayed message is ready no
sooner than its delay after it was handed over, an instant one at once; each
kind in order, nothing lost, nothing twice, all delivered.

`DelayQueue` - the two queues, the delay thread of `msgqueue.c`, producers, the
consumer and the synchronisation thread that freezes both queues, walks over
them and thaws them. The clock is read before the mutex is taken (`Stamp`), and
the delay thread looks, sleeps, takes and puts in four steps.

`ThreadPool` - one pool. Steps are the critical sections of the pool's mutex and
of the work queue. The moving average is a float in the source; the model keeps
its ceiling and lets the update choose any integer between average and
observation, which is all the comparison with an integer can see. `KEEP` is 8 in
the source; `max_thread` is chosen at the start, so one run has a pool with and
one without limit.

`Checks` - what each check may answer, as operators of what it finds out, and
which checks are registered as definitive.

`Query` - test_tuple(), the checks it starts, the request, the edict and the
result queue they share, and the recycling of queues. Whether a pool runs or
rejects a job is open here, ThreadPool says when. A time limit may pass at any
moment of the wait. The checklist and the block threshold are chosen at the
start. A failed assertion (`aborted`) stops the daemon, as in the default build,
which does not define NDEBUG; so does reading a host's address as if it were a
result. The lookups of helo and reverse take their answer queues from the same
metaqueue as the edicts, so they are here too: `Ask`, `GetAnswer` and `GiveUp` in the
check, `default_cb` and `put_msg_raw` in the helper's thread, which sends into the
queue it was told whoever owns it by then. Pipe, cache and resolver are only in
`DnsHelper`; here the helper ends any of its requests at any time, or never.

`Sync` - two servers in the default build, with assertions. There synchronize()
calls instant_msg() with a size of 0 as soon as its connect() has succeeded
(`syncmgr.c:466`), and Malloc() asserts that a size is not 0, so the server that
finds its peer aborts (`Abort`) and no server ever reads a message of a peer. What
is left is modelled: listening before connecting, the connect() that fails, is cut
off or succeeds, the semaphore main() waits on, the accepting side, which writes its
configuration, filters and waiting updates to a peer that is dead or about to die
while it holds the semaphore and the queue's mutexes, the descriptors it does not
close, the failing accept() that follows from that, and the address it finds then in
a variable it may never have set. A connection is a number; its messages are not
modelled, because nobody reads them.

`DnsHelper` - Gethostbyname() and Gethostbyaddr() as the helo and reverse checks
call them, the pipe, the helper thread and its callback, the answer queues with
their unlocked looks at `active` and `head`, and the cache in which a colliding key
overwrites. A host is known by the key it answers.

`Sjsms` - grosscheck() with its socket, its waits and its second server, the
datagram network (losing, doubling, delaying, reordering), and the two servers with
their PROGRESS packet. Time passes in seconds.

`Conf` - the configuration list as operators: what a line does to it, which files
are refused, what configure_grossd() and reconfigure_grossd() take from it.

`StateFile` - the mapped file. A pointer is kept as its distance from the place of
its target, so it is right when it equals the address of the mapping. Each store
of the initialisation and of walk_mmap_info() is a step.

`Stats` - counters, delays and the mutex, the status thread's critical section.

`Daemon` - EXTENDS the last three: one grossd from start to end, the maintenance
loop, the signal handlers, the tolerance counters of DNS lists, the pid file, and
the administrator who edits and removes files.

`MC...` - the instances.

Which module composes which: `DelayQueue` implements `DelayChannel`; what the
freeze in `Sync` does to the queue and its users is in `DelayQueue`. `Query` takes
`Checks` for the answers, shares the metaqueue with the lookups, whose inner life is
`DnsHelper`, and leaves the datagrams around it to `Sjsms`. `Daemon` is the process around all of them.

## Runs

| Run | Shows |
|---|---|
| `bloom_crash` | Three filters in a state file, two digests that share a bit, clock up to 5, two crashes, restarts that find the file or an empty ring. `NoFalseNegative`: a digest is found by every lookup, in every intermediate state of the memory, until `num_bufs` intervals after the `last_rotate` at which it was inserted. `NoOverstay`: bits leave the ring; a crash may cost one rotation. `CatchesUp`: an overdue rotation is caught up with while main() is in its loop. |
| `delay_queue` | Two delayed messages (an update of this server and one of the peer) and an instant one. `ImplementsChannel` is the refinement of DelayChannel, with its fairness. `FreezeHolds`, `DelayedUpdatesAreSent`, `AllReceived`. |
| `delay_walk` | Violated: walk_queue() does not visit the second queue. |
| `thread_pool` | Three jobs, four threads, limit none or 1, `KEEP` = 1. `CountsRight`, `WatchdogListsTheLiving`, `SomeoneListens`, `JobsEnd`. |
| `thread_pool_max` | Violated: more threads than `pool_maxthreads`. |
| `query` | Two queries with no check, with a DNS list, or with the check reverse, which looks an address and then a name up; or one query with a DNS list and the random check (which can give every judgment), block threshold 0 or 2. One lookup may be given up. `NothingUsedAfterFree`, `ResultsGoHome`, `NothingLeaks` and `DecisionIndependentOfOrder` are stated for as long as none has been; `WaitEnds` holds always: the wait ends although a check may never answer. |
| `query_flush` | Violated: the NULL of a rejected check left in the queue fails the assertion of edict_unlink(). |
| `query_lookup` | Violated, with the check helo: after a lookup was given up, its queue becomes a result queue and gets the helper's NULL, which test_tuple() takes for a check that was not run (`NullMeansNotRun`). |
| `sync` | Two servers, five starts, two faults (a crash, a refused socket, a connection cut off, a stranger), two descriptors. `OneFindsTheOther`: two servers that both serve have missed each other only if a connect() failed although the peer was listening. `ServingSurvives`: a server that serves goes down only when it is killed. `StartupEnds`: main() gets past the semaphore or the process ends, unless the sync manager could not listen. `PeerIsDealtWith`: the sync manager does not stay with a connection for ever. |
| `dns` | A helo and a reverse check of one client, a name and the address colliding in the cache. `OneOwner` of every answer queue; `RightAnswers`: a host that belongs to another key is seen only after a lookup that was given up; `QueuesComeBack`: at most one queue is lost for each lookup that was given up; `LookupsEnd`, if the resolver ends the lookups of addresses. |
| `sjsms` | Two calls, two ports, two servers, two faults. `NoNeedlessFailure`; `WaitBounded`, unless the port may still get answers to an earlier call. |
| `daemon` | Three starts, three events, three configuration files, two addresses of the mapping, two workers. `StateFileWhole`, `ConfigInEffect`, `StatsConsistent`, `ListsComeBack`, with the exceptions they state. |

### Bounds

Three filters are the smallest ring in which the cleared filter, the current
one and a third differ; a clock of 5 lets a rotation be late by more than the
whole ring. Two digests with a common bit make false positives happen. In
DelayQueue, two delayed messages suffice for an overtaking and one instant
message for the mix of kinds. A job makes a pool start at most one thread, so
four threads are no restriction for three jobs. In Query, `MaxJobs` keeps the
product of queries and checks at 2: two queries are what recycling needs, two
checks what the order of results needs. `MaxEarly` = 1: a second early result
adds weight only. With two queues a third user waits for one to be released, so a queue
goes from a lookup to an edict and back; with three, and the check reverse alone, there
are several times as many states and everything holds as well. In Sync, five starts let a
server start, find its peer, abort and start again twice, which uses up the two
descriptors of the other one; two faults bring both servers down once, or let one
connection be cut off and a server die after it. In
DnsHelper two lookups of two checks make a queue go from one to the other while an
answer is on its way. In Sjsms the waits are those of the source and the
query time limit is 5 seconds; two calls let an answer to the first one come
during the second. In Daemon, `MaxEvents` is the budget for queries, lookups, signals,
status requests and edits together; a process that dies during its start uses it
up, because what happens to the state file then does not depend on them. One
size of ring is enough to refuse files that are missing or incomplete; with two
(`Sizes` = {1, 2}) the run takes three times as long and passes as well.
`ERRORTOLERANCE` is 5 in the source and 1 here, with two lookups at once, so that
the counter gets below zero.

### Fairness

- BloomRing: the manager is scheduled (WF of what it does with a message), and a
  ROTATE that main()'s loop sends again every second is received (SF): the second
  queue is first in, first out. Nothing is assumed of a main() that is not in its
  loop, neither that it gets there nor that it stays.
- DelayQueue: threads run and time passes; a thread that waits for a mutex gets
  it in the end (SF), although the synchronisation thread may freeze again and
  again. POSIX does not promise this of a default mutex; freezes are as rare as
  connections of the peer.
- ThreadPool: every thread runs. `JobsEnd` assumes that routines return.
- Query: of the queries that wait and can go on, one does; that is less than the
  scheduling of every query's thread, and enough because the steps of a wait are
  bounded. Nothing is assumed of the checks.
- Sync: main() and the sync manager run. The writing of the filters is assumed to
  end only when the peer is gone: a peer that lives may read nothing. Nobody has to
  start or crash.
- DnsHelper: the askers and the helper run, and the resolver ends every lookup of
  an address, for which c-ares has time limits of its own; a name may stay
  unanswered for ever.
- Daemon: the main thread runs. Nothing is assumed of workers or of the status
  thread.

### Findings

- `msgqueue.c:726`: the second loop of walk_queue() starts at the head of the
  first queue. Waiting updates whose delay is over are not sent to a peer that
  connects, the others are sent twice (which is harmless).
- `thread_pool.c:174`: `<=`, and a count that lags behind create_thread(), let a
  pool exceed `pool_maxthreads`.
- `thread_pool.c:317`: with a full pool, a query that is decided by a white list
  or ends by time before it reads the NULL of a rejected check leaves it in the
  queue; whoever drops the last reference runs into the assertion. Without
  assertions the request's reference would be lost instead.
- `helper_dns.c:264`: Gethostbyname() releases its queue when its time limit passes,
  and the helper may still answer into it. If the queue has become the result queue
  of a query, test_tuple() takes the NULL of a failed lookup for a check that was not
  run: it drops a reference of the request that nobody held, so that a check may use
  it after it was freed, and stops waiting one result too early. A host instead of
  NULL is read as a result, its address as the reason.

Met while modelling, without a run of their own:

- Pools and queries: a pool that has shut a thread down may have none listening
  while all others are busy (`thread_pool.c:109`); no check ever sets `definitive`
  in its result, so the shortcut described at `worker.c:332` is taken only if no
  definitive check is configured; `update = grey` also updates on MATCH
  (`worker.c:406`), where the manual says only on GREY
  (man/grossd.conf.5.adoc:93-97).
- Peers: a server that starts while its peer is up aborts on a message of size 0
  (`syncmgr.c:466`, `Abort` in `Sync`), although README.md:11 says that Gross can run
  parallel on two servers. A build with NDEBUG would live, but not be in sync: the
  bloom manager gets an empty message and looks at the type of the one before it
  (`bloommgr.c:70`), so the messages of size 0 (`syncmgr.c:273` too) do not arrive,
  nobody posts the semaphore for `gross.c:789`, and main() waits for ever; what comes
  from the peer lacks the last word of every digest (`syncmgr.c:342`) and of every
  chunk of a filter (`syncmgr.c:317`). That build is not modelled.
  A sync manager that cannot listen exits with the semaphore taken, and main()
  waits for ever (`syncmgr.c:541`, the exception of `StartupEnds`). An accepted
  descriptor is never closed; when none is left accept() fails, and what happens then
  depends on the address of the connection before (`syncmgr.c:482`).
  sync_aggregate(), which is not reached, would clear the aggregate in place before
  it adds the filters again (`bloom.c:447`).
- DNS: an answer that comes after the asker gave up goes to the next user of the
  queue, who also stores it in the cache under its own key (the exception of
  `RightAnswers`). The request in the pipe points to the asker's string, which is
  freed if the asker gives up before the helper has read it (`helper_dns.c:247`).
  Gethostbyaddr_str() ignores its time limit
  (`helper_dns.c:299`). Only block lists are refilled (`gross.c:874`): a
  right-hand-side or white list that has used up its tolerance is not asked again.
- grosscheck: a late answer to an earlier call that had the same port is taken for the
  answer to this one (`grosscheck.c:195`); a query that the server cannot parse gets no reply and costs the whole
  wait; F does not lead to the second server; with `query_timelimit` of 11 seconds
  or more the server may speak after the client's last wait, which
  `SjsmsAssumption` excludes.
- Status and statistics: the status thread of a healthy server takes the
  statistics mutex twice (`srvstatus.c:93`) and stops it for everybody, the
  exception of `ListsComeBack`. Longest delays are never reset, and an average is
  too low when two queries are counted before either delay is.
- Configuration: status_host and status_port are read but not in `VALID_NAMES`;
  `RUNTIME_MODIFIABLE` names more options than a reload changes; a second `pidfile`
  line replaces the path and keeps the first one's parameters; a SIGHUP during a
  reload is forgotten (the exception of `ConfigInEffect`); read_config() does not
  close its file.
- State file: a start that dies in the initialisation or in a relocation leaves a
  file whose magic string is right and whose pointers are not (the exception of
  `StateFileWhole`); a half-created file has to be removed by hand. A failed start
  leaves its pid file.

## Proofs

A `..._proofs` module holds the inductive invariant `IInv` of its component and the
theorems, which hold for every value of the constants that the named ASSUMEs of the
component admit (TLC evaluates them in every run). In each of them `InvariantHolds`
is `Spec => []IInv` and `TypeCorrect` is `Spec => []TypeOK`; the others state the
invariants and action properties the runs check. Every `IInv` was checked with TLC on the
instances of the runs before it was proved, that of Query without `SumOK`, which
quantifies over functions.

| Module | Theorems | For every |
|---|---|---|
| `BloomRing_proofs` | `NoFalseNegatives`, `EntriesLeave` | ring, interval, digests, number of crashes |
| `ThreadPool_proofs` | `CountersCorrect`, `WatchdogCorrect`, `PoolListens` | finite sets of jobs and threads, `KEEP`, limit |
| `DnsHelper_proofs` | `QueuesOwned`, `AnswersRight` | askers, names, hash function |
| `Sjsms_proofs` | `FailsForAReason`, `WaitIsBounded` | calls, ports, faults, time limits |
| `DelayQueue_proofs` | `WalkSendsDelayed`, `FreezeIsExclusive`, `QueueRefinesChannel` | messages, delay, interleaving |
| `Query_proofs` | `ResultsStayHome`, `ReferencesCounted`, `EverythingReturned`, `OrderDoesNotMatter` | queries, checks (helo and reverse with their lookups included), thresholds; all but `TypeCorrect` as long as no lookup has been given up |
| `Daemon_proofs` | `RingIsWhole`, `FileInEffect`, `StatsAddUp` | configuration files, ring sizes, addresses, workers, number of starts |
| `Sync_proofs` | `FoundByOne`, `ServersSurvive` | number of starts, crashes, faults and descriptors |

**BloomRing.** `NoFalseNegative` is not inductive, because a rotation replaces the
aggregate by the union of the group. `IInv` follows a remembered digest through the
ring: some filter holds all its bits (`RingInv`), and `last_rotate` has moved on by
at least one interval for each advance since that filter was current. When the next
filter is cleared its age would be `num_bufs`, so what only it holds has expired
(`OldestExpired`). `Paid` accounts for the moment between `RotateOne`, which adds
the interval, and `Advance`: it is this order that makes a crash in between
harmless. The other parts say what the aggregate, the copy and a half-made
insert contain. `EntriesLeave` is the opposite bound and has an invariant
of its own, `StayInv`: a bit of a filter was set at most as many intervals ago as
the filter is advances old, and one more for every crash that came between the
interval and the advance; the aggregate is one rotation behind until the copy is
done.

**ThreadPool.** The counters say how many threads are where, not that a thread that
is to run a job has one, nor that no two have the same; `EdictInv` and `QueueInv`
say where each job is. `UnusedInv` says that a thread is left to be started for each
job that may still start one; it follows from the assumption that there are more
threads than jobs, which makes the bound on threads no restriction.

**DnsHelper.** `RightAnswers` depends on where a request can be:
in the pipe, with the resolver, in the callback or, answered, in a queue. `ItemInv`
says of each of these places that what is there belongs to a lookup that was given
up, or to one whose asker is waiting on that very queue; `OnceInv` that it is in one
of them only, and only once.

**Sjsms.** `PortInv` says whose datagrams a port can receive. `ServedInTime` is an
argument about two clocks: as long as nothing has failed, a server that was asked
has the query on its way, works on it or has answered, and the age of its job and
what is left of the client's wait add up to enough for the next packet to come in
time. `BoundInv` bounds the wait by counting the datagrams and jobs from which a P
may still come. `SjsmsAssumption` is what the seconds in `grosscheck.c` and
`proto_sjsms.c` satisfy.

**DelayQueue.** The delay thread looks at the first message, sleeps, and takes the
first message. That this is the same message and that its delay is over is
`ThreadInv`; the refinement of DelayChannel follows from it step by step. What the
walk sends is a recursive function of the queue, and an induction over its length
shows that it leaves out no update.

**Query.** `IInv` has two halves. `Base` holds whatever the DNS helper does: the types,
which jobs there are, that an edict's count is the number of its holders
(`EdictInv`), and that every queue number in use has been handed out. `Sound` is for
as long as no lookup has been given up. `RequestOK` makes the count of the request
exact; a reference may be held by nobody but the NULL message of a rejected check,
which is why it is lost if the message is. `QueueInv` and `Home` say that a queue
belongs to one edict, to one lookup or to the metaqueue, and that it holds only what
is for its owner. For this `LookupInv` is needed: what the helper has still to answer
is for a lookup that waits, on a queue that is empty until then, and it answers once,
so a lookup that has its answer gives an empty queue back into which nobody sends.
`GiveUp` is the one step that breaks this. For the decision, `SumOK` says that the
results in the queue and those already added up give the sum of all that were sent,
`LastOK` and `RunningOK` that `checks_running` counts the last messages still to
come, and `DecisionOK` that an early decision is not changed by what was not waited
for.

**Daemon.** `ReadConfig` is an induction over the lines of a file: the list that
read_config() builds holds of each option what a reader expects of it, the defaults
included, and the head of the list is never a default that would have to be removed.
`RingInv` says of a file that is being initialised or moved how far it has got in
the fixed order of the stores; every pointer is stored after the one through which
it is reached, so no store goes astray. `ReasonsInv` says from when to when the
reasons are those of the file, between a reload and the toggling of the flag.
`AddUp` counts the workers between the two increments of a query.

**Sync.** Where the sync manager is says what the semaphore is worth, and so whether
main() can have begun to serve (`GuardOK`): a server whose connect() has succeeded has
never released the semaphore, so the one that aborts does not serve. `FoundOK` is the
argument about two servers that start at once: whoever is past a failed connect()
listens, so of two of them the later one must have found the other, unless its
connection was cut off. `Counts` shows that no server runs out of connection
numbers. The assumption is that there are two servers.

The provers that are used do instantiate the least-number principle, from which
the inductions over queues, files and lists above are derived. A constant string is
not known to be a member of STRING, so the types of `Daemon` use the set of values
that occur in the files (`Texts`).

Left to TLC: liveness (`CatchesUp`, `AllReceived`, `JobsEnd`, `WaitEnds`,
`StartupEnds`, `PeerIsDealtWith`, `LookupsEnd`, `ListsComeBack`, the fairness of
DelayChannel), which is out of the prover's reach, and
`QueuesComeBack`. Every other invariant a passing run checks has a theorem.

## What is not modelled

- The clock is monotone: a clock that is set back delays rotations by as much and
  is not covered.
- The content of messages, log and query log, matches per DNS list; the error rate
  of the filters (floating point); the splitting of a configuration line; options
  that are only copied, and the command line.
- The Postfix and milter dialogues: one blocking conversation per thread, ended by
  the client. Their use of requests and queries is in Query.
- `counter.c` is used by its test only. `lookup3.c` and `sha256.c` are hash
  functions on 32-bit words, out of TLC's reach and covered by test vectors.
  `addrutils.c` and most of `utils.c` are sequential string and bit handling with
  unit tests. gclient and the two `client_*.c` send one query.
- Memory exhaustion and failing system calls that end the daemon. The delay of a
  queue never changes, because set_delay(), enable_delay() and disable_delay()
  have no caller.
- Two processes that start at once: check_pidfile() and create_pidfile() are one
  step of `Start`, so two daemons that both pass the check do not occur.
- What the peer's messages lead to: recv_syncs(), recv_startup_sync(),
  recv_oper_sync(), recv_config_sync(), insert_absolute_bloom_ring_queue() and
  sync_aggregate(). In the default build nobody lives to read a message, with NDEBUG
  the messages are not the ones that were meant (see Findings).
- How long a network write blocks with both queue mutexes held: `FreezeHolds` says
  that nothing changes meanwhile, `PeerIsDealtWith` that it ends when the peer does.

## Plan

1. The Postfix dialogue, and the address masking as an operator against a
   reference definition.
