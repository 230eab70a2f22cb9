# icecream: a TLA+ verification project

icecream distributes C and C++ compilations over the machines of a network.
This directory models the program's own core logic in TLA+, checks it with TLC
on small instances and proves the central invariants with TLAPS for every size.
Paths in this file are relative to the repository (`src/` here).

## The system

| Part | State | Operations | Talks to |
|---|---|---|---|
| Scheduler (`scheduler/scheduler.cpp`, `compileserver.cpp`, `job.cpp`) | connected daemons `css`, jobs `jobs`, queue `job_requests`, per server: job list, slots, load, busy flag, environments, blacklist | login, relogin, GetCS, JobBegin, JobDone, local jobs, stats, ping, blacklist, `empty_queue`, `prune_servers`, control commands | daemons over one TCP connection each; monitors and a telnet control port |
| Daemon (`daemon/main.cpp`) | `clients` with a status each, `current_kids`, `active_processes`, environment caches, the scheduler connection | client messages, scheduler messages, ends of child processes, `handle_old_request`, reconnect | clients on the same host, clients of other hosts, the scheduler, child processes |
| Compile child (`daemon/serve.cpp`, `workit.cpp`) | one job | receive the source, run the compiler in a chroot, send the result | its client, its daemon through a pipe |
| Environment cache (`daemon/environment.cpp`, `daemon/main.cpp`) | received and native environments, cache size | install, create, verify, evict | clients, child processes |
| Client (`client/remote.cpp`, `main.cpp`) | one compilation | ask for servers, transfer the environment, send the source, fall back to a local compilation | its daemon, one or more remote daemons |
| Message channel (`services/comm.cpp`) | input and output buffers, the protocol version agreed on | framing, version exchange, partial reads and writes, the formats of some forty messages | everything |
| Discovery (`services/comm.cpp`, callers in `scheduler.cpp`, `daemon/main.cpp`) | best answer so far; per scheduler a version and a start time | broadcast, answer, announcement, giving way | daemons and schedulers over UDP |
| Selection (`scheduler/scheduling_algo.cpp`, `scheduler.cpp`) | last job id and statistics of each server | round robin, least busy, fastest, refresh of statistics | the scheduler |

The scheduler and the daemon are single-threaded event loops; what makes them
hard is that messages, disconnects and child exits arrive in any order between
two iterations. A daemon or client can go away at every point; the
scheduler deletes objects that other objects point to; a slot counter is given
back on several paths; a restart of the scheduler leaves daemons with old ids. Client
and compile child are sequential programs with a connection that may break between any
two of their steps, a compiler that may crash, hang or fill the memory, and a timeout at
every wait.

What each part has to get right:

* scheduler: no job outlives its submitter or server, the lists agree, no server
  is given work beyond its limits or against its login options, requests are
  served fairly and eventually, a daemon that reconnects is counted once;
* queue: sorted by niceness, round robin between submitters, first in first out
  within a submitter, empty groups gone;
* daemon: slots taken and given back exactly once, a message to the scheduler
  about every job that ends, the documented status machine, local jobs not
  starved;
* environment cache: nothing in use is evicted, the size covers what is there, enough is
  evicted, and a client is only given a native environment that the daemon knows;
* client and compile child: a compilation always ends, with a whole object or none, and
  with the exit code of the source, not of the trouble another host had; every job that
  was begun is reported;
* channel: the two ends talk the same protocol, a message is read whole, as it was
  written and in order, or not at all, and nothing is stuck while both wait;
* discovery: every daemon ends up with the scheduler that all of them prefer;
* selection: no server that could work is forgotten.

## Modules

* **Scheduler** is the scheduler process: 9 variables, one action per message
  handler and per branch of the main loop. `phase` tells the two halves of the
  loop apart: `drain` (the `while (empty_queue(...))`) and `poll` (messages,
  accepts, disconnects), with `prune_servers` between them. A connection is a slot
  of `Conn`; slots are reused the way addresses of `CompileServer` objects are, so
  a pointer that outlives its object becomes visible as a reference to the next
  daemon in that slot. `handle_end` is one operator, used by every action that
  drops a daemon (disconnect, stale login, failed send, wrong job report,
  announcement of a better scheduler, timeouts, control commands). `handle_job_done`
  tests the reporter of a job and not whether the job was dispatched, and daemons do
  report ids they were not told of: without a scheduler they use the client id as job
  id. `Stray` is the set of ids that may be reported so. A report about a queued job
  uses a null pointer in a log line, which ends the process (`Crash`, a restart), or
  deletes the job; `job_requests` then points to a job in state `DELETED`, and a step
  that reads or deletes it is a `Crash` as well (`FreedMemoryUsed`). The choice among
  eligible servers is left to `\E`: every algorithm of `pick_server` returns a member
  of the eligible list.
* **GroupOrder** has the two operators on the order of the queue's groups.
* **FairQueue** says what the queue of job requests promises, as an order on the
  groups (submitter, niceness).
* **JobQueue** is `job_requests` as the code has it, a list of groups with a list of
  jobs each, with the loops of `enqueue_job_request`, `enqueue_job_requests_group`,
  `remove_job_request`, the cancellation in `handle_job_done` and the clean-up of
  `handle_end`. `ImplementsFairQueue` shows that it implements FairQueue under the
  refinement mapping at the end of the module. Scheduler keeps its queue in the
  terms of FairQueue (`queued`, `ahead`), so the list is not carried along there.
* **Daemon** is `iceccd`: the clients with their status, `current_kids`,
  `active_processes`, the connection to the scheduler, and what the scheduler knows of
  this daemon (`known`, external). A round of `working_loop` is `reconnect`, then
  `handle_old_request` ("old"), then any handlers after the `poll` ("poll"). `Finish`
  is the common end of a handler: it sends to the scheduler, or `send_scheduler` fails
  and closes the connection, after which `answer_client_requests` calls
  `clear_children`, except on the paths that return before it does. Assertions that
  fail and null pointers that are used are the action part `Crash`, a restart.
* **Wire** has the format of every message at every protocol version, what
  `send_to_channel` writes and what `fill_from_channel` reads as separate definitions,
  and the members that are converted on the way (the minimal version of a host, the exit
  code of a job without an id).
* **MsgChannel** is both ends of a connection: `update_state` with its six states, the
  buffers with their offsets (`chop_input`, `chop_output`), `flush_writebuf` with partial
  and failing writes, `read_a_bit` with cuts, ends and errors, `set_error` with its
  recursion guard, `get_msg` and `send_msg`. The two ends may be built from different
  releases. A byte is a triple that knows what it belongs to, so a
  misplaced byte is seen at once. **Fifo** is what a channel promises; `Fifo` in
  MsgChannel is the refinement.
* **EnvCache** is the daemon's received and native environments: maps, sizes and times of
  use on one side, directories and tarballs on the other, which the program keeps in step
  by hand. `check_cache_size` is a fixed point of `EvictOne`. A compiler may be replaced by
  another one or by an earlier one with its times (`Upgrade`), and a tarball may be lost
  (`LoseTarball`). A client may ask to compile in an environment that has gone, so what the
  scheduler was told of the environments is no state here. A failed assertion and the
  use of freed memory set `aborted`, after which nothing happens.
* **Compile** is one compilation: the client's `main`, `build_remote_int` with one action per
  message it waits for, and `build_local`; the remote daemon's part and its child
  (`handle_connection`, the poll loop of `work_it` with the four descriptors it
  watches, `write_output_file`); the compiler; and a connection that may be cut at any
  point, which each side learns of when it next reads, or when it sends. A child that does
  not get as far as a running compiler throws (`Refusals`, `NotStarted`), or, when the
  fork fails or there is no temporary file, goes on with the result as it was made:
  out of memory, status 0, and an object file that is empty or missing (`NoCompiler`).
  `obj_file` remembers which.
* **Discovery** is the search of daemons for a scheduler and the announcements of schedulers,
  with datagrams that get lost and overtake each other. Daemons are of the four
  generations whose answers differ (before 33, 33 to 35, 36 and 37, from 38).
* **Selection** is `pick_server` with its algorithms over an endless run of jobs. Ids grow
  without bound in the program; here a server's last id is its distance from the newest. A
  server also has jobs of its own, full or not, which count against its slots and its load,
  and jobs it has asked for, which count with `submission_weight`. Speeds, statistics and
  environments are only followed under "fastest", the one algorithm that looks at them.
* **MCScheduler**, **MCJobQueue**, **MCDaemon**, **MCMsgChannel**, **MCEnvCache**,
  **MCCompile**, **MCDiscovery**, **MCSelection** give the constants their values for TLC.
* **SchedulerProofs**, **JobQueueProofs**, **DaemonProofs**, **EnvCacheProofs**,
  **ChannelProofs**, **CompileProofs** and **DiscoveryProofs** hold the theorems, and **Loops** the
  lemmas on induction, folds and sums that JobQueueProofs and EnvCacheProofs share (see Proofs).

An operator whose comment starts with `Fault:` is a faulty variant of the
definition after it; each property is known to fail when that variant replaces the
definition (`mutants` in PROJECT.json).

## Runs

| Run | Instance | Shows |
|---|---|---|
| `jobs` | two connections, two hosts of two platforms, two environments, three job ids; a client that asks for two servers and a nice one that prefers a host, needs a feature and a protocol version; reports of ids that were not told (`Stray`) | the job table, the servers' job lists and the queue agree at every step; a job keeps its submitter, its server and, once dispatched, its environments |
| `servers` | two connections, a noremote host and one of protocol 24 that is pinged, local jobs, three repeated jobs, blocking and blacklisting | no server gets more foreign jobs than slots and preload allow; a reconnecting machine is counted once; no blacklist entry outlives its server |
| `live` | two connections, local jobs, two ids, fair | every request without preferred host leaves the queue |
| `queue` | three submitters, two priorities, requests of one and three, five ids | the list is well formed, nobody overtakes, and it implements FairQueue |
| `daemon` | two slots, three clients of every kind, two job ids | the slot counters are exact, no more jobs run than there are slots, nothing starts beside a full job that has begun, and the scheduler is told of every end of a job it counts for this machine |
| `daemonlive` | one slot, two clients of two niceness values, two ids, fair | every client that waits for a slot gets it or is ended |
| `channel` | two ends of the releases 20 (too old), 38 and 45 in all pairs, two messages one way and one the other, faults at every read and write | they agree on a version or end; messages arrive whole and in order (refinement of Fifo); nothing is stuck while both wait; the formats of all messages agree at every version from 21 to 45 |
| `envcache` | two clients, two environments, a compiler of two versions that replace each other, a limit of an environment and a tarball | the size covers the entries, enough is evicted, nothing in use is evicted, and a client is given a native environment only while the daemon has it in its map, with its tarball on the disk if the client has waited for it |
| `compile` | a source of two chunks, objects of one, a buffer of diagnostics, every kind of source, fair | no object in part, an exit code that is the source's unless the other host had no compiler running, an answer only to a client that is done sending, the client ends and the job is reported |
| `discovery` | a daemon of four generations, two schedulers of two versions and two networks, three starts, one lost datagram, fair | answers are understood, the best is taken, and the daemon ends up with it |
| `selection` | three servers, round robin and least busy, one newer job may overtake, one local or submitted job at a time, fair | a server that stays eligible, and under least busy has nothing of its own to do, keeps getting jobs |

and a run that exhibits a disagreement between the code and what the repository says
of it (`findings` in PROJECT.json): in `memory` the fork of the compiler fails on the other
host. `work_it` returns `EXIT_OUT_OF_MEMORY` (`workit.cpp:172`) and leaves the status of the
result 0; `handle_connection` sends it with `was_out_of_memory` set, and the empty
temporary file after it. "the server ran out of memory, recompiling locally"
(`remote.cpp:702`) is only done if the status is not 0, so the client renames the empty
object into its place and ends with 0, whether or not the source compiles. `OutputWhole` and
`ExitHonest` say exactly that this is the one exception: an empty object, or an
exit code of 0 for a wrong source, is only possible without a running compiler (`~Compiled`).

**Observations.** These configurations are kept, though they are no runs of the project:
TLC finds each of them violated. They document what the code does where a comment,
an assertion or a doc expects something else.

| Configuration | Violated | In short |
|---|---|---|
| `MCSchedulerHeadOfLine.cfg` | `WholeQueueSearched` | `empty_queue` walks through the queue but tests its first job every time |
| `MCSchedulerCancel.cfg` | `NoTracesLeft` | a cancelled client that asked for several servers leaves jobs in the table |
| `MCSchedulerSubmitter.cfg` | `SubmitterCanInstall` | "trivially true" is false while the submitter installs an environment, and for repeated jobs narrowed to another platform |
| `MCDaemonRepeats.cfg` | `SlotsAddUp` | a second answer takes a client out of CLIENTWORK and its slot is lost |
| `MCDaemonForgotten.cfg` | `NoJobForgotten` | a client that is gone when its answer arrives is cancelled by an id the scheduler no longer looks for |
| `MCDaemonIds.cfg` | `OtherJobsKept` | a client id that was used as a job id without a scheduler ends another client's job with the next one |
| `MCEnvWorkingClientsHaveJobs.cfg` | `WorkingClientsHaveJobs` | a client that transfers an environment is in TOINSTALL without a job, which the assertion at `daemon/main.cpp:1282` excludes |
| `MCEnvCreationFollowed.cfg` | `CreationFollowed` | a native environment in the making has `last_use` 0, which is older than its 365 days, so `check_cache_size` removes it under the client that waits for it |
| `MCSchedulerStray.cfg` | `QueuedJobsLive` | a job that waits is deleted by the report of another one with the same id, while `job_requests`, "All pending job requests" (`scheduler.cpp:126`), points to it: see `Stray` above |
| `MCEnvNativeRebuilt.cfg` | `NativeRebuilt` | "if they have changed since the time the native env was built, it needs to be rebuilt" (`daemon/main.cpp:437`): the outdated environment is removed under its file name, which is no key of the map, so the file goes, the entry stays and the old name is handed out (`main.cpp:1418`, 1428) |
| `MCSelectionFastest.cfg` | `NotOverlooked` | `should_refresh_stats` is to keep the scheduler from overlooking a server permanently (`scheduling_algo.cpp:17`), but under "fastest" a server is due again after about half as many jobs as there are eligible servers, and the first due one of the list is taken: of three servers the first two take turns for ever |
| `MCCompileOutput.cfg` | `AllOutputRead` | diagnostics of more than one buffer may still be in the pipe when the death of the compiler is handled (`workit.cpp:640`) |

Three more, seen while modelling: the comment at `scheduling_algo.cpp:18` says that a higher
weight makes the gap larger, and it makes it smaller; daemons compare network names without regard to case and
schedulers with it, so schedulers whose names differ in case only do not give way to each
other (all schedulers of `discovery` spell a name in the same way); and two schedulers of the same
version started in the same second never give way to each other, and a daemon stays with
either (`Best` allows both).

**Bounds.** Every bound is a constant: connections, hosts, environments, requests,
`MaxJobId`, `MaxBlock`, `MaxJobs`, `MaxClient`. Two connections are the least with
which submitter and server differ, and with which a machine has a stale connection
beside its new one; a machine has one slot, or two in `daemon`, so that every limit
is reached with few jobs; ids are never given out again while one scheduler runs, so each id bounds the
length of the stories, not their kind: three cover a master, its repeat and a
competitor. In `Daemon` client ids start again at 1 after
`clear_children`, so three clients allow any number of generations. Symmetry is over
connections only, which no definition tells apart, and only in runs without liveness.
In `channel` numbers take two bytes instead of four and the thresholds of the buffers (16,
8192, 4096 bytes) are 4, 6 and 7, so that three short messages go through every branch;
WireAgrees compares the formats of all messages whatever the script sends.
In `envcache` the clock runs for two ticks past its start, where a received environment
may go after one and a native one after two; `MaxCache` only keeps a client from starting
a transfer into a cache that is already over its limit by one environment; an environment
in the making is old after `KeepCreating`. In
`compile` two chunks are the least with which a source is cut in the middle and the compiler may end
between them; one buffer of diagnostics lets it be read, left or late, and the observation
`MCCompileOutput.cfg` has the two with which one is left over. An object of one chunk is
received in part when it is received empty. In
`discovery` three starts let both schedulers run and one of them restart, with its other
order of age; an answer that comes after the timeout counts as lost. In `selection` gaps beyond
`Far` are alike, which is more than any threshold of three servers, and `MaxOwn` lets one
server at a time have a job of its own or one it has asked for, which is enough to move it behind
the idle ones of the least busy. `Stray` has the ids of a master and its repeat in `jobs`. Under
least busy `NotOverlooked` leaves out servers that are never without local or submitted jobs,
which the algorithm passes over as long as another one is idle
(`unittests/scheduler_algo.cpp:100` expects it).
Times elsewhere (`MAX_BUSY_INSTALLING`, pings, statistics, client timeouts) are
nondeterministic: an event that a timeout causes may happen whenever its other
conditions hold.

**Deadlock** is checked in `jobs`, `servers`, `live`, `daemon`, `daemonlive`, `compile`
and `selection`. It is not in `queue`, whose ids run out, in `channel`, where both ends may
have said all, in `envcache`, which may abort and whose clock stops, and in `discovery`,
which is at rest when the daemon is connected and the last announcement was heard.

**Fairness.** `FairSpec` of Scheduler: the main loop runs (weak fairness of
`empty_queue` and `Prune`); a compilation and a local job end and are reported, which
is strong fairness, because messages are read in the poll phase only, but stay in the
socket until then; a timeout of a busy server is noticed by some `prune_servers`.
Nothing is assumed about clients finishing installations, about load going down or
about daemons staying connected. `FairSpec` of Daemon: the loop runs (`poll` has a
timeout), compilers end, and a client that was given a slot ends its work or goes
away. No fairness is assumed of the scheduler, of environment transfers or of load.
`EveryWaiterGetsASlot` is about finitely many clients: a
stream of younger clients of better niceness may pass an old one for ever.
Compile: client and child run, since every wait of the client has a timeout (the
answer of a compile server after 12 minutes) and so has the child's as long as
input is missing; a compiler that was sent SIGTERM ends. A compiler that was not may run for ever,
and a connection may stay cut. Discovery: a daemon keeps trying (`reconnect` in every round of its
loop), a scheduler announces itself every two minutes and answers what it reads, an announcement that
is not lost is read, and only `MaxLost` datagrams are lost. Starts and ends of schedulers
are not fair. Selection: jobs keep coming while a server is eligible, and every job ends.

## Proofs

Every theorem is for all values of the constants that satisfy the assumptions of the
module it is about; TLC evaluates these assumptions in every run. Each proof has an inductive invariant,
named below, since hardly any of the properties is inductive alone. TLC checks the
same properties on the instances of the runs.

| Module | Theorems | Property |
|---|---|---|
| SchedulerProofs: the job table | `TypeCorrect`, `JobListsAlwaysMatch`, `NoJobDangles`, `QueuedJobsAlwaysWait` | `TypeOK`, `JobListsMatch`, `NoDanglingServer`, `QueuedJobsWait` |
| SchedulerProofs: the queue | `QueueAlwaysOrdered`, `MastersAlwaysFirst`, `FirstRequestUnique`, `JobsLiveOnce` | `QueueIsOrdered`, `MasterBeforeRepeats`, (that `get_first_job_request` has one answer), `JobLifecycle` |
| SchedulerProofs: the servers | `OneServerPerHostAlways`, `BlacklistsNeverStale`, `NeverOvercommitted` | `OneServerPerHost`, `NoStaleBlacklist`, `NoOvercommit` |
| DaemonProofs | `DaemonTypes`, `JobIdsInPlace`, `LocalJobsAlwaysReported`, `FullJobsReserveAll`, `SlotsNeverExceeded` | `TypeOK`, `NoJobIdOutside`, `LocalJobsReported`, `FullJobReservesAll`, `SlotLimit` |
| DaemonProofs: one server per request | `SlotsAlwaysAddUp`, `JobsNeverForgottenHere` | `SlotsAddUp`, `NoJobForgottenHere`, where every client asks for one server |
| JobQueueProofs | `ListWellFormed`, `NobodyOvertakes`, `ListImplementsQueue` | `WellFormed`, `NoOvertaking`, `ImplementsFairQueue` (refinement) |
| EnvCacheProofs | `CacheSizeIsEnough`, `UsedIsKept`, `CacheIsSmallEnough`, `GivenIsAlwaysKnown` | `CacheSizeCovers`, `InUseKept`, `EvictsEnough`, `GivenIsKnown` |
| ChannelProofs | `BuffersAlwaysFit`, `VersionsAlwaysAgree`, `MessagesReadAsWritten`, `NothingStalls`, `ChannelIsFifo`, `WireAlwaysAgrees` | `TypeOK`, `VersionsAgree`, `ReadAsWritten`, `NoStall`, `Fifo` (refinement), `WireAgrees` |
| CompileProofs | `AnswersComeAfterInput`, `ClientsExitHonestly`, `OutputAlwaysWhole` | `AnswerAfterInput`, `ExitHonest`, `OutputWhole` |
| DiscoveryProofs | `AnswersAlwaysUnderstood`, `BestIsAlwaysKept` | `AnswersUnderstood`, `BestHeard` |

**Scheduler.** Assumed: finitely many connections, maps from hosts to slots, platforms and
protocols, at most one environment per platform in a request.

None of the three invariants of the job table is inductive alone. `JobListsMatch` needs to
know that a job without server is the one that is `PENDING` or `DELETED`, or a dispatch could put
it into a second list; `NoDanglingServer` needs that what `handle_end` deletes is all that the lists
show; `QueuedJobsWait` needs that a dispatched job is in no queue, so that its end deletes it from the
table, and that only a stray id reaches one that waits. Nothing is assumed about `Stray`: a deleted
job may lie in the queue at any point, and what the other theorems say holds
until the process ends over it. Their conjunction with `TypeOK` is inductive (`TableInductive`). The
argument turns on `handle_end`: `HandleEndTable` shows that removing any set of
connections, together with the jobs they submitted or were given, from any table that
satisfies the invariants leaves one that does; every action that drops a daemon cites
it. `Dispatch` and the messages that change one job have a lemma each, and
`UntouchedTable` covers the actions that leave the table alone.

On top of the table, `QueueInv` has the order of the groups and `RepeatsWait`: the jobs
that a waiting master stands for are in the table and wait too, behind it, in its group and for its client. Without the
group, the removal of one submitter could take a master's repeats and leave the
master. The order changes when a group appears at the back or is
moved there, and when groups leave, alone or with their submitter; each has a lemma on relations. `ServersInv` adds that a server has the limit
of its host (or its negative while it owes a ping), that its local jobs are finitely many, and that
a blacklist names only live servers. `NoOvercommit` counts the jobs of a server: a step adds at
most one, and one of another submitter only through `is_eligible_now`.

**Daemon.** Assumed: `max_kids`, niceness and the bounds are natural numbers, a client asks
for at least one server. `DaemonInv` holds however many servers a client asks for: a client's members fit
its status (`Good`), `current_kids` and `active_processes` are never *below* what the clients'
states say (`Sound`), the scheduler waits for and counts only clients that asked
(`Linked`), and knows nothing while there is no connection (`Offline`). That is enough for the
limit of slots and for full jobs: only `handle_old_request` starts jobs (`OnlyOldRequestsStart`),
one at a time and only if the two counters leave a slot. That the counters are
*exact* is true only if each client asks for one server, as clients do unless
`ICECC_REPEAT_RATE` is set: `OnceInv` adds that an answer finds its client in `WAITFORCS`
(`AskedOnce`, `AnsweredOnce`), that a client has one job at most (`Single`) and that every
job given to this machine is on its way or with its client (`SettledAll`). `Counts = {1}` is a hypothesis of those two
theorems and not an assumption of the module; with `Counts = {2}` TLC finds both
properties violated (`MCDaemonRepeats.cfg` has the first).

**Loops.** The loops of the queue and of the cache are folds (`FoldLeft`,
`FoldLeftDomain`, `FoldSet`), which the library defines by `CHOOSE` of a function that
satisfies a recursion. What the code computes is only known once such a function is shown
to exist and the fold to go through one value per element. Induction is stated with sets
(`Induct`: a set that contains 0 and with each number its successor contains all), because
the provers cannot instantiate a predicate; it follows from the well-foundedness of the
natural numbers. `FoldTable` gives the recursion a solution, for a step function from a
set of states to itself, and `SumIs` identifies the sum of natural numbers with the number
of their units (`Units`), from which it follows how a sum changes with one summand, in
whatever order `FoldSet` visits them.

**Queue.** Assumed: niceness is an integer, a request is for a natural number of servers.
Every handler edits the list in one of three ways, or some of them in turn: it thins it
(groups leave or lose jobs, `remove_job_request`, `handle_job_done`, `handle_end`), puts a
group behind those of its niceness (`enqueue_job_requests_group`), or lets a group grow by
a job (`enqueue_job_request`). `Formed` (sorted by niceness, one group per submitter and
niceness, no group empty, no job twice, jobs of a group in the order of their ids) is kept
by each of these; `QueueInv` adds that the jobs in the list are ones that were requested
and not dispatched, without which a new request could bring an id that is already there.
Each edit also says what it does to the order of the groups, and that is what
`NoOvertaking` and the steps of FairQueue need. Under the mapping (`GroupOfJob`,
`OrderOfGroups`) the loops of one handler together are one step of FairQueue.

**EnvCache.** Assumed: environments and compilers are numbered from 1, sizes and times are
natural numbers. `CacheInv` has the bound on the sizes together with what makes it
inductive: entries are finitely many and well formed (`StoreFits`), clients have what
their status says (`ClientsFit`), and times are natural numbers (`TimesFit`). The loop of `check_cache_size` is
shown to keep the bound, to leave every entry it does not remove alone (`Left`: a
directory only goes if it has no assembler or is not in use), and to reach a state in
which it stops (`Settled`), because each round that does not stop removes an entry
(`EvictStep`, `CheckCacheSize`). `CacheIsSmallEnough` reads off `Settled` what is left in
a cache that is too large; `UsedIsKept` reads it off `Left`, and `GivenIsAlwaysKnown` too: what was
made in this step is not old, and its tarball is there. What the theorem does *not*
say is that the size is exact: a transfer of an environment that is already in the map
adds its size a second time, which is how TLC refutes equality in a few steps. An aborted
daemon (`WorkingClientsHaveJobs`, observed above) satisfies `EvictsEnough` only because it
no longer evicts; the property says so.

**Channel.** Assumed: two ends, positive versions, scripts of known message types, a
length of at least a byte, and `Cheap >= 2 * Word` (16 and 4 in the code), so that `chop_output` brings what is unsent
of the greeting to the start of the buffer, where `writefull` expects it. The invariant (`ChannelInv`) puts the bytes of one direction one after
the other: what the receiver has read and not consumed, the stream, and what is unsent in the sender's buffer. `Layout`
says that these are the rest of the sender's two versions and of its messages, with a mark
where each message ends, counted from the first byte that is not consumed; `Receiver` and `Sender`
say where among the marks each end is, in each of its states. A read, a partial write or
`chop_input`/`chop_output` moves the boundaries and no byte; consuming `k` bytes moves all
marks by `k` (`Consumed`); a message adds a mark (`AddMessage`). Marks and pointwise
facts take the place of an induction over the sequences. `VersionsAgree` needs the layout as well: what
an end takes for the other's version is what the greeting holds at that place. `Eager` says that
`update_state` has done what it could with the bytes it has, which is what `NoStall` rests on. The refinement
follows: a message that `get_msg` takes out is the next one of `sent`, because its body
lies between its marks. `WireAgrees` is a case split over the message types; the
versions of an end are any positive numbers, not the three of the run.

**Compile.** Assumed: sizes are natural numbers, and an object has at least one chunk.
`CompileInv` says how far client, server and compiler are when one of them is at a given place
(`Phases`), that what follows the request to compile is chunks until the client says otherwise
(`InputOrder`), that every status on its way is true of the source (`StatusTrue`), that the files
follow the result in their order (`FilesInOrder`, which counts the messages that the
client has read), and what is on the disk (`OutputRight`). The last three tell a result with a
compiler behind it from one without (`Compiled`).

**Discovery.** Assumed: the versions are ones that the protocol still talks to, and a version fits the byte of
the broadcast it is sent in. `PreparedReply` computes for every pair of versions what `prepareBroadcastReply`
writes and what the daemon reads; the invariant keeps that all answers on their way, or read, are
of that kind, so that comparing two of them is comparing their schedulers, and the preference is an order.

Every invariant and every action property of the passing runs is stated by a theorem, and
so are both refinements (`Fifo`, `ImplementsFairQueue`). Only model-checked are the
liveness properties, which the prover does not do, since it knows no fairness:
`EveryRequestServed`, `EveryWaiterGetsASlot`, `ClientEnds`, `JobReported`, `Converges`,
and `NotOverlooked` of Selection, which has no safety property of its own: Scheduler
allows any eligible server.

## Not modelled

* Speeds and the arithmetic of job statistics: in Selection a speed is any value of
  `Speeds`, and Scheduler allows any eligible server. The random algorithm promises nothing
  that could be checked.
* The back-off table of the connectivity tests and the nonblocking connect: the result of a
  test is an input of Scheduler.
* Monitors, the `internals`, `listblocks` and similar commands, the text mode of control
  connections, logging and formatting. Formats of the monitors' messages are in Wire.
* Contents of environments, the chroot, memory limits, the compiler, argument parsing
  (`client/arg.cpp`, a string problem with no state), `icecc-create-env`.
* Scheduler and daemon composed, with messages in flight both ways: Daemon has what
  the scheduler knows of it as a variable (`known`), and answers that are delayed and cross its
  messages; a scheduler handles its messages at once.
* In Daemon: `VerifyEnv`, which changes nothing but the environment's files; the
  termination by a signal, after which nothing is left; several handlers that run after a
  failed send in the same round, before `clear_children` ends all clients anyway.
* In EnvCache: a creation that cannot even be started, the clean-up at start, which is
  its initial state, and the announcements of the environments to the scheduler.
* In Compile: the daemon's end when the fork of the child itself fails
  (`assert(pid >= 0)`, `serve.cpp:149`, where its caller has a branch for a failure); entering the
  chroot, which is one outcome among those of `Refusals`; the directories of split DWARF; the status
  text when a compiled object cannot be opened, which the client takes like the lost connection
  that is modelled; the repeated compilation of one source on several hosts
  (`ICECC_REPEAT_RATE`), and clients that get their answer from a daemon older than 31,
  which does not verify environments.
* In Discovery: a search for a scheduler with a configured host name over TCP only, test
  ports, and `getNetnames`, which only lists what it hears.

## Plan

1. Done: *Scheduler* with its queue, *Daemon*, *MsgChannel* with *Wire*, *EnvCache*,
   *Compile*, *Discovery*, *Selection*.
2. Done: theorems about Scheduler, JobQueue, Daemon, EnvCache, MsgChannel, Compile and
   Discovery: all safety properties and refinements of the runs.
3. *SchedulerDaemon*: Scheduler and daemons with messages in flight in both directions,
   for stale ids, the `internals` exchange and the reports of both daemons of a job.
