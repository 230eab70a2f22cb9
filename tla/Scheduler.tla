----------------------------- MODULE Scheduler -----------------------------
(***************************************************************************)
(* The icecc scheduler (scheduler/scheduler.cpp, compileserver.cpp and     *)
(* job.cpp): one thread that reads the messages of the connected daemons,  *)
(* keeps the table of jobs and the queue of job requests, and gives every  *)
(* request a compile server.                                               *)
(*                                                                         *)
(* The main loop alternates between two phases.  In "drain" it calls       *)
(* empty_queue() until that returns false; in "poll" it handles messages,  *)
(* connects and disconnects.  prune_servers() leads from "poll" back to    *)
(* "drain".                                                                *)
(*                                                                         *)
(* A connection is a slot of Conn.  Slots are reused, as the addresses of  *)
(* CompileServer objects are, so whatever still refers to a deleted server *)
(* refers to the next daemon in that slot.                                 *)
(***************************************************************************)
EXTENDS Integers, FiniteSets, GroupOrder

CONSTANTS
    Conn,           \* slots for CompileServer objects
    Host,           \* machines: the (IP address, node name) a daemon logs in with
    Env,            \* compiler environments: (host platform, name)
    Platform,       \* host platforms, such as "x86_64"
    Null,           \* nullptr, and the empty preferred host
    HostPlatform,   \* LoginMsg::host_platform of each host
    EnvPlatform,    \* the platform each environment runs on
    PlatformMap,    \* pairs <<p, q>>: programs for p also run on q
    MaxKids,        \* LoginMsg::max_kids of each host
    NoRemote,       \* hosts that log in with noremote
    Chroot,         \* hosts that log in with chroot_possible
    Proto,          \* protocol version of each host's daemon
    Feature,        \* optional features, such as an archive format
    Features,       \* LoginMsg::supported_features of each host
    ClientId,       \* client ids a daemon uses in GetCSMsg
    LocalId,        \* ids a daemon uses in JobLocalBeginMsg
    Request,        \* contents a GetCSMsg may have
    Blacklisted,    \* pairs <<host, environment>> that clients may blacklist
    Stray,          \* ids that daemons report without having been told of them
    MaxJobId,       \* bound on new_job_id
    MaxBlock        \* bound on how often one host is in block_css

Niceness == 0..20
Group == Conn \X Niceness
JobId == 1..MaxJobId

ASSUME ConnAssumption == IsFiniteSet(Conn) /\ Null \notin Conn
ASSUME HostAssumption ==
    /\ Null \notin Host
    /\ HostPlatform \in [Host -> Platform]
    /\ MaxKids \in [Host -> Nat]
    /\ Proto \in [Host -> Nat]
    /\ Features \in [Host -> SUBSET Feature]
    /\ NoRemote \subseteq Host
    /\ Chroot \subseteq Host
ASSUME EnvAssumption ==
    /\ EnvPlatform \in [Env -> Platform]
    /\ PlatformMap \subseteq Platform \X Platform
    /\ Blacklisted \subseteq Host \X Env
\* Without a scheduler a daemon uses the ids of its clients as job ids
\* (daemon/main.cpp:1851), and it keeps those of a scheduler that is gone.
ASSUME StrayAssumption == Stray \subseteq JobId
\* A client offers at most one environment per platform (client/remote.cpp:183).
ASSUME RequestAssumption ==
    /\ Request \subseteq [nice : Int, envs : SUBSET Env, pref : Host \cup {Null},
                          ver : Nat, features : SUBSET Feature, count : Nat]
    /\ \A r \in Request : \A e, f \in r.envs : EnvPlatform[e] = EnvPlatform[f] => e = f
ASSUME BoundAssumption == MaxJobId \in Nat /\ MaxBlock \in Nat

VARIABLES
    phase,          \* where the main loop is
    conn,           \* per slot: no object, CONNECTED (type UNKNOWN) or a DAEMON in css
    cs,             \* the attributes of each CompileServer
    jobList,        \* m_jobList of each CompileServer
    jobs,           \* the map from ids to Job objects
    queued,         \* the jobs in job_requests
    ahead,          \* pairs <<g, h>>: group g stands before h, both of one niceness
    new_job_id,     \* the last id given out
    block_css       \* how often each host is in the list block_css

vars == <<phase, conn, cs, jobList, jobs, queued, ahead, new_job_id, block_css>>

-----------------------------------------------------------------------------
(* State *)

\* The members of a CompileServer that decide what it may be given.
ServerState ==
    [host : Host \cup {Null},           \* m_nodeName and the peer's address
     maxJobs : Int,
     busy : BOOLEAN,                    \* m_busyInstalling is set
     overloaded : BOOLEAN,              \* m_load >= 1000
     accepting : BOOLEAN,               \* m_acceptingInConnection
     envs : SUBSET Env,                 \* m_compilerVersions
     one : SUBSET LocalId,              \* m_clientLocalMap, jobs that take one slot
     full : SUBSET LocalId,             \* m_clientLocalMap, jobs that take all slots
     blacklist : [Conn -> SUBSET Env]]

\* A Job object.  "DELETED" is freed memory that job_requests still points to.
JobState ==
    [state : {"PENDING", "WAITINGFORCS", "COMPILING", "DELETED"},
     server : Conn \cup {Null},
     submitter : Conn,
     client : ClientId,
     nice : Niceness,
     envs : SUBSET Env,
     pref : Host \cup {Null},
     ver : Nat,                         \* minimalHostVersion
     features : SUBSET Feature,         \* requiredFeatures
     master : SUBSET JobId]             \* masterJobFor

TypeOK ==
    /\ phase \in {"drain", "poll"}
    /\ conn \in [Conn -> {"none", "CONNECTED", "DAEMON"}]
    /\ cs \in [Conn -> ServerState]
    /\ jobList \in [Conn -> SUBSET JobId]
    /\ DOMAIN jobs \subseteq JobId
    /\ jobs \in [DOMAIN jobs -> JobState]
    /\ queued \subseteq JobId
    /\ ahead \subseteq Group \X Group
    /\ new_job_id \in 0..MaxJobId
    /\ block_css \in [Host -> 0..MaxBlock]

\* What the constructor of CompileServer sets.
NewCompileServer ==
    [host |-> Null, maxJobs |-> 0, busy |-> FALSE, overloaded |-> TRUE,
     accepting |-> TRUE, envs |-> {}, one |-> {}, full |-> {},
     blacklist |-> [c \in Conn |-> {}]]

Init ==
    /\ phase = "drain"
    /\ conn = [c \in Conn |-> "none"]
    /\ cs = [c \in Conn |-> NewCompileServer]
    /\ jobList = [c \in Conn |-> {}]
    /\ jobs = [j \in {} |-> Null]
    /\ queued = {}
    /\ ahead = {}
    /\ new_job_id = 0
    /\ block_css = [h \in Host |-> 0]

\* The process uses freed memory or a null pointer and ends.  The next one has
\* the state of Init.
Crash ==
    /\ phase' = "drain"
    /\ conn' = [c \in Conn |-> "none"]
    /\ cs' = [c \in Conn |-> NewCompileServer]
    /\ jobList' = [c \in Conn |-> {}]
    /\ jobs' = [j \in {} |-> Null]
    /\ queued' = {}
    /\ ahead' = {}
    /\ new_job_id' = 0
    /\ block_css' = [h \in Host |-> 0]

\* The list of logged-in daemons.
css == {c \in Conn : conn[c] = "DAEMON"}

-----------------------------------------------------------------------------
(* The queue.  job_requests is a list of groups, one per submitter and      *)
(* niceness, sorted by niceness; module JobQueue has that list and is shown *)
(* to implement the order kept here.                                       *)

GroupOf(j) == <<jobs[j].submitter, jobs[j].nice>>
WaitingGroups == {GroupOf(j) : j \in queued}

\* Fault: the youngest job of the first group is taken.
FirstJobRequest_youngest(j) ==
    /\ j \in queued
    /\ \A k \in queued \ {j} :
          \/ jobs[j].nice < jobs[k].nice
          \/ <<GroupOf(j), GroupOf(k)>> \in ahead
          \/ GroupOf(j) = GroupOf(k) /\ j > k

\* get_first_job_request
FirstJobRequest(j) ==
    /\ j \in queued
    /\ \A k \in queued \ {j} :
          \/ jobs[j].nice < jobs[k].nice
          \/ <<GroupOf(j), GroupOf(k)>> \in ahead
          \/ GroupOf(j) = GroupOf(k) /\ j < k

-----------------------------------------------------------------------------
(* Which server may have which job *)

platforms_compatible(h, p) ==
    p = HostPlatform[h] \/ <<p, HostPlatform[h]>> \in PlatformMap

\* The environments of job j that server c could install, busy or not.
Installable(c, j) ==
    {e \in jobs[j].envs : /\ platforms_compatible(cs[c].host, EnvPlatform[e])
                          /\ e \notin cs[jobs[j].submitter].blacklist[c]}

can_install(c, j) == ~cs[c].busy /\ Installable(c, j) # {}

check_remote(c, j) == c = jobs[j].submitter \/ cs[c].host \notin NoRemote

chroot_or_local(c, j) == c = jobs[j].submitter \/ cs[c].host \in Chroot

\* Only asked of servers with a positive m_maxJobs.
maxPreloadCount(c) == 1 + (cs[c].maxJobs \div 4)

currentJobCountRemote(c) == Cardinality(jobList[c])
currentJobCountLocal(c) ==
    Cardinality(cs[c].one) + Cardinality(cs[c].full) * cs[c].maxJobs
currentJobCount(c) == currentJobCountRemote(c) + currentJobCountLocal(c)

is_eligible_ever(c, j) ==
    /\ cs[c].maxJobs > 0
    /\ chroot_or_local(c, j)
    /\ jobs[j].ver <= Proto[cs[c].host]
    /\ jobs[j].features \subseteq Features[cs[c].host]
    /\ cs[c].accepting
    /\ Installable(c, j) # {}
    /\ check_remote(c, j)

\* Fault: one job too many is preloaded.
is_eligible_now_off_by_one(c, j) ==
    /\ is_eligible_ever(c, j)
    /\ currentJobCount(c) <= cs[c].maxJobs + maxPreloadCount(c)
    /\ currentJobCountLocal(c) < cs[c].maxJobs
    /\ ~cs[c].overloaded
    /\ can_install(c, j)

is_eligible_now(c, j) ==
    /\ is_eligible_ever(c, j)
    /\ \/ currentJobCount(c) < cs[c].maxJobs
       \/ /\ currentJobCount(c) < cs[c].maxJobs + maxPreloadCount(c)
          /\ currentJobCountLocal(c) < cs[c].maxJobs
    /\ ~cs[c].overloaded
    /\ can_install(c, j)

filter_ineligible_servers(j) ==
    {c \in css : /\ is_eligible_now(c, j)
                 /\ can_install(c, j)
                 /\ chroot_or_local(c, j)
                 /\ check_remote(c, j)}

\* The servers pick_server may return: every algorithm returns a member of
\* the eligible list when there is one, and a preferred host is taken or nobody.
pick_server(j) ==
    IF jobs[j].pref # Null
    THEN {c \in css : cs[c].host = jobs[j].pref /\ is_eligible_now(c, j)}
    ELSE filter_ineligible_servers(j)

\* Fault: the load of the submitter is obeyed, too.
SubmitterTakes_unless_loaded(j) ==
    LET sub == jobs[j].submitter
    IN  /\ currentJobCount(sub) < cs[sub].maxJobs
        /\ jobs[j].pref = Null
        /\ ~cs[sub].overloaded
        /\ can_install(sub, j)

\* "Ignore the load on the submitter itself if no other host could be found."
SubmitterTakes(j) ==
    LET sub == jobs[j].submitter
    IN  /\ currentJobCount(sub) < cs[sub].maxJobs
        /\ jobs[j].pref = Null
        /\ can_install(sub, j)

\* Somebody could handle j one day.
EligibleOneDay(j) ==
    \E c \in css : /\ jobs[j].pref \in {Null, cs[c].host}
                   /\ is_eligible_ever(c, j)

\* Where empty_queue may send j now; the empty set means that it delays.
Targets(j) ==
    IF pick_server(j) # {} THEN pick_server(j)
    ELSE IF SubmitterTakes(j) \/ ~EligibleOneDay(j) THEN {jobs[j].submitter}
    ELSE {}

\* envs_match: the server has an environment of j installed, or is the submitter.
envs_match(c, j) ==
    \/ jobs[j].submitter = c
    \/ \E e \in cs[c].envs \cap jobs[j].envs :
          platforms_compatible(cs[c].host, EnvPlatform[e])

-----------------------------------------------------------------------------
(* Removing servers *)

\* Fault: the jobs a removed daemon compiles for others are forgotten.
JobsWith_submitted_only(S, jobs1) == {j \in DOMAIN jobs1 : jobs1[j].submitter \in S}

\* The jobs that go when the servers in S go.
JobsWith(S, jobs1) ==
    {j \in DOMAIN jobs1 : jobs1[j].server \in S \/ jobs1[j].submitter \in S}

\* Fault: the blacklists are not cleaned.
eraseCSFromBlacklist_not(bl, S) == bl

\* A daemon's blacklist without the servers in S.
eraseCSFromBlacklist(bl, S) == [d \in Conn |-> IF d \in S THEN {} ELSE bl[d]]

\* handle_end for the connections in S: every job that one of them submitted
\* or compiles is deleted.  The caller may have changed the jobs and the
\* servers before (conn1, cs1, jobs1).  A queued job that is deleted already
\* is deleted once more: see FreedMemoryUsed.
handle_end(S, conn1, cs1, jobs1) ==
    LET gone == JobsWith(S, jobs1)
    IN  /\ \A j \in gone : jobs1[j].state # "DELETED"
        /\ conn' = [c \in Conn |-> IF c \in S THEN "none" ELSE conn1[c]]
        /\ jobs' = [j \in DOMAIN jobs1 \ gone |-> jobs1[j]]
        /\ queued' = queued \ gone
        /\ ahead' = Without(ahead, S \X Niceness)
        /\ jobList' = [c \in Conn |->
              IF c \in S THEN {}
              ELSE jobList[c] \ {j \in gone : jobs1[j].server = c}]
        /\ cs' = [c \in Conn |->
              IF c \in S THEN NewCompileServer
              ELSE [cs1[c] EXCEPT
                      !.busy = IF \E j \in gone : jobs1[j].server = c THEN FALSE ELSE @,
                      !.blacklist = eraseCSFromBlacklist(@, S)]]

-----------------------------------------------------------------------------
(* The drain phase: empty_queue *)

\* While job_requests points to a deleted job, a step that reads or deletes it
\* ends the process: empty_queue when it is its turn, or when its master is
\* dispatched, and handle_end of its submitter.  Such a step has no other outcome.
FreedMemoryUsed ==
    /\ \E j \in queued : jobs[j].state = "DELETED"
    /\ Crash

\* empty_queue with an empty job_requests.
NothingQueued ==
    /\ phase = "drain"
    /\ queued = {}
    /\ phase' = "poll"
    /\ UNCHANGED <<conn, cs, jobList, jobs, queued, ahead, new_job_id, block_css>>

\* empty_queue finds nobody for the first job.  It walks on through the other
\* requests (jobPosition), but tests the first job again each time, so it ends
\* where it started.
Delay(j) ==
    /\ phase = "drain"
    /\ FirstJobRequest(j)
    /\ jobs[j].state # "DELETED"
    /\ Targets(j) = {}
    /\ phase' = "poll"
    /\ UNCHANGED <<conn, cs, jobList, jobs, queued, ahead, new_job_id, block_css>>

\* Fault: the group is queued again without being taken out first.
remove_job_request_twice(j) ==
    /\ queued' = queued \ {j}
    /\ ahead' = Behind(ahead, GroupOf(j), WaitingGroups \ {GroupOf(j)})

\* remove_job_request: the job leaves its group, and the group goes to the end
\* of its niceness or, when it has become empty, away.
remove_job_request(j) ==
    LET g == GroupOf(j)
        rest == Without(ahead, {g})
    IN  /\ queued' = queued \ {j}
        /\ ahead' = IF \E k \in queued \ {j} : GroupOf(k) = g
                    THEN Behind(rest, g, WaitingGroups \ {g})
                    ELSE rest

\* The environments of j made for use_cs's own platform (at most one); when j
\* is the first of several repeated jobs, the others may only use that one.
HostEnvs(use_cs, j) == {e \in jobs[j].envs : EnvPlatform[e] = HostPlatform[cs[use_cs].host]}

\* empty_queue gives the first job to use_cs.
Dispatch(j, use_cs) ==
    /\ phase = "drain"
    /\ FirstJobRequest(j)
    /\ jobs[j].state # "DELETED"
    /\ use_cs \in Targets(j)
    /\ HostEnvs(use_cs, j) # {} => \A k \in jobs[j].master : jobs[k].state # "DELETED"
    /\ remove_job_request(j)
    /\ jobs' = [k \in DOMAIN jobs |->
          IF k = j THEN [jobs[j] EXCEPT !.state = "WAITINGFORCS", !.server = use_cs]
          ELSE IF k \in jobs[j].master /\ HostEnvs(use_cs, j) # {}
          THEN [jobs[k] EXCEPT !.envs = HostEnvs(use_cs, j)]
          ELSE jobs[k]]
    /\ jobList' = [jobList EXCEPT ![use_cs] = @ \cup {j}]
    /\ cs' = [cs EXCEPT ![use_cs].busy = IF envs_match(use_cs, j) THEN @ ELSE TRUE]
    /\ UNCHANGED <<phase, conn, new_job_id, block_css>>

\* The NoCSMsg or UseCSMsg cannot be sent: the submitter is removed, the job,
\* already marked as dispatched, with it.
DispatchFails(j, use_cs) ==
    /\ phase = "drain"
    /\ FirstJobRequest(j)
    /\ jobs[j].state # "DELETED"
    /\ use_cs \in Targets(j)
    /\ handle_end({jobs[j].submitter}, conn, cs,
                  [jobs EXCEPT ![j] = [@ EXCEPT !.state = "WAITINGFORCS", !.server = use_cs]])
    /\ UNCHANGED <<phase, new_job_id, block_css>>

empty_queue ==
    \/ NothingQueued
    \/ \E j \in JobId : Delay(j)
    \/ \E j \in JobId, use_cs \in Conn : Dispatch(j, use_cs) \/ DispatchFails(j, use_cs)

-----------------------------------------------------------------------------
(* The poll phase: connections *)

\* A connection arrives on the listening socket.
Accept(c) ==
    /\ phase = "poll"
    /\ conn[c] = "none"
    /\ conn' = [conn EXCEPT ![c] = "CONNECTED"]
    /\ UNCHANGED <<phase, cs, jobList, jobs, queued, ahead, new_job_id, block_css>>

\* The end of a connection: an M_END message, a read error, an invalid message.
Disconnect(c) ==
    /\ phase = "poll"
    /\ conn[c] # "none"
    /\ handle_end({c}, conn, cs, jobs)
    /\ UNCHANGED <<phase, new_job_id, block_css>>

\* Fault: a daemon that comes back is not recognised.
StaleServers_none(h) == {}

\* "any other clients with the same IP and name, they must be stale"
StaleServers(h) == {d \in css : cs[d].host = h}

\* try_login with a LoginMsg of host h: a blocked host is turned away, an older
\* connection of the same host is stale and removed.
handle_login(c, h, envs) ==
    /\ phase = "poll"
    /\ conn[c] = "CONNECTED"
    /\ IF block_css[h] > 0
       THEN handle_end({c}, conn, cs, jobs)
       ELSE handle_end(StaleServers(h),
                       [conn EXCEPT ![c] = "DAEMON"],
                       [cs EXCEPT ![c] = [@ EXCEPT !.host = h, !.maxJobs = MaxKids[h], !.envs = envs]],
                       jobs)
    /\ UNCHANGED <<phase, new_job_id, block_css>>

\* A daemon announces its environments again, after it installed or removed one.
handle_relogin(c, envs) ==
    /\ phase = "poll"
    /\ c \in css
    /\ cs' = [cs EXCEPT ![c] = [@ EXCEPT !.envs = envs, !.busy = FALSE]]
    /\ UNCHANGED <<phase, conn, jobList, jobs, queued, ahead, new_job_id, block_css>>

\* The control connection's removecs and blockcs; the host is removed only if
\* the answer to the control connection could be sent.
RemoveCS(h, block, sent) ==
    /\ phase = "poll"
    /\ block => block_css[h] < MaxBlock
    /\ block_css' = IF block THEN [block_css EXCEPT ![h] = @ + 1] ELSE block_css
    /\ handle_end({c \in css : sent /\ cs[c].host = h}, conn, cs, jobs)
    /\ UNCHANGED <<phase, new_job_id>>

\* unblockcs takes one entry off the list.
UnblockCS(h) ==
    /\ phase = "poll"
    /\ block_css[h] > 0
    /\ block_css' = [block_css EXCEPT ![h] = @ - 1]
    /\ UNCHANGED <<phase, conn, cs, jobList, jobs, queued, ahead, new_job_id>>

\* A preferred scheduler of the same network announces itself.
handle_scheduler_announce ==
    /\ phase = "poll"
    /\ css # {}
    /\ handle_end(css, conn, cs, jobs)
    /\ UNCHANGED <<phase, new_job_id, block_css>>

\* prune_servers: servers that are busy installing for too long are removed;
\* daemons older than protocol 27 are pinged, and given no job until they
\* answer, or removed.  Time is not modelled: any timeout may have passed.
prune_servers(dead, pinged) ==
    /\ phase = "poll"
    /\ dead \subseteq {c \in css : cs[c].busy \/ Proto[cs[c].host] < 27}
    /\ pinged \subseteq {c \in css : Proto[cs[c].host] < 27 /\ cs[c].maxJobs >= 0}
    /\ handle_end(dead, conn,
                  [c \in Conn |-> IF c \in pinged THEN [cs[c] EXCEPT !.maxJobs = -@] ELSE cs[c]],
                  jobs)
    /\ phase' = "drain"
    /\ UNCHANGED <<new_job_id, block_css>>

\* updateInConnectivity: a connection test of a host that takes remote jobs ends.
updateInConnectivity(c, acceptingIn) ==
    /\ phase = "poll"
    /\ c \in css
    /\ cs[c].host \notin NoRemote
    /\ cs' = [cs EXCEPT ![c].accepting = acceptingIn]
    /\ UNCHANGED <<phase, conn, jobList, jobs, queued, ahead, new_job_id, block_css>>

-----------------------------------------------------------------------------
(* The poll phase: messages of a daemon *)

\* Fault: negative values are not mapped to 0.
clamp_above(n) == IF n > 20 THEN 20 ELSE n

\* max(0, min(20, n))
clamp(n) == IF n < 0 THEN 0 ELSE IF n > 20 THEN 20 ELSE n

\* handle_cs_request: client asks, through its daemon c, for r.count servers.
\* The first job is the master of the others.
handle_cs_request(c, client, r) ==
    LET first == new_job_id + 1
        ids == first..(new_job_id + r.count)
        g == <<c, clamp(r.nice)>>
    IN  /\ phase = "poll"
        /\ c \in css
        \* a daemon's clients have distinct ids
        /\ \A j \in DOMAIN jobs : jobs[j].submitter = c => jobs[j].client # client
        /\ new_job_id + r.count <= MaxJobId
        /\ new_job_id' = new_job_id + r.count
        /\ jobs' = [j \in DOMAIN jobs \cup ids |->
              IF j \in ids
              THEN [state |-> "PENDING", server |-> Null, submitter |-> c, client |-> client,
                    nice |-> clamp(r.nice), envs |-> r.envs, pref |-> r.pref, ver |-> r.ver,
                    features |-> r.features,
                    master |-> IF j = first THEN ids \ {first} ELSE {}]
              ELSE jobs[j]]
        /\ queued' = queued \cup ids
        /\ ahead' = IF ids = {} \/ g \in WaitingGroups
                    THEN ahead
                    ELSE Behind(ahead, g, WaitingGroups)
        /\ UNCHANGED <<phase, conn, cs, jobList, block_css>>

\* Fault: any daemon may begin any job.
handle_job_begin_unchecked(c, j) ==
    /\ phase = "poll"
    /\ c \in css
    /\ j \in DOMAIN jobs
    /\ jobs' = [jobs EXCEPT ![j].state = "COMPILING"]
    /\ UNCHANGED <<phase, conn, cs, jobList, queued, ahead, new_job_id, block_css>>

\* Fault: whoever begins a dispatched job becomes its server.
handle_job_begin_takes_over(c, j) ==
    /\ phase = "poll"
    /\ c \in css
    /\ j \in DOMAIN jobs
    /\ jobs[j].server # Null
    /\ jobs' = [jobs EXCEPT ![j] = [@ EXCEPT !.state = "COMPILING", !.server = c]]
    /\ UNCHANGED <<phase, conn, cs, jobList, queued, ahead, new_job_id, block_css>>

\* handle_job_begin; it ignores jobs it does not know or c does not compile.
handle_job_begin(c, j) ==
    /\ phase = "poll"
    /\ c \in css
    /\ j \in DOMAIN jobs
    /\ jobs[j].server = c
    /\ jobs' = [jobs EXCEPT ![j].state = "COMPILING"]
    /\ UNCHANGED <<phase, conn, cs, jobList, queued, ahead, new_job_id, block_css>>

\* Fault: the job is deleted, but stays in its server's list.
handle_job_done_keeps_entry(c, j, from_server, ok) ==
    /\ phase = "poll"
    /\ c \in css
    /\ j \in DOMAIN jobs
    /\ jobs[j].server # Null
    /\ c = IF from_server THEN jobs[j].server ELSE jobs[j].submitter
    /\ jobs' = [k \in DOMAIN jobs \ {j} |-> jobs[k]]
    /\ UNCHANGED <<phase, conn, cs, jobList, queued, ahead, new_job_id, block_css>>

\* The reporter has no part in the job: it is removed.
WrongReporter(c, j, from_server) ==
    /\ c # IF from_server THEN jobs[j].server ELSE jobs[j].submitter
    /\ handle_end({c}, conn, cs, jobs)
    /\ UNCHANGED <<phase, new_job_id, block_css>>

\* The job leaves the table and its server's list, but not job_requests.
EndJob(c, j, from_server) ==
    /\ c = IF from_server THEN jobs[j].server ELSE jobs[j].submitter
    /\ jobList' = [d \in Conn |-> IF d = jobs[j].server THEN jobList[d] \ {j} ELSE jobList[d]]
    /\ jobs' = IF j \in queued THEN [jobs EXCEPT ![j].state = "DELETED"]
                              ELSE [k \in DOMAIN jobs \ {j} |-> jobs[k]]
    /\ UNCHANGED <<phase, conn, cs, queued, ahead, new_job_id, block_css>>

\* handle_job_done for a known id, with exit code 0 (ok) or another one.  For a
\* job without server a log line uses the null pointer: if it comes from a
\* compile server, and if it comes from the submitter and is ok.
handle_job_done(c, j, from_server, ok) ==
    /\ phase = "poll"
    /\ c \in css
    /\ j \in DOMAIN jobs
    /\ jobs[j].state # "DELETED"
    /\ IF jobs[j].server = Null /\ (from_server \/ (ok /\ c = jobs[j].submitter))
       THEN Crash
       ELSE WrongReporter(c, j, from_server) \/ EndJob(c, j, from_server)

\* The jobs a JobDoneMsg with unknown_job_client_id is about.
WaitingFor(c, client) ==
    {j \in DOMAIN jobs : /\ jobs[j].state # "DELETED"
                         /\ jobs[j].server = Null
                         /\ jobs[j].submitter = c
                         /\ jobs[j].client = client}

\* handle_job_done for a client that went away before its daemon knew a job id:
\* all its jobs leave the queue, but only the last one leaves the job table.
CancelJob(c, client) ==
    LET cancelled == WaitingFor(c, client)
    IN  /\ phase = "poll"
        /\ c \in css
        \* a client goes away once
        /\ cancelled \cap queued # {}
        /\ \E last \in cancelled :
              /\ \A j \in cancelled : j <= last
              /\ jobs' = [j \in DOMAIN jobs \ {last} |-> jobs[j]]
        /\ queued' = queued \ cancelled
        /\ ahead' = Without(ahead, {GroupOf(j) : j \in queued} \ {GroupOf(j) : j \in queued \ cancelled})
        /\ UNCHANGED <<phase, conn, cs, jobList, new_job_id, block_css>>

\* handle_local_job: a compilation that c runs without asking for a server.
handle_local_job(c, id, fulljob) ==
    /\ phase = "poll"
    /\ c \in css
    /\ new_job_id < MaxJobId
    /\ new_job_id' = new_job_id + 1
    /\ cs' = [cs EXCEPT ![c] =
          [@ EXCEPT !.one = IF fulljob THEN cs[c].one \ {id} ELSE cs[c].one \cup {id},
                    !.full = IF fulljob THEN cs[c].full \cup {id} ELSE cs[c].full \ {id}]]
    /\ UNCHANGED <<phase, conn, jobList, jobs, queued, ahead, block_css>>

handle_local_job_done(c, id) ==
    /\ phase = "poll"
    /\ c \in css
    /\ id \in cs[c].one \cup cs[c].full
    /\ cs' = [cs EXCEPT ![c] = [@ EXCEPT !.one = cs[c].one \ {id}, !.full = cs[c].full \ {id}]]
    /\ UNCHANGED <<phase, conn, jobList, jobs, queued, ahead, new_job_id, block_css>>

\* An answered ping makes the job limit positive again.
Answered(n) == IF n < 0 THEN -n ELSE n

handle_ping(c) ==
    /\ phase = "poll"
    /\ c \in css
    /\ cs' = [cs EXCEPT ![c].maxJobs = Answered(@)]
    /\ UNCHANGED <<phase, conn, jobList, jobs, queued, ahead, new_job_id, block_css>>

\* Before protocol 25 a StatsMsg is also the answer to a ping.
handle_stats(c, overloaded) ==
    /\ phase = "poll"
    /\ c \in css
    /\ cs' = [cs EXCEPT ![c] =
          [@ EXCEPT !.overloaded = overloaded,
                    !.maxJobs = IF Proto[cs[c].host] < 25 THEN Answered(cs[c].maxJobs)
                                                        ELSE cs[c].maxJobs]]
    /\ UNCHANGED <<phase, conn, jobList, jobs, queued, ahead, new_job_id, block_css>>

\* A client of c could not use environment e on host h.
handle_blacklist_host_env(c, h, e) ==
    /\ phase = "poll"
    /\ c \in css
    /\ cs' = [cs EXCEPT ![c].blacklist =
                 [d \in Conn |-> IF d \in css /\ cs[d].host = h THEN @[d] \cup {e} ELSE @[d]]]
    /\ UNCHANGED <<phase, conn, jobList, jobs, queued, ahead, new_job_id, block_css>>

-----------------------------------------------------------------------------

\* Connections and what the scheduler itself does to them.
Connections ==
    \/ \E c \in Conn : Accept(c) \/ Disconnect(c)
    \/ \E c \in Conn, h \in Host, envs \in SUBSET Env : handle_login(c, h, envs)
    \/ \E c \in Conn, envs \in SUBSET Env : handle_relogin(c, envs)
    \/ \E h \in Host, block, sent \in BOOLEAN : RemoveCS(h, block, sent)
    \/ \E h \in Host : UnblockCS(h)
    \/ handle_scheduler_announce
    \/ \E c \in Conn, acceptingIn \in BOOLEAN : updateInConnectivity(c, acceptingIn)

\* The ids a daemon may report: those it was told of when a job was dispatched,
\* and stray ones.
Reportable(j) == j \in DOMAIN jobs /\ (jobs[j].server = Null => j \in Stray)

Messages ==
    \/ \E c \in Conn, client \in ClientId, r \in Request : handle_cs_request(c, client, r)
    \/ \E c \in Conn, j \in JobId : handle_job_begin(c, j)
    \/ \E c \in Conn, j \in JobId, from_server, ok \in BOOLEAN :
          Reportable(j) /\ handle_job_done(c, j, from_server, ok)
    \/ \E c \in Conn, client \in ClientId : CancelJob(c, client)
    \/ \E c \in Conn, id \in LocalId, fulljob \in BOOLEAN : handle_local_job(c, id, fulljob)
    \/ \E c \in Conn, id \in LocalId : handle_local_job_done(c, id)
    \/ \E c \in Conn : handle_ping(c)
    \/ \E c \in Conn, overloaded \in BOOLEAN : handle_stats(c, overloaded)
    \/ \E c \in Conn, he \in Blacklisted : handle_blacklist_host_env(c, he[1], he[2])

Prune == \E dead, pinged \in SUBSET Conn : prune_servers(dead, pinged)

Next == empty_queue \/ FreedMemoryUsed \/ Connections \/ Messages \/ Prune

Spec == Init /\ [][Next]_vars

-----------------------------------------------------------------------------
(* Safety *)

\* The consistency checks of pick_server (DEBUG_SCHEDULER): what a server's job
\* list holds is a live job of that server, and every live job that was given
\* to a server, compiling or not, is in that server's list.
JobListsMatch ==
    \A c \in Conn, j \in JobId :
        j \in jobList[c] <=> j \in DOMAIN jobs /\ jobs[j].server = c

\* No job outlives the daemon that submitted it or the daemon that compiles it:
\* the pointers of a Job lead to servers in css, which handle_end guarantees for
\* every way a daemon can go.  It also gives empty_queue's assert(!css.empty()).
NoDanglingServer ==
    \A j \in DOMAIN jobs : /\ jobs[j].submitter \in css
                           /\ jobs[j].server \in css \cup {Null}

\* job_requests holds jobs that no server was picked for, and a job has a server
\* exactly when empty_queue has taken it off the queue.  A job is deleted while it
\* is queued only by a handle_job_done with an id that nobody was told: late and
\* doubled reports, cancellations and lost daemons never leave a dead pointer.
QueuedJobsWait ==
    /\ queued \subseteq DOMAIN jobs
    /\ \A j \in queued : jobs[j].state = "PENDING" \/ (jobs[j].state = "DELETED" /\ j \in Stray)
    /\ \A j \in DOMAIN jobs :
          /\ jobs[j].state \in {"PENDING", "DELETED"} <=> jobs[j].server = Null
          /\ jobs[j].state = "DELETED" => j \in queued

\* The groups in job_requests are lined up: a strict order, total within each
\* niceness, of exactly the groups that have a job.  It makes the first request
\* of get_first_job_request unique.
QueueIsOrdered ==
    /\ \A p \in ahead : /\ p[1] \in WaitingGroups /\ p[2] \in WaitingGroups
                        /\ p[1] # p[2] /\ p[1][2] = p[2][2]
                        /\ <<p[2], p[1]>> \notin ahead
    /\ \A p, q \in ahead : p[2] = q[1] => <<p[1], q[2]>> \in ahead
    /\ \A g, h \in WaitingGroups :
          g # h /\ g[2] = h[2] => <<g, h>> \in ahead \/ <<h, g>> \in ahead

\* When empty_queue dispatches a master job it writes through the pointers in
\* masterJobFor; the jobs they lead to must still wait, or an environment is
\* changed under a running job or in freed memory.
MasterBeforeRepeats ==
    \A j \in queued : jobs[j].state = "PENDING" => jobs[j].master \subseteq queued

\* handle_login removes the stale connection of a daemon that comes back, so a
\* machine is never counted twice.
OneServerPerHost ==
    \A c, d \in css : cs[c].host = cs[d].host => c = d

\* Jobs of other submitters on a server.
ForeignJobs(c) == {j \in jobList[c] : jobs[j].submitter # c}

\* A server is never given more jobs from others than its slots plus the
\* preload allowance of is_eligible_now, whatever pings, local jobs and job ends
\* do to the counters in between.
NoOvercommit ==
    \A c \in css :
        Cardinality(ForeignJobs(c)) <= MaxKids[cs[c].host] + 1 + (MaxKids[cs[c].host] \div 4)

\* m_blacklist is keyed by the address of a CompileServer: an entry must not
\* outlive the server, or it would hit the next daemon at that address.
NoStaleBlacklist ==
    \A c, d \in Conn : cs[c].blacklist[d] # {} => c \in css /\ d \in css

\* A job that a daemon is not yet told about keeps its id and waits; once told,
\* it has one server until it ends; ids are never given twice.
JobLifecycle ==
    [][/\ \A j \in DOMAIN jobs' \ DOMAIN jobs : j > new_job_id
       /\ \A j \in DOMAIN jobs' \cap DOMAIN jobs :
             /\ jobs'[j].submitter = jobs[j].submitter
             /\ jobs[j].server # Null => jobs'[j].server = jobs[j].server
             /\ jobs[j].state = "COMPILING" => jobs'[j].state = "COMPILING"
             /\ jobs[j].state = "WAITINGFORCS" => jobs'[j].envs = jobs[j].envs]_vars

-----------------------------------------------------------------------------
(* Liveness *)

\* The compile server reports the end of job j.
JobEnds(j) == \E c \in Conn :
    /\ j \in DOMAIN jobs
    /\ jobs[j].server = c
    /\ \E ok \in BOOLEAN : handle_job_done(c, j, TRUE, ok)

\* MAX_BUSY_INSTALLING passes for server c.
BusyTimesOut(c) == \E dead, pinged \in SUBSET Conn :
    c \in dead /\ cs[c].busy /\ prune_servers(dead, pinged)

\* The main loop runs.  Every compilation ends, and its message stays in the
\* socket until some poll phase reads it, hence strong fairness.  An installation
\* need not end: the timeout of prune_servers is enough.
Fairness ==
    /\ WF_vars(empty_queue)
    /\ WF_vars(Prune)
    /\ \A j \in JobId : SF_vars(JobEnds(j))
    /\ \A c \in Conn, id \in LocalId : SF_vars(handle_local_job_done(c, id))
    /\ \A c \in Conn : SF_vars(BusyTimesOut(c))

FairSpec == Spec /\ Fairness

\* A request that names no preferred host does not wait forever, even if every
\* server stays overloaded: "We only obey to its max job number" (the submitter's).
EveryRequestServed == \A j \in JobId : j \in queued ~> j \notin queued

-----------------------------------------------------------------------------
(* What the source says of itself, and does not do *)

\* scheduler.cpp:1009, where empty_queue gives up: "no job found in the whole
\* job_requests list".  The loop never looks at any job but the first.
WholeQueueSearched ==
    phase = "drain" =>
        \A j, k \in queued : FirstJobRequest(j) /\ Targets(j) = {} => Targets(k) = {}

\* scheduler.cpp:90: when a client goes away "we can and must remove all traces of
\* jobs resulting from that client in all lists".  A cancelled client that asked
\* for several servers leaves jobs behind in the table, in no queue.
NoTracesLeft ==
    \A j \in DOMAIN jobs : jobs[j].state = "PENDING" => j \in queued

\* scheduler.cpp:126: job_requests has "All pending job requests".  A report with
\* an id that its daemon made up, or has from another scheduler, deletes a job
\* that is still queued.
QueuedJobsLive == \A j \in queued : jobs[j].state # "DELETED"

\* scheduler.cpp:1001: that the submitter itself can install what its job needs
\* "should be trivially true".
SubmitterCanInstall ==
    \A j \in queued : can_install(jobs[j].submitter, j)
=============================================================================
