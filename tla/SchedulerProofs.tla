-------------------------- MODULE SchedulerProofs --------------------------
(***************************************************************************)
(* Theorems about Scheduler, for every set of connections, hosts,          *)
(* environments and requests: first the types and the lists of jobs, then  *)
(* the queue of requests and the life of a job, then the servers.          *)
(***************************************************************************)
EXTENDS Scheduler, FiniteSetTheorems, TLAPS

-----------------------------------------------------------------------------
(* The order of the groups stays a relation on groups. *)

\* A group put behind others leaves a relation on groups (enqueue_job_requests_group).
LEMMA BehindType ==
    ASSUME NEW STATE order, order \in SUBSET (Group \X Group), NEW STATE g, g \in Group, NEW STATE others, others \in SUBSET Group
    PROVE  Behind(order, g, others) \subseteq Group \X Group
  BY DEF Behind

\* So does taking groups away.
LEMMA WithoutType ==
    ASSUME NEW STATE order, order \in SUBSET (Group \X Group), NEW STATE gone
    PROVE  Without(order, gone) \subseteq Group \X Group
  BY DEF Without

\* The group of a typed job is a group of the queue's order.
LEMMA GroupType ==
    ASSUME TypeOK, NEW j \in DOMAIN jobs
    PROVE  GroupOf(j) \in Group
  BY DEF TypeOK, GroupOf, Group, JobState

\* The constructor of CompileServer makes a typed object.
LEMMA NewServerType == NewCompileServer \in ServerState
  BY DEF NewCompileServer, ServerState

\* What handle_end changes in the servers that stay keeps their type.
LEMMA EndedServerType ==
    \A s \in ServerState, b \in BOOLEAN, bl \in [Conn -> SUBSET Env] :
        [s EXCEPT !.busy = b, !.blacklist = bl] \in ServerState
  BY DEF ServerState

\* handle_end keeps the types, for every set of servers it removes.
LEMMA HandleEndType ==
    ASSUME TypeOK,
           NEW STATE S, S \in SUBSET Conn,
           NEW STATE conn1, conn1 \in [Conn -> {"none", "CONNECTED", "DAEMON"}],
           NEW STATE cs1, cs1 \in [Conn -> ServerState],
           NEW STATE jobs1, DOMAIN jobs1 \subseteq JobId, jobs1 \in [DOMAIN jobs1 -> JobState],
           handle_end(S, conn1, cs1, jobs1)
    PROVE  /\ conn' \in [Conn -> {"none", "CONNECTED", "DAEMON"}]
           /\ cs' \in [Conn -> ServerState]
           /\ jobList' \in [Conn -> SUBSET JobId]
           /\ DOMAIN jobs' \subseteq JobId
           /\ jobs' \in [DOMAIN jobs' -> JobState]
           /\ queued' \subseteq JobId
           /\ ahead' \subseteq Group \X Group
  <1> DEFINE gone == {j \in DOMAIN jobs1 : jobs1[j].server \in S \/ jobs1[j].submitter \in S}
  <1>1. conn' \in [Conn -> {"none", "CONNECTED", "DAEMON"}]
    BY DEF handle_end
  <1>2. cs' \in [Conn -> ServerState]
    <2> DEFINE kept(c) == [cs1[c] EXCEPT
                      !.busy = IF \E j \in gone : jobs1[j].server = c THEN FALSE ELSE @,
                      !.blacklist = eraseCSFromBlacklist(@, S)]
    <2>1. cs' = [c \in Conn |-> IF c \in S THEN NewCompileServer ELSE kept(c)]
      BY DEF handle_end, JobsWith
    <2>2. ASSUME NEW c \in Conn PROVE kept(c) \in ServerState
      <3> DEFINE b == IF \E j \in gone : jobs1[j].server = c THEN FALSE ELSE cs1[c].busy
                 bl == eraseCSFromBlacklist(cs1[c].blacklist, S)
      <3>1. cs1[c].busy \in BOOLEAN /\ cs1[c].blacklist \in [Conn -> SUBSET Env]
        BY DEF ServerState
      <3>2. b \in BOOLEAN /\ bl \in [Conn -> SUBSET Env]
        BY <3>1 DEF eraseCSFromBlacklist
      <3>3. kept(c) = [cs1[c] EXCEPT !.busy = b, !.blacklist = bl]
        OBVIOUS
      <3>4. cs1[c] \in ServerState
        OBVIOUS
      <3> HIDE DEF b, bl, kept
      <3>5. [cs1[c] EXCEPT !.busy = b, !.blacklist = bl] \in ServerState
        BY <3>2, <3>4, EndedServerType
      <3> QED BY <3>3, <3>5
    <2> QED BY <2>1, <2>2, NewServerType
  <1>3. jobList' \in [Conn -> SUBSET JobId]
    BY DEF handle_end, TypeOK
  <1>4. DOMAIN jobs' \subseteq JobId /\ jobs' \in [DOMAIN jobs' -> JobState]
    BY DEF handle_end
  <1>5. queued' \subseteq JobId /\ ahead' \subseteq Group \X Group
    BY WithoutType DEF handle_end, TypeOK
  <1> QED BY <1>1, <1>2, <1>3, <1>4, <1>5

-----------------------------------------------------------------------------
(* Type correctness *)

\* Updates of one CompileServer keep it a CompileServer.
LEMMA ServerUpdateTypes ==
    \A s \in ServerState :
        /\ \A h \in Host, n \in Int, envs \in SUBSET Env :
              [s EXCEPT !.host = h, !.maxJobs = n, !.envs = envs] \in ServerState
        /\ \A envs \in SUBSET Env : [s EXCEPT !.envs = envs, !.busy = FALSE] \in ServerState
        /\ \A n \in Int : [s EXCEPT !.maxJobs = n] \in ServerState
        /\ \A b \in BOOLEAN : [s EXCEPT !.busy = b] \in ServerState
        /\ \A b \in BOOLEAN : [s EXCEPT !.accepting = b] \in ServerState
        /\ \A b \in BOOLEAN, n \in Int :
              [s EXCEPT !.overloaded = b, !.maxJobs = n] \in ServerState
        /\ \A one, full \in SUBSET LocalId :
              [s EXCEPT !.one = one, !.full = full] \in ServerState
        /\ \A bl \in [Conn -> SUBSET Env] : [s EXCEPT !.blacklist = bl] \in ServerState
  <1> TAKE s \in ServerState
  <1>1. \A h \in Host, n \in Int, envs \in SUBSET Env :
           [s EXCEPT !.host = h, !.maxJobs = n, !.envs = envs] \in ServerState
    BY DEF ServerState
  <1>2. \A envs \in SUBSET Env : [s EXCEPT !.envs = envs, !.busy = FALSE] \in ServerState
    BY DEF ServerState
  <1>3. \A n \in Int : [s EXCEPT !.maxJobs = n] \in ServerState
    BY DEF ServerState
  <1>4. \A b \in BOOLEAN : [s EXCEPT !.busy = b] \in ServerState
    BY DEF ServerState
  <1>5. \A b \in BOOLEAN : [s EXCEPT !.accepting = b] \in ServerState
    BY DEF ServerState
  <1>6. \A b \in BOOLEAN, n \in Int : [s EXCEPT !.overloaded = b, !.maxJobs = n] \in ServerState
    BY DEF ServerState
  <1>7. \A one, full \in SUBSET LocalId : [s EXCEPT !.one = one, !.full = full] \in ServerState
    BY DEF ServerState
  <1>8. \A bl \in [Conn -> SUBSET Env] : [s EXCEPT !.blacklist = bl] \in ServerState
    BY DEF ServerState
  <1> QED BY <1>1, <1>2, <1>3, <1>4, <1>5, <1>6, <1>7, <1>8

\* What follows from the types for one server and for one job.
LEMMA ServerFields ==
    ASSUME NEW s \in ServerState
    PROVE  /\ s.host \in Host \cup {Null} /\ s.maxJobs \in Int
           /\ s.busy \in BOOLEAN
           /\ s.envs \in SUBSET Env /\ s.one \in SUBSET LocalId /\ s.full \in SUBSET LocalId
           /\ s.blacklist \in [Conn -> SUBSET Env]
  BY DEF ServerState

\* A step that changes nothing but one server keeps the types if the new server
\* has its type.
LEMMA OneServerChanges ==
    ASSUME TypeOK, NEW c \in Conn, NEW STATE s, s \in ServerState,
           cs' = [cs EXCEPT ![c] = s],
           new_job_id' \in 0..MaxJobId,
           UNCHANGED <<phase, conn, jobList, jobs, queued, ahead, block_css>>
    PROVE  TypeOK'
  BY DEF TypeOK

\* The step of a message handler that only writes the sender's CompileServer.
LEMMA ServerMessageType ==
    ASSUME TypeOK, NEW c \in Conn,
           \/ \E envs \in SUBSET Env : handle_relogin(c, envs)
           \/ \E b \in BOOLEAN : updateInConnectivity(c, b)
           \/ \E id \in LocalId, b \in BOOLEAN : handle_local_job(c, id, b)
           \/ \E id \in LocalId : handle_local_job_done(c, id)
           \/ handle_ping(c)
           \/ \E b \in BOOLEAN : handle_stats(c, b)
           \/ \E h \in Host, e \in Env : handle_blacklist_host_env(c, h, e)
    PROVE  TypeOK'
  <1>0. cs[c] \in ServerState /\ new_job_id \in 0..MaxJobId
    BY DEF TypeOK
  <1>a. /\ cs[c].maxJobs \in Int
        /\ cs[c].one \in SUBSET LocalId /\ cs[c].full \in SUBSET LocalId
        /\ cs[c].blacklist \in [Conn -> SUBSET Env]
    BY <1>0, ServerFields
  <1>1. ASSUME NEW envs \in SUBSET Env, handle_relogin(c, envs) PROVE TypeOK'
    <2>1. [cs[c] EXCEPT !.envs = envs, !.busy = FALSE] \in ServerState
      BY <1>0, ServerUpdateTypes
    <2> QED BY <1>0, <1>1, <2>1, OneServerChanges DEF handle_relogin
  <1>2. ASSUME NEW b \in BOOLEAN, updateInConnectivity(c, b) PROVE TypeOK'
    <2>1. [cs[c] EXCEPT !.accepting = b] \in ServerState
      BY <1>0, ServerUpdateTypes
    <2> QED BY <1>0, <1>2, <2>1, OneServerChanges DEF updateInConnectivity
  <1>3. ASSUME NEW id \in LocalId, NEW b \in BOOLEAN, handle_local_job(c, id, b) PROVE TypeOK'
    <2> DEFINE one == IF b THEN cs[c].one \ {id} ELSE cs[c].one \cup {id}
               full == IF b THEN cs[c].full \cup {id} ELSE cs[c].full \ {id}
    <2>1. one \in SUBSET LocalId /\ full \in SUBSET LocalId
      BY <1>a
    <2>2. cs' = [cs EXCEPT ![c] = [cs[c] EXCEPT !.one = one, !.full = full]]
      BY <1>3 DEF handle_local_job
    <2>3. new_job_id' \in 0..MaxJobId
      <3>1. new_job_id < MaxJobId /\ new_job_id' = new_job_id + 1
        BY <1>3 DEF handle_local_job
      <3> QED BY <1>0, <3>1, BoundAssumption
    <2> HIDE DEF one, full
    <2>4. [cs[c] EXCEPT !.one = one, !.full = full] \in ServerState
      BY <1>0, <2>1, ServerUpdateTypes
    <2> QED BY <1>3, <2>2, <2>3, <2>4, OneServerChanges DEF handle_local_job
  <1>4. ASSUME NEW id \in LocalId, handle_local_job_done(c, id) PROVE TypeOK'
    <2>1. [cs[c] EXCEPT !.one = cs[c].one \ {id}, !.full = cs[c].full \ {id}] \in ServerState
      BY <1>0, <1>a, ServerUpdateTypes
    <2> QED BY <1>0, <1>4, <2>1, OneServerChanges DEF handle_local_job_done
  <1>5. CASE handle_ping(c)
    <2>1. Answered(cs[c].maxJobs) \in Int
      BY <1>a DEF Answered
    <2>2. [cs[c] EXCEPT !.maxJobs = Answered(cs[c].maxJobs)] \in ServerState
      BY <1>0, <2>1, ServerUpdateTypes
    <2> QED BY <1>0, <1>5, <2>2, OneServerChanges DEF handle_ping
  <1>6. ASSUME NEW b \in BOOLEAN, handle_stats(c, b) PROVE TypeOK'
    <2> DEFINE n == IF Proto[cs[c].host] < 25 THEN Answered(cs[c].maxJobs) ELSE cs[c].maxJobs
    <2>1. n \in Int
      BY <1>a DEF Answered
    <2>2. cs' = [cs EXCEPT ![c] = [cs[c] EXCEPT !.overloaded = b, !.maxJobs = n]]
      BY <1>6 DEF handle_stats
    <2> HIDE DEF n
    <2>3. [cs[c] EXCEPT !.overloaded = b, !.maxJobs = n] \in ServerState
      BY <1>0, <2>1, ServerUpdateTypes
    <2> QED BY <1>0, <1>6, <2>2, <2>3, OneServerChanges DEF handle_stats
  <1>7. ASSUME NEW h \in Host, NEW e \in Env, handle_blacklist_host_env(c, h, e) PROVE TypeOK'
    <2> DEFINE bl == [d \in Conn |-> IF d \in css /\ cs[d].host = h
                                     THEN cs[c].blacklist[d] \cup {e}
                                     ELSE cs[c].blacklist[d]]
    <2>1. bl \in [Conn -> SUBSET Env]
      BY <1>a
    <2>2. cs' = [cs EXCEPT ![c] = [cs[c] EXCEPT !.blacklist = bl]]
      BY <1>7 DEF handle_blacklist_host_env
    <2> HIDE DEF bl
    <2>3. [cs[c] EXCEPT !.blacklist = bl] \in ServerState
      BY <1>0, <2>1, ServerUpdateTypes
    <2> QED BY <1>0, <1>7, <2>2, <2>3, OneServerChanges DEF handle_blacklist_host_env
  <1> QED BY <1>1, <1>2, <1>3, <1>4, <1>5, <1>6, <1>7

\* The groups that have a queued job are groups.
LEMMA WaitingGroupsType ==
    ASSUME TypeOK, queued \subseteq DOMAIN jobs
    PROVE  WaitingGroups \subseteq Group
  BY GroupType DEF WaitingGroups

\* The niceness handle_cs_request stores is in 0..20, whatever the client sent.
LEMMA ClampType == \A n \in Int : clamp(n) \in Niceness
  BY DEF clamp, Niceness

\* Only connections are in css.
LEMMA CssType == css \subseteq Conn
  BY DEF css

\* A job that is given to a server is still a job.
LEMMA DispatchedJobType ==
    \A r \in JobState, c \in Conn :
        [r EXCEPT !.state = "WAITINGFORCS", !.server = c] \in JobState
  BY DEF JobState

\* Where a job can be sent is a connection.
LEMMA TargetsType ==
    ASSUME TypeOK, NEW j \in DOMAIN jobs
    PROVE  Targets(j) \subseteq Conn
  <1>1. jobs[j].submitter \in Conn
    BY DEF TypeOK, JobState
  <1> QED BY <1>1, CssType DEF Targets, pick_server, filter_ineligible_servers

\* empty_queue keeps the types when it gives a job to a server.
LEMMA DispatchType ==
    ASSUME TypeOK, queued \subseteq DOMAIN jobs,
           NEW j \in JobId, NEW use_cs \in Conn, Dispatch(j, use_cs)
    PROVE  TypeOK'
  <1>0. j \in queued /\ j \in DOMAIN jobs
    BY DEF Dispatch, FirstJobRequest
  <1>1. UNCHANGED <<phase, conn, new_job_id, block_css>>
    BY DEF Dispatch
  <1>2. DOMAIN jobs' \subseteq JobId /\ jobs' \in [DOMAIN jobs' -> JobState]
    <2> DEFINE given == [jobs[j] EXCEPT !.state = "WAITINGFORCS", !.server = use_cs]
               narrowed(k) == [jobs[k] EXCEPT !.envs = HostEnvs(use_cs, j)]
    <2>1. jobs' = [k \in DOMAIN jobs |->
              IF k = j THEN given
              ELSE IF k \in jobs[j].master /\ HostEnvs(use_cs, j) # {} THEN narrowed(k)
              ELSE jobs[k]]
      BY DEF Dispatch
    <2>2. \A k \in DOMAIN jobs : jobs[k] \in JobState
      BY DEF TypeOK
    <2>3. given \in JobState
      BY <1>0, <2>2, DispatchedJobType
    <2>4. HostEnvs(use_cs, j) \in SUBSET Env
      BY <1>0, <2>2 DEF HostEnvs, JobState
    <2>5. \A r \in JobState, E \in SUBSET Env : [r EXCEPT !.envs = E] \in JobState
      BY DEF JobState
    <2>6. \A k \in DOMAIN jobs : narrowed(k) \in JobState
      BY <2>2, <2>4, <2>5
    <2> HIDE DEF given, narrowed
    <2> QED BY <2>1, <2>2, <2>3, <2>6 DEF TypeOK
  <1>3. jobList' \in [Conn -> SUBSET JobId]
    BY DEF Dispatch, TypeOK
  <1>4. cs' \in [Conn -> ServerState]
    <2> DEFINE b == IF envs_match(use_cs, j) THEN cs[use_cs].busy ELSE TRUE
    <2>1. cs' = [cs EXCEPT ![use_cs] = [cs[use_cs] EXCEPT !.busy = b]]
      BY DEF Dispatch
    <2>2. cs[use_cs] \in ServerState
      BY DEF TypeOK
    <2>3. b \in BOOLEAN
      BY <2>2, ServerFields
    <2> HIDE DEF b
    <2>4. [cs[use_cs] EXCEPT !.busy = b] \in ServerState
      BY <2>2, <2>3, ServerUpdateTypes
    <2> QED BY <2>1, <2>4 DEF TypeOK
  <1>5. queued' \subseteq JobId
    BY DEF Dispatch, remove_job_request, TypeOK
  <1>6. ahead' \subseteq Group \X Group
    <2> DEFINE g == GroupOf(j)
               rest == Without(ahead, {g})
    <2>1. g \in Group /\ WaitingGroups \ {g} \in SUBSET Group
      BY <1>0, GroupType, WaitingGroupsType
    <2>2. rest \in SUBSET (Group \X Group)
      BY WithoutType DEF TypeOK
    <2>3. ahead' = rest \/ ahead' = Behind(rest, g, WaitingGroups \ {g})
      BY DEF Dispatch, remove_job_request
    <2> HIDE DEF g, rest
    <2> QED BY <2>1, <2>2, <2>3, BehindType
  <1> QED BY <1>1, <1>2, <1>3, <1>4, <1>5, <1>6 DEF TypeOK

\* The steps that remove servers.
LEMMA RemovalType ==
    ASSUME TypeOK, queued \subseteq DOMAIN jobs,
           \/ \E j \in JobId, use_cs \in Conn : DispatchFails(j, use_cs)
           \/ \E c \in Conn : Disconnect(c)
           \/ \E c \in Conn, h \in Host, envs \in SUBSET Env : handle_login(c, h, envs)
           \/ \E h \in Host, block, sent \in BOOLEAN : RemoveCS(h, block, sent)
           \/ handle_scheduler_announce
           \/ \E dead, pinged \in SUBSET Conn : prune_servers(dead, pinged)
    PROVE  TypeOK'
  <1>0. /\ conn \in [Conn -> {"none", "CONNECTED", "DAEMON"}]
        /\ cs \in [Conn -> ServerState]
        /\ DOMAIN jobs \subseteq JobId /\ jobs \in [DOMAIN jobs -> JobState]
    BY DEF TypeOK
  <1> DEFINE Removed == /\ conn' \in [Conn -> {"none", "CONNECTED", "DAEMON"}]
                        /\ cs' \in [Conn -> ServerState]
                        /\ jobList' \in [Conn -> SUBSET JobId]
                        /\ DOMAIN jobs' \subseteq JobId
                        /\ jobs' \in [DOMAIN jobs' -> JobState]
                        /\ queued' \subseteq JobId
                        /\ ahead' \subseteq Group \X Group
  <1>1. ASSUME Removed, phase' \in {"drain", "poll"}, UNCHANGED new_job_id,
               block_css' \in [Host -> 0..MaxBlock]
        PROVE  TypeOK'
    BY <1>1 DEF TypeOK
  <1>2. ASSUME NEW STATE S, S \in SUBSET Conn, handle_end(S, conn, cs, jobs) PROVE Removed
    BY <1>0, <1>2, HandleEndType
  <1>3. phase \in {"drain", "poll"} /\ block_css \in [Host -> 0..MaxBlock]
    BY DEF TypeOK
  <1>4. ASSUME NEW j \in JobId, NEW use_cs \in Conn, DispatchFails(j, use_cs) PROVE TypeOK'
    <2> DEFINE jobs1 == [jobs EXCEPT ![j] = [@ EXCEPT !.state = "WAITINGFORCS", !.server = use_cs]]
               S == {jobs[j].submitter}
    <2>1. j \in DOMAIN jobs
      BY <1>4 DEF DispatchFails, FirstJobRequest
    <2>2. jobs[j] \in JobState /\ S \in SUBSET Conn
      BY <1>0, <2>1 DEF JobState
    <2>3. jobs1 \in [DOMAIN jobs1 -> JobState] /\ DOMAIN jobs1 \subseteq JobId
      BY <1>0, <2>1, <2>2, DispatchedJobType
    <2>4. handle_end(S, conn, cs, jobs1) /\ UNCHANGED <<phase, new_job_id, block_css>>
      BY <1>4 DEF DispatchFails
    <2> HIDE DEF jobs1, S
    <2>5. Removed
      BY <1>0, <2>2, <2>3, <2>4, HandleEndType
    <2> QED BY <1>1, <1>3, <2>4, <2>5
  <1>5. ASSUME NEW c \in Conn, Disconnect(c) PROVE TypeOK'
    <2>1. handle_end({c}, conn, cs, jobs) /\ UNCHANGED <<phase, new_job_id, block_css>>
      BY <1>5 DEF Disconnect
    <2>2. Removed
      BY <1>2, <2>1
    <2> QED BY <1>1, <1>3, <2>1, <2>2
  <1>6. ASSUME NEW c \in Conn, NEW h \in Host, NEW envs \in SUBSET Env, handle_login(c, h, envs)
        PROVE  TypeOK'
    <2> DEFINE S == StaleServers(h)
               conn1 == [conn EXCEPT ![c] = "DAEMON"]
               s == [cs[c] EXCEPT !.host = h, !.maxJobs = MaxKids[h], !.envs = envs]
               cs1 == [cs EXCEPT ![c] = s]
    <2>1. ASSUME handle_end({c}, conn, cs, jobs) PROVE Removed
      BY <1>2, <2>1
    <2>2. ASSUME handle_end(S, conn1, cs1, jobs) PROVE Removed
      <3>1. S \in SUBSET Conn
        BY CssType DEF StaleServers
      <3>2. conn1 \in [Conn -> {"none", "CONNECTED", "DAEMON"}]
        BY <1>0
      <3>3. MaxKids[h] \in Int
        BY HostAssumption
      <3>4. s \in ServerState
        BY <1>0, <3>3, ServerUpdateTypes
      <3> HIDE DEF s
      <3>5. cs1 \in [Conn -> ServerState]
        BY <1>0, <3>4
      <3> HIDE DEF S, conn1, cs1
      <3> QED BY <1>0, <2>2, <3>1, <3>2, <3>5, HandleEndType
    <2>3. handle_end({c}, conn, cs, jobs) \/ handle_end(S, conn1, cs1, jobs)
      BY <1>6 DEF handle_login
    <2>4. Removed
      BY <2>1, <2>2, <2>3
    <2>5. UNCHANGED <<phase, new_job_id, block_css>>
      BY <1>6 DEF handle_login
    <2> QED BY <1>1, <1>3, <2>4, <2>5
  <1>7. ASSUME NEW h \in Host, NEW block \in BOOLEAN, NEW sent \in BOOLEAN,
               RemoveCS(h, block, sent)
        PROVE  TypeOK'
    <2> DEFINE S == {c \in css : sent /\ cs[c].host = h}
    <2>1. handle_end(S, conn, cs, jobs) /\ UNCHANGED <<phase, new_job_id>>
      BY <1>7 DEF RemoveCS
    <2>2. S \in SUBSET Conn
      BY CssType
    <2> HIDE DEF S
    <2>3. Removed
      BY <1>2, <2>1, <2>2
    <2>4. block_css' \in [Host -> 0..MaxBlock]
      <3>1. /\ block => block_css[h] < MaxBlock
            /\ block_css' = IF block THEN [block_css EXCEPT ![h] = @ + 1] ELSE block_css
        BY <1>7 DEF RemoveCS
      <3> QED BY <1>3, <3>1, BoundAssumption
    <2> QED BY <1>1, <1>3, <2>1, <2>3, <2>4
  <1>8. CASE handle_scheduler_announce
    <2>1. handle_end(css, conn, cs, jobs) /\ UNCHANGED <<phase, new_job_id, block_css>>
      BY <1>8 DEF handle_scheduler_announce
    <2>2. Removed
      BY <1>2, <2>1, CssType
    <2> QED BY <1>1, <1>3, <2>1, <2>2
  <1>9. ASSUME NEW dead \in SUBSET Conn, NEW pinged \in SUBSET Conn, prune_servers(dead, pinged)
        PROVE  TypeOK'
    <2> DEFINE pingedcs(c) == [cs[c] EXCEPT !.maxJobs = -cs[c].maxJobs]
               cs1 == [c \in Conn |-> IF c \in pinged THEN pingedcs(c) ELSE cs[c]]
    <2>1. /\ handle_end(dead, conn, cs1, jobs)
          /\ phase' = "drain" /\ UNCHANGED <<new_job_id, block_css>>
      BY <1>9 DEF prune_servers
    <2>2. \A c \in Conn : cs[c] \in ServerState /\ -cs[c].maxJobs \in Int
      BY <1>0, ServerFields
    <2>3. \A c \in Conn : pingedcs(c) \in ServerState
      BY <2>2, ServerUpdateTypes
    <2> HIDE DEF pingedcs
    <2>4. cs1 \in [Conn -> ServerState]
      BY <2>2, <2>3
    <2> HIDE DEF cs1
    <2>5. Removed
      BY <1>0, <2>1, <2>4, HandleEndType
    <2> QED BY <1>1, <1>3, <2>1, <2>5
  <1> QED BY <1>4, <1>5, <1>6, <1>7, <1>8, <1>9

\* The next process starts with typed variables.
LEMMA CrashType == Crash => TypeOK'
  <1> SUFFICES ASSUME Crash PROVE TypeOK'
    OBVIOUS
  <1>1. cs' \in [Conn -> ServerState]
    BY NewServerType DEF Crash
  <1>2. jobs' \in [DOMAIN jobs' -> JobState] /\ DOMAIN jobs' = {}
    BY DEF Crash
  <1>3. new_job_id' \in 0..MaxJobId /\ block_css' \in [Host -> 0..MaxBlock]
    BY BoundAssumption DEF Crash
  <1> QED BY <1>1, <1>2, <1>3 DEF Crash, TypeOK

\* The steps that change the job table, except Dispatch.
LEMMA JobMessageType ==
    ASSUME TypeOK, queued \subseteq DOMAIN jobs,
           NEW c \in Conn,
           \/ \E client \in ClientId, r \in Request : handle_cs_request(c, client, r)
           \/ \E j \in JobId : handle_job_begin(c, j)
           \/ \E j \in JobId, from_server, ok \in BOOLEAN : handle_job_done(c, j, from_server, ok)
           \/ \E client \in ClientId : CancelJob(c, client)
    PROVE  TypeOK'
  <1>0. /\ conn \in [Conn -> {"none", "CONNECTED", "DAEMON"}]
        /\ cs \in [Conn -> ServerState]
        /\ DOMAIN jobs \subseteq JobId /\ jobs \in [DOMAIN jobs -> JobState]
        /\ ahead \in SUBSET (Group \X Group)
    BY DEF TypeOK
  <1>1. ASSUME NEW client \in ClientId, NEW r \in Request, handle_cs_request(c, client, r)
        PROVE  TypeOK'
    <2> DEFINE first == new_job_id + 1
               ids == first..(new_job_id + r.count)
               n == clamp(r.nice)
               new(j) == [state |-> "PENDING", server |-> Null, submitter |-> c,
                          client |-> client, nice |-> n, envs |-> r.envs, pref |-> r.pref,
                          ver |-> r.ver, features |-> r.features,
                          master |-> IF j = first THEN ids \ {first} ELSE {}]
    <2>1. /\ r.nice \in Int /\ r.envs \in SUBSET Env /\ r.pref \in Host \cup {Null}
          /\ r.ver \in Nat /\ r.features \in SUBSET Feature /\ r.count \in Nat
      BY RequestAssumption
    <2>2. new_job_id \in 0..MaxJobId /\ new_job_id + r.count <= MaxJobId
      BY <1>1 DEF handle_cs_request, TypeOK
    <2>3. n \in Niceness
      BY <2>1, ClampType
    <2>4. ids \subseteq JobId
      BY <2>1, <2>2, BoundAssumption DEF JobId
    <2>5. \A j \in ids : new(j) \in JobState
      <3> HIDE DEF ids, n, first
      <3> QED BY <2>1, <2>3, <2>4 DEF JobState
    <2>6. jobs' = [j \in DOMAIN jobs \cup ids |-> IF j \in ids THEN new(j) ELSE jobs[j]]
      BY <1>1 DEF handle_cs_request
    <2>7. ahead' = ahead \/ ahead' = Behind(ahead, <<c, n>>, WaitingGroups)
      BY <1>1 DEF handle_cs_request
    <2>8. /\ queued' = queued \cup ids /\ new_job_id' = new_job_id + r.count
          /\ UNCHANGED <<phase, conn, cs, jobList, block_css>>
      BY <1>1 DEF handle_cs_request
    <2>9. new_job_id' \in 0..MaxJobId
      BY <2>1, <2>2, <2>8, BoundAssumption
    <2>10. <<c, n>> \in Group /\ WaitingGroups \in SUBSET Group
      BY <2>3, WaitingGroupsType DEF Group
    <2> HIDE DEF ids, n, new
    <2>11. ahead' \subseteq Group \X Group
      BY <1>0, <2>7, <2>10, BehindType
    <2>12. DOMAIN jobs' \subseteq JobId /\ jobs' \in [DOMAIN jobs' -> JobState]
      BY <1>0, <2>4, <2>5, <2>6
    <2> QED BY <2>4, <2>8, <2>9, <2>11, <2>12 DEF TypeOK
  <1>2. ASSUME NEW j \in JobId, handle_job_begin(c, j) PROVE TypeOK'
    <2>1. /\ j \in DOMAIN jobs
          /\ jobs' = [jobs EXCEPT ![j] = [jobs[j] EXCEPT !.state = "COMPILING"]]
          /\ UNCHANGED <<phase, conn, cs, jobList, queued, ahead, new_job_id, block_css>>
      BY <1>2 DEF handle_job_begin
    <2>2. \A r \in JobState : [r EXCEPT !.state = "COMPILING"] \in JobState
      BY DEF JobState
    <2>3. jobs' \in [DOMAIN jobs' -> JobState] /\ DOMAIN jobs' = DOMAIN jobs
      BY <1>0, <2>1, <2>2
    <2> QED BY <2>1, <2>3 DEF TypeOK
  <1>3. ASSUME NEW j \in JobId, NEW from_server \in BOOLEAN, NEW ok \in BOOLEAN,
               handle_job_done(c, j, from_server, ok)
        PROVE  TypeOK'
    <2>1. CASE WrongReporter(c, j, from_server)
      BY <1>0, <2>1, HandleEndType DEF TypeOK, WrongReporter
    <2>2. CASE EndJob(c, j, from_server)
      <3>1. jobList' \in [Conn -> SUBSET JobId]
        BY <2>2 DEF EndJob, TypeOK
      <3>2. \A s \in JobState : [s EXCEPT !.state = "DELETED"] \in JobState
        BY DEF JobState
      <3>3. DOMAIN jobs' \subseteq DOMAIN jobs /\ jobs' \in [DOMAIN jobs' -> JobState]
        <4>1. CASE jobs' = [jobs EXCEPT ![j] = [jobs[j] EXCEPT !.state = "DELETED"]]
          BY <1>0, <3>2, <4>1
        <4>2. CASE jobs' = [k \in DOMAIN jobs \ {j} |-> jobs[k]]
          BY <1>0, <4>2
        <4> QED BY <2>2, <4>1, <4>2 DEF EndJob
      <3> QED BY <2>2, <3>1, <3>3 DEF EndJob, TypeOK
    <2> QED BY <1>3, <2>1, <2>2, CrashType DEF handle_job_done
  <1>4. ASSUME NEW client \in ClientId, CancelJob(c, client) PROVE TypeOK'
    <2>1. PICK last \in DOMAIN jobs : jobs' = [j \in DOMAIN jobs \ {last} |-> jobs[j]]
      BY <1>4 DEF CancelJob, WaitingFor
    <2>2. jobs' \in [DOMAIN jobs' -> JobState] /\ DOMAIN jobs' \subseteq JobId
      BY <1>0, <2>1
    <2>3. /\ queued' \subseteq queued
          /\ UNCHANGED <<phase, conn, cs, jobList, new_job_id, block_css>>
      BY <1>4 DEF CancelJob
    <2>4. ahead' \subseteq Group \X Group
      BY <1>0, <1>4, WithoutType DEF CancelJob
    <2> QED BY <2>2, <2>3, <2>4 DEF TypeOK
  <1> QED BY <1>1, <1>2, <1>3, <1>4

\* Every step keeps the types, given that the queue holds live jobs.
LEMMA TypeStep ==
    ASSUME TypeOK, queued \subseteq DOMAIN jobs, [Next]_vars
    PROVE  TypeOK'
  <1>1. CASE empty_queue
    <2>1. ASSUME NothingQueued \/ \E j \in JobId : Delay(j) PROVE TypeOK'
      BY <2>1 DEF NothingQueued, Delay, TypeOK
    <2> QED BY <1>1, <2>1, DispatchType, RemovalType DEF empty_queue
  <1>2. CASE Connections
    <2>1. ASSUME NEW c \in Conn, Accept(c) PROVE TypeOK'
      BY <2>1 DEF Accept, TypeOK
    <2>2. ASSUME NEW h \in Host, UnblockCS(h) PROVE TypeOK'
      <3>1. block_css' \in [Host -> 0..MaxBlock]
        BY <2>2, BoundAssumption DEF UnblockCS, TypeOK
      <3> QED BY <2>2, <3>1 DEF UnblockCS, TypeOK
    <2> QED BY <1>2, <2>1, <2>2, RemovalType, ServerMessageType DEF Connections
  <1>3. CASE Messages
    <2>1. ASSUME NEW c \in Conn, NEW he \in Blacklisted,
                 handle_blacklist_host_env(c, he[1], he[2])
          PROVE  TypeOK'
      <3>1. he[1] \in Host /\ he[2] \in Env
        BY EnvAssumption
      <3> QED BY <2>1, <3>1, ServerMessageType
    <2>2. ASSUME NEW c \in Conn, NEW j \in JobId, NEW from_server \in BOOLEAN, NEW ok \in BOOLEAN,
                 handle_job_done(c, j, from_server, ok)
          PROVE  TypeOK'
      BY <2>2, JobMessageType
    <2> QED BY <1>3, <2>1, <2>2, JobMessageType, ServerMessageType DEF Messages
  <1>4. CASE Prune
    BY <1>4, RemovalType DEF Prune
  <1>5. CASE UNCHANGED vars
    BY <1>5 DEF vars, TypeOK
  <1>6. CASE FreedMemoryUsed
    BY <1>6, CrashType DEF FreedMemoryUsed
  <1> QED BY <1>1, <1>2, <1>3, <1>4, <1>5, <1>6 DEF Next

-----------------------------------------------------------------------------
(* The job table *)

\* The job table is consistent: what the debug assertions of pick_server check,
\* and what it takes for them to be inductive.
JobTable ==
    /\ JobListsMatch
    /\ NoDanglingServer
    /\ QueuedJobsWait
    /\ DOMAIN jobs \subseteq 1..new_job_id

\* handle_end keeps the job table consistent.  The jobs and servers may have
\* been changed before by the caller; only jobs of removed submitters may be
\* inconsistent then.
LEMMA HandleEndTable ==
    ASSUME TypeOK, NEW STATE S, S \in SUBSET Conn,
           NEW STATE conn1, NEW STATE cs1, NEW STATE jobs1,
           handle_end(S, conn1, cs1, jobs1),
           DOMAIN jobs1 = DOMAIN jobs,
           \A j \in DOMAIN jobs1 :
              /\ jobs1[j].submitter \in Conn /\ conn1[jobs1[j].submitter] = "DAEMON"
              /\ \/ jobs1[j].server = Null
                 \/ jobs1[j].server \in Conn /\ conn1[jobs1[j].server] = "DAEMON"
              /\ jobs1[j].state \in {"PENDING", "DELETED"} <=> jobs1[j].server = Null
              /\ jobs1[j].state = "DELETED" => j \in queued /\ j \in Stray
              /\ j \in queued /\ jobs1[j].submitter \notin S => jobs1[j].state \in {"PENDING", "DELETED"},
           \A c \in Conn, j \in JobId :
              j \in jobList[c] => j \in DOMAIN jobs1 /\ jobs1[j].server = c,
           \A j \in DOMAIN jobs1 :
              jobs1[j].submitter \notin S /\ jobs1[j].server # Null
                 => j \in jobList[jobs1[j].server],
           queued \subseteq DOMAIN jobs,
           UNCHANGED new_job_id, DOMAIN jobs \subseteq 1..new_job_id
    PROVE  JobTable'
  <1> DEFINE gone == {j \in DOMAIN jobs1 : jobs1[j].server \in S \/ jobs1[j].submitter \in S}
  <1>1. /\ DOMAIN jobs' = DOMAIN jobs1 \ gone
        /\ \A j \in DOMAIN jobs' : jobs'[j] = jobs1[j]
        /\ queued' = queued \ gone
        /\ \A c \in Conn : /\ c \in S => jobList'[c] = {} /\ conn'[c] = "none"
                           /\ c \notin S => /\ jobList'[c] = jobList[c] \ {j \in gone : jobs1[j].server = c}
                                            /\ conn'[c] = conn1[c]
    BY DEF handle_end, JobsWith
  <1>2. \A j \in DOMAIN jobs' : /\ j \in DOMAIN jobs1 /\ jobs'[j] = jobs1[j]
                                /\ jobs1[j].server \notin S /\ jobs1[j].submitter \notin S
    BY <1>1
  <1>3. \A c \in Conn \ S : conn1[c] = "DAEMON" => c \in css'
    BY <1>1 DEF css
  <1>4. NoDanglingServer'
    BY <1>2, <1>3 DEF NoDanglingServer
  <1>5. QueuedJobsWait'
    BY <1>1, <1>2 DEF QueuedJobsWait
  <1>6. JobListsMatch'
    <2> SUFFICES ASSUME NEW c \in Conn, NEW j \in JobId
                 PROVE  (j \in jobList[c] <=> j \in DOMAIN jobs /\ jobs[j].server = c)'
      BY DEF JobListsMatch
    <2>1. CASE c \in S
      BY <1>1, <1>2, <2>1
    <2>2. CASE c \notin S
      <3>1. jobList'[c] = jobList[c] \ {k \in gone : jobs1[k].server = c}
        BY <1>1, <2>2
      <3>2. j \in DOMAIN jobs' <=> j \in DOMAIN jobs1 /\ j \notin gone
        BY <1>1
      <3>3. c # Null
        BY ConnAssumption
      <3> QED BY <1>2, <3>1, <3>2, <3>3
    <2> QED BY <2>1, <2>2
  <1>7. (DOMAIN jobs \subseteq 1..new_job_id)'
    BY <1>1
  <1> QED BY <1>4, <1>5, <1>6, <1>7 DEF JobTable

\* In a consistent job table no handle_end does harm.
LEMMA PlainEndTable ==
    ASSUME TypeOK, JobTable, NEW STATE S, S \in SUBSET Conn, NEW STATE conn1, NEW STATE cs1,
           \A c \in css : conn1[c] = "DAEMON",
           handle_end(S, conn1, cs1, jobs), UNCHANGED new_job_id
    PROVE  JobTable'
  <1>1. \A j \in DOMAIN jobs :
              /\ jobs[j].submitter \in Conn /\ conn1[jobs[j].submitter] = "DAEMON"
              /\ \/ jobs[j].server = Null
                 \/ jobs[j].server \in Conn /\ conn1[jobs[j].server] = "DAEMON"
              /\ jobs[j].state \in {"PENDING", "DELETED"} <=> jobs[j].server = Null
              /\ jobs[j].state = "DELETED" => j \in queued /\ j \in Stray
              /\ j \in queued /\ jobs[j].submitter \notin S => jobs[j].state \in {"PENDING", "DELETED"}
    BY CssType DEF JobTable, NoDanglingServer, QueuedJobsWait
  <1>2. \A c \in Conn, j \in JobId :
              j \in jobList[c] => j \in DOMAIN jobs /\ jobs[j].server = c
    BY DEF JobTable, JobListsMatch
  <1>3. \A j \in DOMAIN jobs : jobs[j].server # Null => j \in jobList[jobs[j].server]
    <2>1. \A j \in DOMAIN jobs : j \in JobId
      BY DEF TypeOK
    <2> QED BY <1>1, <2>1 DEF JobTable, JobListsMatch
  <1>4. queued \subseteq DOMAIN jobs /\ DOMAIN jobs \subseteq 1..new_job_id
    BY DEF JobTable, QueuedJobsWait
  <1> QED BY <1>1, <1>2, <1>3, <1>4, HandleEndTable

\* empty_queue only sends jobs to daemons that are logged in.
LEMMA TargetsConnected ==
    ASSUME NoDanglingServer, NEW j \in DOMAIN jobs
    PROVE  Targets(j) \subseteq css
  BY DEF Targets, pick_server, filter_ineligible_servers, NoDanglingServer

\* empty_queue keeps the table's consistency when it gives a job to a server.
LEMMA DispatchTable ==
    ASSUME TypeOK, JobTable, NEW j \in JobId, NEW use_cs \in Conn, Dispatch(j, use_cs)
    PROVE  JobTable'
  <1>0. j \in queued /\ j \in DOMAIN jobs /\ use_cs \in css /\ use_cs # Null
    BY TargetsConnected, ConnAssumption DEF Dispatch, FirstJobRequest, JobTable, QueuedJobsWait
  <1>1. /\ DOMAIN jobs' = DOMAIN jobs
        /\ jobs'[j] = [jobs[j] EXCEPT !.state = "WAITINGFORCS", !.server = use_cs]
        /\ \A k \in DOMAIN jobs \ {j} :
              jobs'[k] = jobs[k] \/ jobs'[k] = [jobs[k] EXCEPT !.envs = HostEnvs(use_cs, j)]
    BY <1>0 DEF Dispatch
  <1>2. \A k \in DOMAIN jobs : jobs[k] \in JobState
    BY DEF TypeOK
  <1>3. /\ jobs'[j].state = "WAITINGFORCS" /\ jobs'[j].server = use_cs
        /\ jobs'[j].submitter = jobs[j].submitter
    BY <1>0, <1>1, <1>2 DEF JobState
  <1>4. \A k \in DOMAIN jobs \ {j} : /\ jobs'[k].state = jobs[k].state
                                     /\ jobs'[k].server = jobs[k].server
                                     /\ jobs'[k].submitter = jobs[k].submitter
    BY <1>1, <1>2 DEF JobState
  <1>5. queued' = queued \ {j} /\ jobList' = [jobList EXCEPT ![use_cs] = @ \cup {j}]
    BY DEF Dispatch, remove_job_request
  <1>6. css' = css /\ new_job_id' = new_job_id
    BY DEF Dispatch, css
  <1>7. NoDanglingServer'
    BY <1>0, <1>1, <1>3, <1>4, <1>6 DEF NoDanglingServer, JobTable
  <1>8. QueuedJobsWait'
    <2>1. /\ queued \subseteq DOMAIN jobs
          /\ \A k \in queued : jobs[k].state = "PENDING" \/ (jobs[k].state = "DELETED" /\ k \in Stray)
          /\ \A k \in DOMAIN jobs : /\ jobs[k].state \in {"PENDING", "DELETED"} <=> jobs[k].server = Null
                                    /\ jobs[k].state = "DELETED" => k \in queued
      BY DEF QueuedJobsWait, JobTable
    <2>2. /\ queued' \subseteq DOMAIN jobs'
          /\ \A k \in queued' : jobs'[k].state = "PENDING" \/ (jobs'[k].state = "DELETED" /\ k \in Stray)
      BY <1>1, <1>4, <1>5, <2>1
    <2>3. \A k \in DOMAIN jobs' : /\ jobs'[k].state \in {"PENDING", "DELETED"} <=> jobs'[k].server = Null
                                  /\ jobs'[k].state = "DELETED" => k \in queued'
      <3> TAKE k \in DOMAIN jobs'
      <3>1. CASE k = j
        BY <1>0, <1>3, <3>1
      <3>2. CASE k # j
        BY <1>1, <1>4, <1>5, <2>1, <3>2
      <3> QED BY <3>1, <3>2
    <2> QED BY <2>2, <2>3 DEF QueuedJobsWait
  <1>9. JobListsMatch'
    <2>1. jobs[j].server = Null
      BY <1>0 DEF JobTable, QueuedJobsWait
    <2>2. \A c \in Conn : j \notin jobList[c]
      BY <2>1, ConnAssumption DEF JobTable, JobListsMatch
    <2>3. \A c \in Conn, k \in JobId :
             k \in jobList'[c] <=> k \in jobList[c] \/ (c = use_cs /\ k = j)
      BY <1>5 DEF TypeOK
    <2>4. \A c \in Conn, k \in JobId : k \in jobList[c] <=> k \in DOMAIN jobs /\ jobs[k].server = c
      BY DEF JobTable, JobListsMatch
    <2>5. ASSUME NEW c \in Conn, NEW k \in JobId
          PROVE  k \in jobList'[c] <=> k \in DOMAIN jobs' /\ jobs'[k].server = c
      <3>1. CASE k = j
        BY <1>0, <1>1, <1>3, <2>2, <2>3, <3>1
      <3>2. CASE k # j
        BY <1>1, <1>4, <2>3, <2>4, <3>2
      <3> QED BY <3>1, <3>2
    <2> QED BY <2>5 DEF JobListsMatch
  <1> QED BY <1>1, <1>6, <1>7, <1>8, <1>9 DEF JobTable

\* The same when the answer cannot be sent and the submitter is removed.
LEMMA DispatchFailsTable ==
    ASSUME TypeOK, JobTable, NEW j \in JobId, NEW use_cs \in Conn, DispatchFails(j, use_cs)
    PROVE  JobTable'
  <1> DEFINE S == {jobs[j].submitter}
             jobs1 == [jobs EXCEPT ![j] = [@ EXCEPT !.state = "WAITINGFORCS", !.server = use_cs]]
  <1>0. j \in queued /\ j \in DOMAIN jobs /\ use_cs \in css /\ use_cs # Null
    BY TargetsConnected, ConnAssumption DEF DispatchFails, FirstJobRequest, JobTable, QueuedJobsWait
  <1>1. \A k \in DOMAIN jobs : jobs[k] \in JobState /\ k \in JobId
    BY DEF TypeOK
  <1>2. /\ DOMAIN jobs1 = DOMAIN jobs
        /\ jobs1[j].state = "WAITINGFORCS" /\ jobs1[j].server = use_cs
        /\ jobs1[j].submitter = jobs[j].submitter
        /\ \A k \in DOMAIN jobs \ {j} : jobs1[k] = jobs[k]
    BY <1>0, <1>1 DEF JobState
  <1>3. handle_end(S, conn, cs, jobs1) /\ UNCHANGED new_job_id
    BY DEF DispatchFails
  <1>4. S \in SUBSET Conn
    BY <1>0, <1>1 DEF JobState
  <1>5. jobs1[j].submitter \in S
    BY <1>2
  <1> HIDE DEF S, jobs1
  <1>6. \A k \in DOMAIN jobs1 :
              /\ jobs1[k].submitter \in Conn /\ conn[jobs1[k].submitter] = "DAEMON"
              /\ \/ jobs1[k].server = Null
                 \/ jobs1[k].server \in Conn /\ conn[jobs1[k].server] = "DAEMON"
              /\ jobs1[k].state \in {"PENDING", "DELETED"} <=> jobs1[k].server = Null
              /\ jobs1[k].state = "DELETED" => k \in queued /\ k \in Stray
              /\ k \in queued /\ jobs1[k].submitter \notin S => jobs1[k].state \in {"PENDING", "DELETED"}
    BY <1>0, <1>2, <1>5 DEF JobTable, NoDanglingServer, QueuedJobsWait, css
  <1>7. \A c \in Conn, k \in JobId :
              k \in jobList[c] => k \in DOMAIN jobs1 /\ jobs1[k].server = c
    <2>1. jobs[j].server = Null
      BY <1>0 DEF JobTable, QueuedJobsWait
    <2> QED BY <1>2, <2>1, ConnAssumption DEF JobTable, JobListsMatch
  <1>8. \A k \in DOMAIN jobs1 :
              jobs1[k].submitter \notin S /\ jobs1[k].server # Null
                 => k \in jobList[jobs1[k].server]
    BY <1>1, <1>2, <1>5, <1>6 DEF JobTable, JobListsMatch
  <1>9. queued \subseteq DOMAIN jobs /\ DOMAIN jobs \subseteq 1..new_job_id
    BY DEF JobTable, QueuedJobsWait
  <1> QED BY <1>2, <1>3, <1>4, <1>6, <1>7, <1>8, <1>9, HandleEndTable

\* A step that leaves the job table alone, and loses no server.
LEMMA UntouchedTable ==
    ASSUME JobTable, css \subseteq css', UNCHANGED <<jobList, jobs, queued, new_job_id>>
    PROVE  JobTable'
  BY DEF JobTable, JobListsMatch, NoDanglingServer, QueuedJobsWait

\* Logins, disconnects, blocks and announcements keep the table consistent.
LEMMA ConnectionsTable ==
    ASSUME TypeOK, JobTable, Connections \/ Prune
    PROVE  JobTable'
  <1>1. \A c \in css : conn[c] = "DAEMON"
    BY DEF css
  <1>2. ASSUME NEW STATE S, S \in SUBSET Conn, NEW STATE cs1, handle_end(S, conn, cs1, jobs),
               UNCHANGED new_job_id
        PROVE  JobTable'
    BY <1>1, <1>2, PlainEndTable
  <1>3. ASSUME NEW c \in Conn, Accept(c) PROVE JobTable'
    <2>1. css \subseteq css'
      BY <1>3 DEF Accept, css, TypeOK
    <2> QED BY <1>3, <2>1, UntouchedTable DEF Accept
  <1>4. ASSUME NEW c \in Conn, Disconnect(c) PROVE JobTable'
    BY <1>2, <1>4 DEF Disconnect
  <1>5. ASSUME NEW c \in Conn, NEW h \in Host, NEW envs \in SUBSET Env, handle_login(c, h, envs)
        PROVE  JobTable'
    <2> DEFINE S == StaleServers(h)
               conn1 == [conn EXCEPT ![c] = "DAEMON"]
               cs1 == [cs EXCEPT ![c] = [@ EXCEPT !.host = h, !.maxJobs = MaxKids[h], !.envs = envs]]
    <2>1. UNCHANGED new_job_id
      BY <1>5 DEF handle_login
    <2>2. CASE handle_end({c}, conn, cs, jobs)
      BY <1>2, <2>1, <2>2
    <2>3. CASE handle_end(S, conn1, cs1, jobs)
      <3>1. S \in SUBSET Conn
        BY CssType DEF StaleServers
      <3>2. \A d \in css : conn1[d] = "DAEMON"
        BY <1>1, CssType DEF TypeOK
      <3> HIDE DEF S, conn1, cs1
      <3> QED BY <2>1, <2>3, <3>1, <3>2, PlainEndTable
    <2> QED BY <1>5, <2>2, <2>3 DEF handle_login
  <1>6. ASSUME NEW h \in Host, NEW block \in BOOLEAN, NEW sent \in BOOLEAN,
               RemoveCS(h, block, sent)
        PROVE  JobTable'
    <2> DEFINE S == {c \in css : sent /\ cs[c].host = h}
    <2>1. handle_end(S, conn, cs, jobs) /\ UNCHANGED new_job_id /\ S \in SUBSET Conn
      BY <1>6, CssType DEF RemoveCS
    <2> HIDE DEF S
    <2> QED BY <1>2, <2>1
  <1>7. CASE handle_scheduler_announce
    BY <1>2, <1>7, CssType DEF handle_scheduler_announce
  <1>8. ASSUME NEW dead \in SUBSET Conn, NEW pinged \in SUBSET Conn, prune_servers(dead, pinged)
        PROVE  JobTable'
    <2> DEFINE cs1 == [c \in Conn |-> IF c \in pinged THEN [cs[c] EXCEPT !.maxJobs = -@] ELSE cs[c]]
    <2>1. handle_end(dead, conn, cs1, jobs) /\ UNCHANGED new_job_id
      BY <1>8 DEF prune_servers
    <2> HIDE DEF cs1
    <2> QED BY <1>2, <2>1
  <1>9. ASSUME \/ \E c \in Conn, envs \in SUBSET Env : handle_relogin(c, envs)
               \/ \E h \in Host : UnblockCS(h)
               \/ \E c \in Conn, b \in BOOLEAN : updateInConnectivity(c, b)
        PROVE  JobTable'
    <2>1. UNCHANGED <<conn, jobList, jobs, queued, new_job_id>>
      BY <1>9 DEF handle_relogin, UnblockCS, updateInConnectivity
    <2>2. css' = css
      BY <2>1 DEF css
    <2> QED BY <2>1, <2>2, UntouchedTable
  <1> QED BY <1>3, <1>4, <1>5, <1>6, <1>7, <1>8, <1>9 DEF Connections, Prune

\* The next process starts with an empty table.
LEMMA CrashTable == Crash => JobTable'
  BY DEF Crash, JobTable, JobListsMatch, NoDanglingServer, QueuedJobsWait

\* The end of a job, whether it was dispatched or is still in the queue.
LEMMA EndJobTable ==
    ASSUME TypeOK, JobTable, NEW c \in Conn, NEW j \in JobId, NEW from_server \in BOOLEAN,
           Reportable(j), EndJob(c, j, from_server)
    PROVE  JobTable'
  <1>0. jobs \in [DOMAIN jobs -> JobState] /\ j \in DOMAIN jobs /\ (jobs[j].server = Null => j \in Stray)
    BY DEF TypeOK, Reportable
  <1>1. css' = css /\ UNCHANGED <<queued, new_job_id>>
    BY DEF EndJob, css
  <1>2. \A d \in Conn, k \in JobId :
           k \in jobList'[d] <=> k \in jobList[d] /\ ~(d = jobs[j].server /\ k = j)
    BY DEF EndJob
  <1>3. j \in queued => jobs[j].server = Null
    BY DEF JobTable, QueuedJobsWait
  <1>4. CASE j \in queued
    <2>1. jobs' = [jobs EXCEPT ![j] = [jobs[j] EXCEPT !.state = "DELETED"]]
      BY <1>4 DEF EndJob
    <2>2. /\ DOMAIN jobs' = DOMAIN jobs
          /\ \A k \in DOMAIN jobs : /\ jobs'[k].server = jobs[k].server
                                    /\ jobs'[k].submitter = jobs[k].submitter
                                    /\ k # j => jobs'[k].state = jobs[k].state
          /\ jobs'[j].state = "DELETED"
      BY <1>0, <2>1 DEF JobState
    <2>3. NoDanglingServer'
      BY <1>1, <2>2 DEF JobTable, NoDanglingServer
    <2>4. QueuedJobsWait'
      BY <1>0, <1>1, <1>3, <1>4, <2>2 DEF JobTable, QueuedJobsWait
    <2>5. JobListsMatch'
      BY <1>2, <1>3, <1>4, <2>2, ConnAssumption DEF JobTable, JobListsMatch
    <2> QED BY <1>1, <2>2, <2>3, <2>4, <2>5 DEF JobTable
  <1>5. CASE j \notin queued
    <2>1. jobs' = [k \in DOMAIN jobs \ {j} |-> jobs[k]]
      BY <1>5 DEF EndJob
    <2>2. NoDanglingServer' /\ QueuedJobsWait'
      BY <1>1, <1>5, <2>1 DEF JobTable, QueuedJobsWait, NoDanglingServer
    <2>3. JobListsMatch'
      BY <1>0, <1>2, <2>1 DEF JobTable, JobListsMatch
    <2> QED BY <1>1, <2>1, <2>2, <2>3 DEF JobTable
  <1> QED BY <1>4, <1>5

\* So does every message of a daemon.
LEMMA MessagesTable ==
    ASSUME TypeOK, JobTable, Messages
    PROVE  JobTable'
  <1>0. /\ jobs \in [DOMAIN jobs -> JobState] /\ DOMAIN jobs \subseteq JobId
        /\ new_job_id \in Nat
    BY DEF TypeOK
  <1>1. ASSUME NEW c \in Conn, NEW client \in ClientId, NEW r \in Request,
               handle_cs_request(c, client, r)
        PROVE  JobTable'
    <2> DEFINE ids == (new_job_id + 1)..(new_job_id + r.count)
    <2>1. r.count \in Nat
      BY RequestAssumption
    <2>2. /\ DOMAIN jobs' = DOMAIN jobs \cup ids
          /\ \A j \in ids : /\ jobs'[j].state = "PENDING" /\ jobs'[j].server = Null
                            /\ jobs'[j].submitter = c
          /\ \A j \in DOMAIN jobs \ ids : jobs'[j] = jobs[j]
          /\ queued' = queued \cup ids
          /\ new_job_id' = new_job_id + r.count
          /\ c \in css
          /\ UNCHANGED <<conn, jobList>>
      BY <1>1 DEF handle_cs_request
    <2>3. DOMAIN jobs \cap ids = {}
      BY <1>0, <2>1 DEF JobTable
    <2>4. css' = css
      BY <2>2 DEF css
    <2>5. DOMAIN jobs \cup ids \subseteq 1..(new_job_id + r.count)
      BY <1>0, <2>1 DEF JobTable
    <2> HIDE DEF ids
    <2>6. NoDanglingServer'
      BY <2>2, <2>3, <2>4 DEF JobTable, NoDanglingServer
    <2>7. QueuedJobsWait'
      BY <2>2, <2>3 DEF JobTable, QueuedJobsWait
    <2>8. JobListsMatch'
      BY <2>2, <2>3, ConnAssumption DEF JobTable, JobListsMatch
    <2> QED BY <2>2, <2>5, <2>6, <2>7, <2>8 DEF JobTable
  <1>2. ASSUME NEW c \in Conn, NEW j \in JobId, handle_job_begin(c, j) PROVE JobTable'
    <2>1. /\ j \in DOMAIN jobs /\ jobs[j].server = c
          /\ jobs' = [jobs EXCEPT ![j] = [jobs[j] EXCEPT !.state = "COMPILING"]]
          /\ UNCHANGED <<conn, jobList, queued, new_job_id>>
      BY <1>2 DEF handle_job_begin
    <2>2. /\ DOMAIN jobs' = DOMAIN jobs
          /\ \A k \in DOMAIN jobs : /\ jobs'[k].server = jobs[k].server
                                    /\ jobs'[k].submitter = jobs[k].submitter
                                    /\ k # j => jobs'[k].state = jobs[k].state
          /\ jobs'[j].state = "COMPILING"
      BY <1>0, <2>1 DEF JobState
    <2>3. css' = css /\ jobs[j].server # Null
      BY <2>1, ConnAssumption DEF css
    <2>4. NoDanglingServer' /\ JobListsMatch'
      BY <2>1, <2>2, <2>3 DEF JobTable, NoDanglingServer, JobListsMatch
    <2>5. QueuedJobsWait'
      BY <2>1, <2>2, <2>3 DEF JobTable, QueuedJobsWait
    <2> QED BY <2>1, <2>2, <2>4, <2>5 DEF JobTable
  <1>3. ASSUME NEW c \in Conn, NEW j \in JobId, NEW from_server \in BOOLEAN, NEW ok \in BOOLEAN,
               Reportable(j), handle_job_done(c, j, from_server, ok)
        PROVE  JobTable'
    <2>1. CASE WrongReporter(c, j, from_server)
      BY <2>1, PlainEndTable DEF WrongReporter, css
    <2>2. CASE EndJob(c, j, from_server)
      BY <1>3, <2>2, EndJobTable
    <2> QED BY <1>3, <2>1, <2>2, CrashTable DEF handle_job_done
  <1>4. ASSUME NEW c \in Conn, NEW client \in ClientId, CancelJob(c, client) PROVE JobTable'
    <2>1. PICK last \in WaitingFor(c, client) : jobs' = [j \in DOMAIN jobs \ {last} |-> jobs[j]]
      BY <1>4 DEF CancelJob
    <2>2. last \in DOMAIN jobs /\ jobs[last].server = Null
      BY <2>1 DEF WaitingFor
    <2>3. /\ queued' \subseteq queued /\ last \notin queued'
          /\ UNCHANGED <<conn, jobList, new_job_id>>
      BY <1>4, <2>1 DEF CancelJob
    <2>4. css' = css
      BY <2>3 DEF css
    <2>5. NoDanglingServer'
      BY <2>1, <2>3, <2>4 DEF JobTable, NoDanglingServer
    <2>7. \A j \in queued : jobs[j].state = "DELETED" => j \in queued'
      BY <1>4 DEF CancelJob, WaitingFor
    <2>8. \A j \in DOMAIN jobs' : jobs'[j] = jobs[j] /\ j \in DOMAIN jobs
      BY <2>1
    <2>9. queued' \subseteq DOMAIN jobs'
      BY <2>1, <2>3 DEF JobTable, QueuedJobsWait
    <2>10. QueuedJobsWait'
      BY <2>3, <2>7, <2>8, <2>9 DEF JobTable, QueuedJobsWait
    <2>6. JobListsMatch'
      BY <2>1, <2>2, <2>3, ConnAssumption DEF JobTable, JobListsMatch
    <2> QED BY <2>1, <2>3, <2>5, <2>6, <2>10 DEF JobTable
  <1>5. ASSUME NEW c \in Conn,
               \/ \E id \in LocalId : handle_local_job_done(c, id)
               \/ handle_ping(c)
               \/ \E b \in BOOLEAN : handle_stats(c, b)
               \/ \E h, e : handle_blacklist_host_env(c, h, e)
        PROVE  JobTable'
    <2>1. UNCHANGED <<conn, jobList, jobs, queued, new_job_id>>
      BY <1>5 DEF handle_local_job_done, handle_ping, handle_stats, handle_blacklist_host_env
    <2>2. css' = css
      BY <2>1 DEF css
    <2> QED BY <2>1, <2>2, UntouchedTable
  <1>6. ASSUME NEW c \in Conn, NEW id \in LocalId, NEW b \in BOOLEAN, handle_local_job(c, id, b)
        PROVE  JobTable'
    <2>1. UNCHANGED <<conn, jobList, jobs, queued>> /\ new_job_id' = new_job_id + 1
      BY <1>6 DEF handle_local_job
    <2>2. (DOMAIN jobs \subseteq 1..new_job_id)'
      BY <1>0, <2>1 DEF JobTable
    <2>3. css' = css
      BY <2>1 DEF css
    <2> QED BY <2>1, <2>2, <2>3
            DEF JobTable, JobListsMatch, NoDanglingServer, QueuedJobsWait
  <1> QED BY <1>1, <1>2, <1>3, <1>4, <1>5, <1>6 DEF Messages

\* Types and job table together are inductive.
LEMMA TableInductive ==
    /\ Init => TypeOK /\ JobTable
    /\ TypeOK /\ JobTable /\ [Next]_vars => (TypeOK /\ JobTable)'
  <1>1. Init => TypeOK /\ JobTable
    <2> SUFFICES ASSUME Init PROVE TypeOK /\ JobTable
      OBVIOUS
    <2>1. cs \in [Conn -> ServerState]
      BY NewServerType DEF Init
    <2>2. jobs \in [DOMAIN jobs -> JobState] /\ DOMAIN jobs = {}
      BY DEF Init
    <2>3. new_job_id \in 0..MaxJobId /\ block_css \in [Host -> 0..MaxBlock]
      BY BoundAssumption DEF Init
    <2>4. TypeOK
      BY <2>1, <2>2, <2>3 DEF Init, TypeOK
    <2>5. JobTable
      BY <2>2 DEF Init, JobTable, JobListsMatch, NoDanglingServer, QueuedJobsWait
    <2> QED BY <2>4, <2>5
  <1>2. ASSUME TypeOK, JobTable, [Next]_vars PROVE (TypeOK /\ JobTable)'
    <2>1. TypeOK'
      BY <1>2, TypeStep DEF JobTable, QueuedJobsWait
    <2>2. CASE empty_queue
      <3>1. ASSUME NothingQueued \/ \E j \in JobId : Delay(j) PROVE JobTable'
        <4>1. UNCHANGED <<conn, jobList, jobs, queued, new_job_id>>
          BY <3>1 DEF NothingQueued, Delay
        <4>2. css' = css
          BY <4>1 DEF css
        <4> QED BY <1>2, <4>1, <4>2, UntouchedTable
      <3>2. JobTable'
        BY <1>2, <2>2, <3>1, DispatchTable, DispatchFailsTable DEF empty_queue
      <3> QED BY <2>1, <3>2
    <2>3. CASE Connections \/ Prune
      BY <1>2, <2>1, <2>3, ConnectionsTable
    <2>4. CASE Messages
      BY <1>2, <2>1, <2>4, MessagesTable
    <2>5. CASE UNCHANGED vars
      <3>1. css' = css /\ UNCHANGED <<jobList, jobs, queued, new_job_id>>
        BY <2>5 DEF vars, css
      <3> QED BY <1>2, <2>1, <3>1, UntouchedTable
    <2>6. CASE FreedMemoryUsed
      BY <2>1, <2>6, CrashTable DEF FreedMemoryUsed
    <2> QED BY <1>2, <2>2, <2>3, <2>4, <2>5, <2>6 DEF Next
  <1> QED BY <1>1, <1>2

\* The scheduler's variables always have their types.
THEOREM TypeCorrect == Spec => []TypeOK
  <1>1. Spec => [](TypeOK /\ JobTable)
    BY TableInductive, PTL DEF Spec
  <1> QED BY <1>1, PTL

\* pick_server's debug assertions hold: a server's job list holds exactly the
\* live jobs that were given to it.
THEOREM JobListsAlwaysMatch == Spec => []JobListsMatch
  <1>1. JobTable => JobListsMatch
    BY DEF JobTable
  <1> QED BY <1>1, TableInductive, PTL DEF Spec

\* No job refers to a deleted CompileServer, as submitter or as server.
THEOREM NoJobDangles == Spec => []NoDanglingServer
  <1>1. JobTable => NoDanglingServer
    BY DEF JobTable
  <1> QED BY <1>1, TableInductive, PTL DEF Spec

\* Every queued request is a job without a server, and a live one unless a
\* daemon reported an id it was not told (handle_job_done).
THEOREM QueuedJobsAlwaysWait == Spec => []QueuedJobsWait
  <1>1. JobTable => QueuedJobsWait
    BY DEF JobTable
  <1> QED BY <1>1, TableInductive, PTL DEF Spec

-----------------------------------------------------------------------------
(***************************************************************************)
(* The scheduler's queue of requests and the life of a job.                *)
(***************************************************************************)

-----------------------------------------------------------------------------
(* Orders of groups *)

\* What QueueIsOrdered says of a relation on a set of groups.
LinesUp(order, groups) ==
    /\ \A p \in order : /\ p[1] \in groups /\ p[2] \in groups
                        /\ p[1] # p[2] /\ p[1][2] = p[2][2]
                        /\ <<p[2], p[1]>> \notin order
    /\ \A p, q \in order : p[2] = q[1] => <<p[1], q[2]>> \in order
    /\ \A g, h \in groups :
          g # h /\ g[2] = h[2] => <<g, h>> \in order \/ <<h, g>> \in order

\* The groups that stay keep their order when others leave the list.
LEMMA WithoutLinesUp ==
    ASSUME NEW STATE order, order \in SUBSET (Group \X Group), NEW STATE groups, NEW STATE gone,
           LinesUp(order, groups)
    PROVE  LinesUp(Without(order, gone), groups \ gone)
  <1> DEFINE rest == Without(order, gone)
  <1>1. \A p : p \in rest <=> p \in order /\ p[1] \notin gone /\ p[2] \notin gone
    BY DEF Without
  <1>2. \A p \in order : p = <<p[1], p[2]>>
    OBVIOUS
  <1> HIDE DEF rest
  <1>3. \A p \in rest : /\ p[1] \in groups \ gone /\ p[2] \in groups \ gone
                        /\ p[1] # p[2] /\ p[1][2] = p[2][2]
                        /\ <<p[2], p[1]>> \notin rest
    BY <1>1 DEF LinesUp
  <1>4. \A p, q \in rest : p[2] = q[1] => <<p[1], q[2]>> \in rest
    BY <1>1 DEF LinesUp
  <1>5. \A g, h \in groups \ gone :
          g # h /\ g[2] = h[2] => <<g, h>> \in rest \/ <<h, g>> \in rest
    BY <1>1 DEF LinesUp
  <1>6. LinesUp(rest, groups \ gone)
    BY <1>3, <1>4, <1>5 DEF LinesUp
  <1> QED BY <1>6 DEF rest

\* A new group behind the others of its niceness keeps the list in line
\* (enqueue_job_requests_group).
LEMMA BehindLinesUp ==
    ASSUME NEW STATE order, order \in SUBSET (Group \X Group),
           NEW STATE groups, groups \in SUBSET Group, NEW STATE g, g \in Group \ groups,
           LinesUp(order, groups)
    PROVE  LinesUp(Behind(order, g, groups), groups \cup {g})
  <1> DEFINE longer == Behind(order, g, groups)
  <1>1. \A a, b : <<a, b>> \in longer <=>
             <<a, b>> \in order \/ (b = g /\ a \in groups /\ a[2] = g[2])
    BY DEF Behind
  <1>2. \A p \in longer : p = <<p[1], p[2]>>
    BY DEF Behind
  <1>3. \A a, b : <<a, b>> \in order => a \in groups /\ b \in groups /\ a # b /\ a[2] = b[2]
                                        /\ <<b, a>> \notin order
    BY DEF LinesUp
  <1>4. \A a, b, c : <<a, b>> \in order /\ <<b, c>> \in order => <<a, c>> \in order
    BY DEF LinesUp
  <1> HIDE DEF longer
  <1>5. \A a, b : <<a, b>> \in longer =>
            /\ a \in groups \cup {g} /\ b \in groups \cup {g}
            /\ a # b /\ a[2] = b[2] /\ <<b, a>> \notin longer
    BY <1>1, <1>3
  <1>6. \A a, b, c : <<a, b>> \in longer /\ <<b, c>> \in longer => <<a, c>> \in longer
    <2> SUFFICES ASSUME NEW a, NEW b, NEW c, <<a, b>> \in longer, <<b, c>> \in longer
                 PROVE  <<a, c>> \in longer
      OBVIOUS
    <2>1. <<a, b>> \in order /\ a \in groups /\ b \in groups /\ a[2] = b[2]
      BY <1>1, <1>3
    <2>2. CASE <<b, c>> \in order
      BY <1>1, <1>4, <2>1, <2>2
    <2>3. CASE c = g /\ b[2] = g[2]
      BY <1>1, <2>1, <2>3
    <2> QED BY <1>1, <2>2, <2>3
  <1>7. \A a, b \in groups \cup {g} :
            a # b /\ a[2] = b[2] => <<a, b>> \in longer \/ <<b, a>> \in longer
    BY <1>1 DEF LinesUp
  <1>8. LinesUp(longer, groups \cup {g})
    <2>1. \A p \in longer : /\ p[1] \in groups \cup {g} /\ p[2] \in groups \cup {g}
                            /\ p[1] # p[2] /\ p[1][2] = p[2][2]
                            /\ <<p[2], p[1]>> \notin longer
      BY <1>2, <1>5
    <2>2. \A p, q \in longer : p[2] = q[1] => <<p[1], q[2]>> \in longer
      BY <1>2, <1>6
    <2> QED BY <1>7, <2>1, <2>2 DEF LinesUp
  <1> QED BY <1>8 DEF longer

-----------------------------------------------------------------------------
(* What the steps do to the jobs and to the queue *)

\* The jobs that the daemons in S submitted are gone from the table and from
\* the queue, others may be gone from the table only, and nothing else changed.
SubmittersEnd(S) ==
    /\ DOMAIN jobs' \subseteq DOMAIN jobs
    /\ \A j \in DOMAIN jobs' : jobs'[j] = jobs[j]
    /\ queued' = {j \in queued : jobs[j].submitter \notin S}
    /\ ahead' = Without(ahead, S \X Niceness)

\* handle_end is such a step, also when its caller has just given a server to a
\* job of one of the daemons that end.
LEMMA HandleEndQueue ==
    ASSUME TypeOK, JobTable, NEW STATE S, S \in SUBSET Conn,
           NEW STATE conn1, NEW STATE cs1, NEW STATE jobs1,
           DOMAIN jobs1 = DOMAIN jobs,
           \A j \in DOMAIN jobs : \/ jobs1[j] = jobs[j]
                                  \/ /\ jobs1[j].submitter = jobs[j].submitter
                                     /\ jobs[j].submitter \in S,
           handle_end(S, conn1, cs1, jobs1)
    PROVE  SubmittersEnd(S)
  <1> DEFINE gone == JobsWith(S, jobs1)
  <1>1. \A j : j \in gone <=> j \in DOMAIN jobs /\ (jobs1[j].server \in S \/ jobs1[j].submitter \in S)
    BY DEF JobsWith
  <1>2. /\ jobs' = [j \in DOMAIN jobs1 \ gone |-> jobs1[j]]
        /\ queued' = queued \ gone
        /\ ahead' = Without(ahead, S \X Niceness)
    BY DEF handle_end
  <1> HIDE DEF gone
  <1>3. Null \notin S
    BY ConnAssumption
  <1>4. \A j \in queued : j \in DOMAIN jobs /\ jobs[j].server = Null
    BY DEF JobTable, QueuedJobsWait
  <1>5. \A j \in queued : j \in gone <=> jobs[j].submitter \in S
    BY <1>1, <1>3, <1>4
  <1>6. queued' = {j \in queued : jobs[j].submitter \notin S}
    BY <1>2, <1>5
  <1>7. DOMAIN jobs' \subseteq DOMAIN jobs /\ \A j \in DOMAIN jobs' : jobs'[j] = jobs[j]
    BY <1>1, <1>2
  <1> QED BY <1>2, <1>6, <1>7 DEF SubmittersEnd

\* The owner of job j, or its server, reports the end of it.
OwnJobEnds(j) ==
    /\ j \in DOMAIN jobs
    /\ \/ j \notin queued /\ jobs' = [k \in DOMAIN jobs \ {j} |-> jobs[k]]
       \/ j \in queued /\ jobs' = [jobs EXCEPT ![j].state = "DELETED"]
    /\ UNCHANGED <<queued, ahead>>

\* Every step is one of these, as far as the jobs and the queue can tell.
LEMMA QueueStep ==
    ASSUME TypeOK, JobTable, [Next]_vars
    PROVE  \/ UNCHANGED <<jobs, queued, ahead>>
           \/ \E S \in SUBSET Conn : SubmittersEnd(S)
           \/ \E j \in JobId, use_cs \in Conn : Dispatch(j, use_cs)
           \/ \E c \in Conn, client \in ClientId, r \in Request : handle_cs_request(c, client, r)
           \/ \E c \in Conn, j \in JobId : handle_job_begin(c, j)
           \/ \E j \in JobId : OwnJobEnds(j)
           \/ \E c \in Conn, client \in ClientId : CancelJob(c, client)
           \/ Crash
  <1> DEFINE Ended == \E S \in SUBSET Conn : SubmittersEnd(S)
             Same == UNCHANGED <<jobs, queued, ahead>>
  <1>1. ASSUME NEW STATE S, S \in SUBSET Conn, NEW STATE conn1, NEW STATE cs1,
               handle_end(S, conn1, cs1, jobs)
        PROVE  Ended
    <2>1. SubmittersEnd(S)
      BY <1>1, HandleEndQueue
    <2> QED BY <1>1, <2>1
  <1>2. ASSUME NEW j \in JobId, NEW use_cs \in Conn, DispatchFails(j, use_cs) PROVE Ended
    <2> DEFINE S == {jobs[j].submitter}
               jobs1 == [jobs EXCEPT ![j] = [@ EXCEPT !.state = "WAITINGFORCS", !.server = use_cs]]
    <2>1. j \in DOMAIN jobs
      BY <1>2 DEF DispatchFails, FirstJobRequest, JobTable, QueuedJobsWait
    <2>2. jobs[j] \in JobState
      BY <2>1 DEF TypeOK
    <2>3. S \in SUBSET Conn
      BY <2>2 DEF JobState
    <2>4. DOMAIN jobs1 = DOMAIN jobs /\ jobs1[j].submitter = jobs[j].submitter
      BY <2>1, <2>2 DEF JobState
    <2>5. \A k \in DOMAIN jobs : \/ jobs1[k] = jobs[k]
                                 \/ /\ jobs1[k].submitter = jobs[k].submitter
                                    /\ jobs[k].submitter \in S
      BY <2>1, <2>4
    <2>6. handle_end(S, conn, cs, jobs1)
      BY <1>2 DEF DispatchFails
    <2> HIDE DEF S, jobs1
    <2>7. SubmittersEnd(S)
      BY <2>3, <2>4, <2>5, <2>6, HandleEndQueue
    <2> QED BY <2>3, <2>7
  <1>3. ASSUME NEW c \in Conn, NEW h \in Host, NEW envs \in SUBSET Env, handle_login(c, h, envs)
        PROVE  Ended
    <2> DEFINE S == StaleServers(h)
               conn1 == [conn EXCEPT ![c] = "DAEMON"]
               cs1 == [cs EXCEPT ![c] = [@ EXCEPT !.host = h, !.maxJobs = MaxKids[h], !.envs = envs]]
    <2>1. S \in SUBSET Conn
      BY CssType DEF StaleServers
    <2>2. handle_end({c}, conn, cs, jobs) \/ handle_end(S, conn1, cs1, jobs)
      BY <1>3 DEF handle_login
    <2> HIDE DEF S, conn1, cs1
    <2> QED BY <1>1, <2>1, <2>2
  <1>4. ASSUME NEW h \in Host, NEW block \in BOOLEAN, NEW sent \in BOOLEAN,
               RemoveCS(h, block, sent)
        PROVE  Ended
    <2> DEFINE S == {c \in css : sent /\ cs[c].host = h}
    <2>1. handle_end(S, conn, cs, jobs) /\ S \in SUBSET Conn
      BY <1>4, CssType DEF RemoveCS
    <2> HIDE DEF S
    <2> QED BY <1>1, <2>1
  <1>5. ASSUME NEW dead \in SUBSET Conn, NEW pinged \in SUBSET Conn, prune_servers(dead, pinged)
        PROVE  Ended
    <2> DEFINE cs1 == [c \in Conn |-> IF c \in pinged THEN [cs[c] EXCEPT !.maxJobs = -@] ELSE cs[c]]
    <2>1. handle_end(dead, conn, cs1, jobs)
      BY <1>5 DEF prune_servers
    <2> HIDE DEF cs1
    <2> QED BY <1>1, <2>1
  <1>6. ASSUME (\E c \in Conn : Disconnect(c)) \/ handle_scheduler_announce PROVE Ended
    BY <1>1, <1>6, CssType DEF Disconnect, handle_scheduler_announce
  <1>7. ASSUME NEW c \in Conn, NEW j \in JobId, NEW from_server \in BOOLEAN, NEW ok \in BOOLEAN,
               handle_job_done(c, j, from_server, ok)
        PROVE  Ended \/ OwnJobEnds(j) \/ Crash
    <2>1. CASE WrongReporter(c, j, from_server)
      BY <1>1, <2>1 DEF WrongReporter
    <2>2. CASE EndJob(c, j, from_server)
      <3>1. j \in DOMAIN jobs /\ UNCHANGED <<queued, ahead>>
        BY <1>7, <2>2 DEF EndJob, handle_job_done
      <3>2. \/ j \notin queued /\ jobs' = [k \in DOMAIN jobs \ {j} |-> jobs[k]]
            \/ j \in queued /\ jobs' = [jobs EXCEPT ![j].state = "DELETED"]
        BY <2>2 DEF EndJob
      <3> QED BY <3>1, <3>2 DEF OwnJobEnds
    <2> QED BY <1>7, <2>1, <2>2 DEF handle_job_done
  <1>8. ASSUME \/ NothingQueued \/ \E j \in JobId : Delay(j)
               \/ \E c \in Conn : Accept(c)
               \/ \E c \in Conn, envs \in SUBSET Env : handle_relogin(c, envs)
               \/ \E h \in Host : UnblockCS(h)
               \/ \E c \in Conn, b \in BOOLEAN : updateInConnectivity(c, b)
        PROVE  Same
    BY <1>8 DEF NothingQueued, Delay, Accept, handle_relogin, UnblockCS, updateInConnectivity
  <1>9. ASSUME \/ \E c \in Conn, id \in LocalId, b \in BOOLEAN : handle_local_job(c, id, b)
               \/ \E c \in Conn, id \in LocalId : handle_local_job_done(c, id)
               \/ \E c \in Conn : handle_ping(c)
               \/ \E c \in Conn, b \in BOOLEAN : handle_stats(c, b)
               \/ \E c \in Conn, he \in Blacklisted : handle_blacklist_host_env(c, he[1], he[2])
        PROVE  Same
    BY <1>9 DEF handle_local_job, handle_local_job_done, handle_ping, handle_stats,
                handle_blacklist_host_env
  <1>10. CASE empty_queue
    BY <1>2, <1>8, <1>10 DEF empty_queue
  <1>11. CASE Connections
    BY <1>3, <1>4, <1>6, <1>8, <1>11 DEF Connections
  <1>12. CASE Messages
    BY <1>7, <1>9, <1>12 DEF Messages
  <1>13. CASE Prune
    BY <1>5, <1>13 DEF Prune
  <1>14. CASE UNCHANGED vars
    BY <1>14 DEF vars
  <1>15. CASE FreedMemoryUsed
    BY <1>15 DEF FreedMemoryUsed
  <1> QED BY <1>10, <1>11, <1>12, <1>13, <1>14, <1>15 DEF Next

-----------------------------------------------------------------------------
(* The queue's order and the repeated jobs *)

\* The jobs a waiting master stands for wait with it: behind it, in its group,
\* for its client.
RepeatsWait ==
    \A j \in queued : jobs[j].state = "PENDING" => \A k \in jobs[j].master :
        /\ k \in queued /\ j < k
        /\ GroupOf(k) = GroupOf(j)
        /\ jobs[k].client = jobs[j].client

QueueInv == QueueIsOrdered /\ RepeatsWait

\* Daemons that end take their whole groups, and the masters with the repeats.
LEMMA SubmittersEndQueue ==
    ASSUME TypeOK, JobTable, JobTable', QueueInv, NEW S \in SUBSET Conn, SubmittersEnd(S)
    PROVE  QueueInv'
  <1>1. \A j \in queued : j \in DOMAIN jobs /\ jobs[j] \in JobState
    BY DEF TypeOK, JobTable, QueuedJobsWait
  <1>2. /\ \A j : j \in queued' <=> j \in queued /\ jobs[j].submitter \notin S
        /\ \A j \in queued' : jobs'[j] = jobs[j]
    BY DEF SubmittersEnd, JobTable, QueuedJobsWait
  <1>3. \A j \in queued : GroupOf(j) \in S \X Niceness <=> jobs[j].submitter \in S
    BY <1>1 DEF GroupOf, JobState
  <1>4. \A j \in queued' : GroupOf(j)' = GroupOf(j)
    BY <1>2 DEF GroupOf
  <1>5. WaitingGroups' = WaitingGroups \ (S \X Niceness)
    BY <1>2, <1>3, <1>4 DEF WaitingGroups
  <1>6. QueueIsOrdered'
    <2>1. ahead \in SUBSET (Group \X Group)
      BY DEF TypeOK
    <2>2. LinesUp(ahead, WaitingGroups)
      BY DEF QueueInv, QueueIsOrdered, LinesUp
    <2> DEFINE gone == S \X Niceness
    <2> HIDE DEF gone
    <2>3. LinesUp(Without(ahead, gone), WaitingGroups \ gone)
      BY <2>1, <2>2, WithoutLinesUp
    <2>4. LinesUp(ahead', WaitingGroups')
      BY <1>5, <2>3 DEF gone, SubmittersEnd
    <2> QED BY <2>4 DEF QueueIsOrdered, LinesUp
  <1>7. RepeatsWait'
    <2> SUFFICES ASSUME NEW j \in queued', jobs'[j].state = "PENDING", NEW k \in jobs'[j].master
                 PROVE  /\ k \in queued' /\ j < k
                        /\ GroupOf(k)' = GroupOf(j)'
                        /\ jobs'[k].client = jobs'[j].client
      BY DEF RepeatsWait
    <2>1. j \in queued /\ jobs'[j] = jobs[j] /\ jobs[j].submitter \notin S
      BY <1>2
    <2>2. k \in queued /\ j < k /\ GroupOf(k) = GroupOf(j) /\ jobs[k].client = jobs[j].client
      BY <2>1 DEF QueueInv, RepeatsWait
    <2>3. jobs[k].submitter = jobs[j].submitter
      BY <2>2 DEF GroupOf
    <2>4. k \in queued'
      BY <1>2, <2>1, <2>2, <2>3
    <2> QED BY <1>2, <1>4, <2>1, <2>2, <2>4
  <1> QED BY <1>6, <1>7 DEF QueueInv

\* What empty_queue leaves alone when it gives job j to a server.
LEMMA DispatchKeeps ==
    ASSUME TypeOK, JobTable, NEW j \in JobId, NEW use_cs \in Conn, Dispatch(j, use_cs)
    PROVE  /\ j \in queued /\ DOMAIN jobs' = DOMAIN jobs /\ queued' = queued \ {j}
           /\ jobs'[j].server = use_cs /\ jobs'[j].state = "WAITINGFORCS"
           /\ \A k \in DOMAIN jobs :
                 /\ jobs'[k].submitter = jobs[k].submitter
                 /\ jobs'[k].client = jobs[k].client
                 /\ jobs'[k].nice = jobs[k].nice
                 /\ jobs'[k].master = jobs[k].master
                 /\ k # j => jobs'[k].server = jobs[k].server /\ jobs'[k].state = jobs[k].state
                 /\ k \notin jobs[j].master /\ k # j => jobs'[k].envs = jobs[k].envs
  <1>1. j \in queued /\ j \in DOMAIN jobs
    BY DEF Dispatch, FirstJobRequest, JobTable, QueuedJobsWait
  <1>2. \A k \in DOMAIN jobs : jobs[k] \in JobState
    BY DEF TypeOK
  <1>3. queued' = queued \ {j}
    BY DEF Dispatch, remove_job_request
  <1>4. /\ DOMAIN jobs' = DOMAIN jobs
        /\ jobs'[j] = [jobs[j] EXCEPT !.state = "WAITINGFORCS", !.server = use_cs]
        /\ \A k \in DOMAIN jobs \ {j} :
              \/ jobs'[k] = jobs[k]
              \/ k \in jobs[j].master /\ jobs'[k] = [jobs[k] EXCEPT !.envs = HostEnvs(use_cs, j)]
    BY <1>1 DEF Dispatch
  <1>5. \A k \in DOMAIN jobs :
                 /\ jobs'[k].submitter = jobs[k].submitter
                 /\ jobs'[k].client = jobs[k].client
                 /\ jobs'[k].nice = jobs[k].nice
                 /\ jobs'[k].master = jobs[k].master
                 /\ k # j => jobs'[k].server = jobs[k].server /\ jobs'[k].state = jobs[k].state
    <2> TAKE k \in DOMAIN jobs
    <2>1. CASE k = j
      BY <1>2, <1>4, <2>1 DEF JobState
    <2>2. CASE k # j
      BY <1>2, <1>4, <2>2 DEF JobState
    <2> QED BY <2>1, <2>2
  <1>6. \A k \in DOMAIN jobs : k \notin jobs[j].master /\ k # j => jobs'[k].envs = jobs[k].envs
    BY <1>4
  <1>7. jobs'[j].server = use_cs /\ jobs'[j].state = "WAITINGFORCS"
    BY <1>1, <1>2, <1>4 DEF JobState
  <1> QED BY <1>1, <1>3, <1>4, <1>5, <1>6, <1>7

\* The first request is nobody's repeat, and its group is put behind the others
\* of its niceness (remove_job_request).
LEMMA DispatchQueue ==
    ASSUME TypeOK, JobTable, QueueInv, NEW j \in JobId, NEW use_cs \in Conn, Dispatch(j, use_cs)
    PROVE  QueueInv'
  <1> DEFINE g == GroupOf(j)
             more == \E k \in queued \ {j} : GroupOf(k) = g
  <1>1. /\ j \in queued /\ DOMAIN jobs' = DOMAIN jobs /\ queued' = queued \ {j}
        /\ queued \subseteq DOMAIN jobs
    BY DispatchKeeps DEF JobTable, QueuedJobsWait
  <1>2. \A k \in DOMAIN jobs : /\ GroupOf(k)' = GroupOf(k)
                               /\ jobs'[k].client = jobs[k].client
                               /\ jobs'[k].master = jobs[k].master
    BY DispatchKeeps DEF GroupOf
  <1>3. g \in Group /\ WaitingGroups \ {g} \in SUBSET Group /\ g \in WaitingGroups
    BY <1>1, GroupType, WaitingGroupsType DEF WaitingGroups
  <1>4. WaitingGroups' = IF more THEN WaitingGroups ELSE WaitingGroups \ {g}
    <2>1. WaitingGroups' = {GroupOf(k) : k \in queued \ {j}}
      BY <1>1, <1>2 DEF WaitingGroups
    <2> QED BY <1>1, <2>1 DEF WaitingGroups
  <1>5. QueueIsOrdered'
    <2> DEFINE rest == Without(ahead, {g})
    <2>1. ahead' = IF more THEN Behind(rest, g, WaitingGroups \ {g}) ELSE rest
      BY DEF Dispatch, remove_job_request
    <2>2. LinesUp(ahead, WaitingGroups) /\ ahead \in SUBSET (Group \X Group)
      BY DEF QueueInv, QueueIsOrdered, LinesUp, TypeOK
    <2> HIDE DEF g, more
    <2>3. LinesUp(rest, WaitingGroups \ {g})
      BY <2>2, WithoutLinesUp
    <2>4. rest \in SUBSET (Group \X Group)
      BY <2>2, WithoutType
    <2> HIDE DEF rest
    <2>5. LinesUp(Behind(rest, g, WaitingGroups \ {g}), (WaitingGroups \ {g}) \cup {g})
      BY <1>3, <2>3, <2>4, BehindLinesUp
    <2>6. (WaitingGroups \ {g}) \cup {g} = WaitingGroups
      BY <1>3
    <2>7. LinesUp(ahead', WaitingGroups')
      BY <1>4, <2>1, <2>3, <2>5, <2>6
    <2> QED BY <2>7 DEF QueueIsOrdered, LinesUp
  <1>6. RepeatsWait'
    <2> SUFFICES ASSUME NEW i \in queued', jobs'[i].state = "PENDING", NEW k \in jobs'[i].master
                 PROVE  /\ k \in queued' /\ i < k
                        /\ GroupOf(k)' = GroupOf(i)'
                        /\ jobs'[k].client = jobs'[i].client
      BY DEF RepeatsWait
    <2>1. i \in queued /\ i # j /\ k \in jobs[i].master /\ jobs[i].state = "PENDING"
      BY <1>1, <1>2, DispatchKeeps
    <2>2. k \in queued /\ i < k /\ GroupOf(k) = GroupOf(i) /\ jobs[k].client = jobs[i].client
      BY <2>1 DEF QueueInv, RepeatsWait
    <2>3. k # j
      <3> SUFFICES ASSUME k = j PROVE FALSE
        OBVIOUS
      <3>1. \/ jobs[j].nice < jobs[i].nice
            \/ <<GroupOf(j), GroupOf(i)>> \in ahead
            \/ j < i
        BY <2>1 DEF Dispatch, FirstJobRequest
      <3>2. jobs[j].nice = jobs[i].nice /\ jobs[i].nice \in Int
        BY <1>1, <2>1, <2>2 DEF GroupOf, TypeOK, JobState, Niceness
      <3>3. <<GroupOf(j), GroupOf(i)>> \notin ahead
        BY <2>2 DEF QueueInv, QueueIsOrdered
      <3>4. i \in Int /\ j \in Int
        BY <2>1 DEF TypeOK, JobId
      <3> QED BY <2>2, <3>1, <3>2, <3>3, <3>4
    <2> QED BY <1>1, <1>2, <2>1, <2>2, <2>3
  <1> QED BY <1>5, <1>6 DEF QueueInv

\* A request queues its jobs together, the master first (handle_cs_request).
LEMMA RequestQueue ==
    ASSUME TypeOK, JobTable, QueueInv,
           NEW c \in Conn, NEW client \in ClientId, NEW r \in Request,
           handle_cs_request(c, client, r)
    PROVE  QueueInv'
  <1> DEFINE first == new_job_id + 1
             ids == first..(new_job_id + r.count)
             g == <<c, clamp(r.nice)>>
  <1>0. new_job_id \in Nat /\ r.count \in Nat /\ r.nice \in Int
    BY RequestAssumption DEF TypeOK
  <1>1. DOMAIN jobs \cap ids = {} /\ queued \subseteq DOMAIN jobs
    BY <1>0 DEF JobTable, QueuedJobsWait
  <1>2. /\ DOMAIN jobs' = DOMAIN jobs \cup ids /\ queued' = queued \cup ids
        /\ \A j \in ids : /\ jobs'[j].submitter = c /\ jobs'[j].client = client
                          /\ jobs'[j].nice = clamp(r.nice)
                          /\ jobs'[j].master = IF j = first THEN ids \ {first} ELSE {}
        /\ \A j \in DOMAIN jobs \ ids : jobs'[j] = jobs[j]
    BY DEF handle_cs_request
  <1>3. \A j \in ids \ {first} : first < j
    BY <1>0
  <1>4. ahead' = IF ids = {} \/ g \in WaitingGroups THEN ahead ELSE Behind(ahead, g, WaitingGroups)
    BY DEF handle_cs_request
  <1>5. g \in Group /\ WaitingGroups \in SUBSET Group
    BY <1>0, <1>1, ClampType, WaitingGroupsType DEF Group
  <1>6. \A j \in ids : GroupOf(j)' = g
    BY <1>2 DEF GroupOf
  <1> HIDE DEF ids, g
  <1>7. \A j \in DOMAIN jobs : jobs'[j] = jobs[j] /\ GroupOf(j)' = GroupOf(j)
    BY <1>1, <1>2 DEF GroupOf
  <1>8. WaitingGroups' = IF ids = {} THEN WaitingGroups ELSE WaitingGroups \cup {g}
    BY <1>1, <1>2, <1>6, <1>7 DEF WaitingGroups
  <1>9. QueueIsOrdered'
    <2>1. LinesUp(ahead, WaitingGroups) /\ ahead \in SUBSET (Group \X Group)
      BY DEF QueueInv, QueueIsOrdered, LinesUp, TypeOK
    <2>2. CASE ids = {} \/ g \in WaitingGroups
      <3>1. ahead' = ahead /\ WaitingGroups' = WaitingGroups
        BY <1>4, <1>8, <2>2
      <3> QED BY <3>1 DEF QueueInv, QueueIsOrdered
    <2>3. CASE ~(ids = {} \/ g \in WaitingGroups)
      <3>1. LinesUp(Behind(ahead, g, WaitingGroups), WaitingGroups \cup {g})
        BY <1>5, <2>1, <2>3, BehindLinesUp
      <3>2. LinesUp(ahead', WaitingGroups')
        BY <1>4, <1>8, <2>3, <3>1
      <3> QED BY <3>2 DEF QueueIsOrdered, LinesUp
    <2> QED BY <2>2, <2>3
  <1>10. RepeatsWait'
    <2> SUFFICES ASSUME NEW j \in queued', jobs'[j].state = "PENDING", NEW k \in jobs'[j].master
                 PROVE  /\ k \in queued' /\ j < k
                        /\ GroupOf(k)' = GroupOf(j)'
                        /\ jobs'[k].client = jobs'[j].client
      BY DEF RepeatsWait
    <2>1. CASE j \in ids
      BY <1>2, <1>3, <1>6, <2>1
    <2>2. CASE j \in queued
      <3>1. k \in queued /\ j < k /\ GroupOf(k) = GroupOf(j) /\ jobs[k].client = jobs[j].client
        BY <1>1, <1>7, <2>2 DEF QueueInv, RepeatsWait
      <3> QED BY <1>1, <1>2, <1>7, <2>2, <3>1
    <2> QED BY <1>2, <2>1, <2>2
  <1> QED BY <1>9, <1>10 DEF QueueInv

\* A client that goes away takes its masters with their repeats (handle_job_done
\* with an unknown job).
LEMMA CancelQueue ==
    ASSUME TypeOK, JobTable, JobTable', QueueInv, NEW c \in Conn, NEW client \in ClientId,
           CancelJob(c, client)
    PROVE  QueueInv'
  <1> DEFINE cancelled == WaitingFor(c, client)
             stay == {GroupOf(j) : j \in queued \ cancelled}
  <1>1. /\ queued' = queued \ cancelled
        /\ ahead' = Without(ahead, WaitingGroups \ stay)
    BY DEF CancelJob, WaitingGroups
  <1>2. \A j \in DOMAIN jobs' : jobs'[j] = jobs[j]
    BY DEF CancelJob
  <1>3. queued' \subseteq DOMAIN jobs'
    BY DEF JobTable, QueuedJobsWait
  <1>4. \A j \in queued' : jobs'[j] = jobs[j] /\ GroupOf(j)' = GroupOf(j)
    BY <1>2, <1>3 DEF GroupOf
  <1>5. WaitingGroups' = stay
    BY <1>1, <1>4 DEF WaitingGroups
  <1>6. stay \subseteq WaitingGroups
    BY DEF WaitingGroups
  <1>7. \A j \in queued : j \in cancelled <=> /\ jobs[j].state # "DELETED"
                                            /\ jobs[j].submitter = c /\ jobs[j].client = client
    BY DEF WaitingFor, JobTable, QueuedJobsWait
  <1> HIDE DEF cancelled, stay
  <1>8. QueueIsOrdered'
    <2> DEFINE leave == WaitingGroups \ stay
    <2>1. LinesUp(ahead, WaitingGroups) /\ ahead \in SUBSET (Group \X Group)
      BY DEF QueueInv, QueueIsOrdered, LinesUp, TypeOK
    <2>2. WaitingGroups \ leave = stay
      BY <1>6
    <2>3. ahead' = Without(ahead, leave)
      BY <1>1
    <2> HIDE DEF leave
    <2>4. LinesUp(Without(ahead, leave), WaitingGroups \ leave)
      BY <2>1, WithoutLinesUp
    <2>5. LinesUp(ahead', WaitingGroups')
      BY <1>5, <2>2, <2>3, <2>4
    <2> QED BY <2>5 DEF QueueIsOrdered, LinesUp
  <1>9. RepeatsWait'
    <2> SUFFICES ASSUME NEW j \in queued', jobs'[j].state = "PENDING", NEW k \in jobs'[j].master
                 PROVE  /\ k \in queued' /\ j < k
                        /\ GroupOf(k)' = GroupOf(j)'
                        /\ jobs'[k].client = jobs'[j].client
      BY DEF RepeatsWait
    <2>1. j \in queued /\ j \notin cancelled /\ jobs'[j] = jobs[j]
      BY <1>1, <1>4
    <2>2. k \in queued /\ j < k /\ GroupOf(k) = GroupOf(j) /\ jobs[k].client = jobs[j].client
      BY <2>1 DEF QueueInv, RepeatsWait
    <2>3. jobs[k].submitter = jobs[j].submitter
      BY <2>2 DEF GroupOf
    <2>4. k \in queued'
      BY <1>1, <1>7, <2>1, <2>2, <2>3
    <2> QED BY <1>4, <2>1, <2>2, <2>4
  <1> QED BY <1>8, <1>9 DEF QueueInv

\* A step that touches neither the queue nor what identifies the queued jobs.
LEMMA UntouchedQueue ==
    ASSUME QueueInv, UNCHANGED <<queued, ahead>>,
           \A j \in queued : /\ jobs'[j].submitter = jobs[j].submitter
                             /\ jobs'[j].client = jobs[j].client
                             /\ jobs'[j].nice = jobs[j].nice
                             /\ jobs'[j].master = jobs[j].master
                             /\ jobs'[j].state = "PENDING" => jobs[j].state = "PENDING"
    PROVE  QueueInv'
  <1>1. \A j \in queued : GroupOf(j)' = GroupOf(j)
    BY DEF GroupOf
  <1>2. WaitingGroups' = WaitingGroups
    BY <1>1 DEF WaitingGroups
  <1>3. QueueIsOrdered'
    BY <1>2 DEF QueueInv, QueueIsOrdered
  <1>4. RepeatsWait'
    BY <1>1 DEF QueueInv, RepeatsWait
  <1> QED BY <1>3, <1>4 DEF QueueInv

\* With the types and the job table, the queue's invariants are inductive.
LEMMA QueueInductive ==
    /\ Init => QueueInv
    /\ TypeOK /\ JobTable /\ QueueInv /\ [Next]_vars => QueueInv'
  <1>1. Init => QueueInv
    BY DEF Init, QueueInv, QueueIsOrdered, RepeatsWait, WaitingGroups
  <1>2. ASSUME TypeOK, JobTable, QueueInv, [Next]_vars PROVE QueueInv'
    <2>0. JobTable' /\ queued \subseteq DOMAIN jobs
      BY <1>2, TableInductive DEF JobTable, QueuedJobsWait
    <2>1. CASE UNCHANGED <<jobs, queued, ahead>>
      BY <1>2, <2>1, UntouchedQueue
    <2>2. CASE \E S \in SUBSET Conn : SubmittersEnd(S)
      BY <1>2, <2>0, <2>2, SubmittersEndQueue
    <2>3. CASE \E j \in JobId, use_cs \in Conn : Dispatch(j, use_cs)
      BY <1>2, <2>3, DispatchQueue
    <2>4. CASE \E c \in Conn, client \in ClientId, r \in Request : handle_cs_request(c, client, r)
      BY <1>2, <2>4, RequestQueue
    <2>5. ASSUME NEW c \in Conn, NEW j \in JobId, handle_job_begin(c, j) PROVE QueueInv'
      <3>1. \A k \in DOMAIN jobs : jobs[k] \in JobState
        BY <1>2 DEF TypeOK
      <3>2. /\ jobs' = [jobs EXCEPT ![j] = [jobs[j] EXCEPT !.state = "COMPILING"]]
            /\ UNCHANGED <<queued, ahead>>
        BY <2>5 DEF handle_job_begin
      <3>3. \A k \in DOMAIN jobs : /\ jobs'[k].submitter = jobs[k].submitter
                                   /\ jobs'[k].client = jobs[k].client
                                   /\ jobs'[k].nice = jobs[k].nice
                                   /\ jobs'[k].master = jobs[k].master
                                   /\ jobs'[k].state \in {jobs[k].state, "COMPILING"}
        BY <3>1, <3>2 DEF JobState
      <3> QED BY <1>2, <2>0, <3>2, <3>3, UntouchedQueue
    <2>6. ASSUME NEW j \in JobId, OwnJobEnds(j) PROVE QueueInv'
      <3>1. UNCHANGED <<queued, ahead>>
        BY <2>6 DEF OwnJobEnds
      <3>2. \A k \in DOMAIN jobs : jobs[k] \in JobState
        BY <1>2 DEF TypeOK
      <3>3. \A k \in queued : \/ jobs'[k] = jobs[k]
                              \/ jobs'[k] = [jobs[k] EXCEPT !.state = "DELETED"]
        BY <2>0, <2>6 DEF OwnJobEnds
      <3>4. \A k \in queued : /\ jobs'[k].submitter = jobs[k].submitter
                              /\ jobs'[k].client = jobs[k].client
                              /\ jobs'[k].nice = jobs[k].nice
                              /\ jobs'[k].master = jobs[k].master
                              /\ jobs'[k].state = "PENDING" => jobs[k].state = "PENDING"
        BY <2>0, <3>2, <3>3 DEF JobState
      <3>5. QueueInv
        BY <1>2
      <3> QED BY <3>1, <3>4, <3>5, UntouchedQueue
    <2>7. CASE \E c \in Conn, client \in ClientId : CancelJob(c, client)
      BY <1>2, <2>0, <2>7, CancelQueue
    <2>8. CASE Crash
      BY <2>8 DEF Crash, QueueInv, QueueIsOrdered, RepeatsWait, WaitingGroups
    <2> QED BY <1>2, <2>1, <2>2, <2>3, <2>4, <2>5, <2>6, <2>7, <2>8, QueueStep
  <1> QED BY <1>1, <1>2

\* job_requests is always in line: the groups in it are exactly those that have
\* a queued job, strictly ordered within each niceness, so get_first_job_request
\* always has one answer.
THEOREM QueueAlwaysOrdered == Spec => []QueueIsOrdered
  <1>1. QueueInv => QueueIsOrdered
    BY DEF QueueInv
  <1> QED BY <1>1, TableInductive, QueueInductive, PTL DEF Spec

\* The pointers in masterJobFor of a queued job lead to jobs that wait, too.
THEOREM MastersAlwaysFirst == Spec => []MasterBeforeRepeats
  <1>1. QueueInv => MasterBeforeRepeats
    BY DEF QueueInv, RepeatsWait, MasterBeforeRepeats
  <1> QED BY <1>1, TableInductive, QueueInductive, PTL DEF Spec

\* empty_queue has no choice: at most one request is the first.
THEOREM FirstRequestUnique ==
    Spec => [](\A j, k \in JobId : FirstJobRequest(j) /\ FirstJobRequest(k) => j = k)
  <1>1. ASSUME TypeOK, JobTable, QueueInv, NEW j \in JobId, NEW k \in JobId,
               FirstJobRequest(j), FirstJobRequest(k), j # k
        PROVE  FALSE
    <2>1. /\ jobs[j].nice \in Int /\ jobs[k].nice \in Int /\ j \in Int /\ k \in Int
      BY <1>1 DEF FirstJobRequest, JobTable, QueuedJobsWait, TypeOK, JobState, Niceness, JobId
    <2>2. /\ \/ jobs[j].nice < jobs[k].nice
             \/ <<GroupOf(j), GroupOf(k)>> \in ahead
             \/ GroupOf(j) = GroupOf(k) /\ j < k
          /\ \/ jobs[k].nice < jobs[j].nice
             \/ <<GroupOf(k), GroupOf(j)>> \in ahead
             \/ GroupOf(k) = GroupOf(j) /\ k < j
      BY <1>1 DEF FirstJobRequest
    <2>3. \A g, h : <<g, h>> \in ahead => g # h /\ g[2] = h[2] /\ <<h, g>> \notin ahead
      BY <1>1 DEF QueueInv, QueueIsOrdered
    <2>4. GroupOf(j)[2] = jobs[j].nice /\ GroupOf(k)[2] = jobs[k].nice
      BY DEF GroupOf
    <2> QED BY <2>1, <2>2, <2>3, <2>4
  <1>2. TypeOK /\ JobTable /\ QueueInv
           => \A j, k \in JobId : FirstJobRequest(j) /\ FirstJobRequest(k) => j = k
    BY <1>1
  <1> QED BY <1>2, TableInductive, QueueInductive, PTL DEF Spec

-----------------------------------------------------------------------------
(* The life of a job *)

\* What one step may do to the jobs; only empty_queue gives a job a server.
LEMMA JobStep ==
    ASSUME TypeOK, JobTable, QueueInv, [Next]_vars
    PROVE  /\ \A j \in DOMAIN jobs' \ DOMAIN jobs : j > new_job_id /\ jobs'[j].server = Null
           /\ \A j \in DOMAIN jobs' \cap DOMAIN jobs :
                 /\ jobs'[j].submitter = jobs[j].submitter
                 /\ jobs[j].server # Null => jobs'[j].server = jobs[j].server
                 /\ jobs[j].state = "COMPILING" => jobs'[j].state = "COMPILING"
                 /\ jobs[j].state = "WAITINGFORCS" => jobs'[j].envs = jobs[j].envs
                 /\ jobs[j].server = Null => \/ jobs'[j].server = Null
                                             \/ \E c \in Conn : Dispatch(j, c) /\ jobs'[j].server = c
  <1> DEFINE New == \A j \in DOMAIN jobs' \ DOMAIN jobs : j > new_job_id /\ jobs'[j].server = Null
             Kept(j) == /\ jobs'[j].submitter = jobs[j].submitter
                        /\ jobs[j].server # Null => jobs'[j].server = jobs[j].server
                        /\ jobs[j].state = "COMPILING" => jobs'[j].state = "COMPILING"
                        /\ jobs[j].state = "WAITINGFORCS" => jobs'[j].envs = jobs[j].envs
                        /\ jobs[j].server = Null =>
                              \/ jobs'[j].server = Null
                              \/ \E c \in Conn : Dispatch(j, c) /\ jobs'[j].server = c
             Old == \A j \in DOMAIN jobs' \cap DOMAIN jobs : Kept(j)
  <1>0. /\ \A j \in DOMAIN jobs : jobs[j] \in JobState /\ j \in JobId
        /\ queued \subseteq DOMAIN jobs
        /\ \A j \in DOMAIN jobs : jobs[j].state \in {"PENDING", "DELETED"} <=> jobs[j].server = Null
        /\ \A j \in queued : jobs[j].state \in {"PENDING", "DELETED"}
    BY DEF TypeOK, JobTable, QueuedJobsWait
  <1>1. ASSUME DOMAIN jobs' \subseteq DOMAIN jobs, \A j \in DOMAIN jobs' : jobs'[j] = jobs[j]
        PROVE  New /\ Old
    BY <1>1
  <1>2. CASE UNCHANGED jobs
    BY <1>1, <1>2
  <1>3. CASE \E S \in SUBSET Conn : SubmittersEnd(S)
    BY <1>1, <1>3 DEF SubmittersEnd
  <1>4. ASSUME NEW j \in JobId, NEW use_cs \in Conn, Dispatch(j, use_cs) PROVE New /\ Old
    <2>1. New
      BY <1>4, DispatchKeeps
    <2>2. ASSUME NEW k \in DOMAIN jobs PROVE Kept(k)
      <3>1. CASE k = j
        <4>1. j \in queued /\ jobs[j].state = "PENDING" /\ jobs[j].server = Null
          BY <1>0, <1>4, DispatchKeeps DEF Dispatch
        <4>2. jobs'[j].server = use_cs /\ jobs'[j].submitter = jobs[j].submitter
          BY <1>0, <1>4, <4>1, DispatchKeeps
        <4>3. \E c \in Conn : Dispatch(j, c) /\ jobs'[j].server = c
          BY <1>4, <4>2
        <4> QED BY <3>1, <4>1, <4>2, <4>3
      <3>2. CASE k # j
        <4>1. /\ jobs'[k].submitter = jobs[k].submitter
              /\ jobs'[k].server = jobs[k].server /\ jobs'[k].state = jobs[k].state
              /\ k \notin jobs[j].master => jobs'[k].envs = jobs[k].envs
          BY <1>4, <3>2, DispatchKeeps
        <4>2. jobs[k].state \notin {"PENDING", "DELETED"} => k \notin jobs[j].master
          <5>1. j \in queued /\ jobs[j].state = "PENDING"
            BY <1>0, <1>4, DispatchKeeps DEF Dispatch
          <5> QED BY <1>0, <5>1 DEF QueueInv, RepeatsWait
        <4>3. jobs[k].state = "WAITINGFORCS" => jobs'[k].envs = jobs[k].envs
          BY <4>1, <4>2
        <4> QED BY <4>1, <4>3
      <3> QED BY <3>1, <3>2
    <2> HIDE DEF Kept, New
    <2> QED BY <2>1, <2>2
  <1>5. ASSUME NEW c \in Conn, NEW client \in ClientId, NEW r \in Request,
               handle_cs_request(c, client, r)
        PROVE  New /\ Old
    <2> DEFINE ids == (new_job_id + 1)..(new_job_id + r.count)
    <2>1. new_job_id \in Nat /\ r.count \in Nat
      BY RequestAssumption DEF TypeOK
    <2>2. /\ DOMAIN jobs' = DOMAIN jobs \cup ids
          /\ \A j \in ids : jobs'[j].server = Null
          /\ \A j \in DOMAIN jobs \ ids : jobs'[j] = jobs[j]
      BY <1>5 DEF handle_cs_request
    <2>3. DOMAIN jobs \cap ids = {} /\ \A j \in ids : j > new_job_id
      BY <2>1 DEF JobTable
    <2> HIDE DEF ids
    <2> QED BY <2>2, <2>3
  <1>6. ASSUME NEW c \in Conn, NEW j \in JobId, handle_job_begin(c, j) PROVE New /\ Old
    <2>1. /\ j \in DOMAIN jobs /\ jobs[j].server = c
          /\ jobs' = [jobs EXCEPT ![j] = [jobs[j] EXCEPT !.state = "COMPILING"]]
      BY <1>6 DEF handle_job_begin
    <2>2. /\ DOMAIN jobs' = DOMAIN jobs
          /\ \A k \in DOMAIN jobs : /\ jobs'[k].submitter = jobs[k].submitter
                                    /\ jobs'[k].server = jobs[k].server
                                    /\ jobs'[k].envs = jobs[k].envs
                                    /\ jobs'[k].state \in {jobs[k].state, "COMPILING"}
      BY <1>0, <2>1 DEF JobState
    <2> QED BY <2>2
  <1>7. ASSUME NEW j \in JobId, OwnJobEnds(j) PROVE New /\ Old
    <2>1. CASE j \notin queued
      <3>1. DOMAIN jobs' \subseteq DOMAIN jobs /\ \A k \in DOMAIN jobs' : jobs'[k] = jobs[k]
        BY <1>7, <2>1 DEF OwnJobEnds
      <3> QED BY <1>1, <3>1
    <2>2. CASE j \in queued
      <3>1. jobs' = [jobs EXCEPT ![j] = [jobs[j] EXCEPT !.state = "DELETED"]]
        BY <1>7, <2>2 DEF OwnJobEnds
      <3>2. /\ DOMAIN jobs' = DOMAIN jobs
            /\ \A k \in DOMAIN jobs : /\ jobs'[k].submitter = jobs[k].submitter
                                      /\ jobs'[k].server = jobs[k].server
                                      /\ jobs'[k].envs = jobs[k].envs
                                      /\ k # j => jobs'[k].state = jobs[k].state
        BY <1>0, <3>1 DEF JobState
      <3>3. jobs[j].state # "COMPILING"
        BY <1>0, <2>2
      <3> QED BY <3>2, <3>3
    <2> QED BY <2>1, <2>2
  <1>8. CASE \E c \in Conn, client \in ClientId : CancelJob(c, client)
    <2>1. DOMAIN jobs' \subseteq DOMAIN jobs /\ \A j \in DOMAIN jobs' : jobs'[j] = jobs[j]
      BY <1>8 DEF CancelJob
    <2> QED BY <1>1, <2>1
  <1>9. CASE Crash
    BY <1>9 DEF Crash
  <1>10. New /\ Old
    BY <1>2, <1>3, <1>4, <1>5, <1>6, <1>7, <1>8, <1>9, QueueStep
  <1> QED BY <1>10

\* A job keeps its submitter; once a server was picked it keeps that server and
\* its environments until it ends; job ids are never given twice.
THEOREM JobsLiveOnce == Spec => JobLifecycle
  <1>1. ASSUME TypeOK, JobTable, QueueInv, [Next]_vars
        PROVE  [/\ \A j \in DOMAIN jobs' \ DOMAIN jobs : j > new_job_id
                /\ \A j \in DOMAIN jobs' \cap DOMAIN jobs :
                      /\ jobs'[j].submitter = jobs[j].submitter
                      /\ jobs[j].server # Null => jobs'[j].server = jobs[j].server
                      /\ jobs[j].state = "COMPILING" => jobs'[j].state = "COMPILING"
                      /\ jobs[j].state = "WAITINGFORCS" => jobs'[j].envs = jobs[j].envs]_vars
    BY <1>1, JobStep
  <1> QED BY <1>1, TableInductive, QueueInductive, PTL DEF Spec, JobLifecycle

-----------------------------------------------------------------------------
(***************************************************************************)
(* The scheduler's servers: who is logged in, who is on whose blacklist, and*)
(* how many jobs a server is given.                                        *)
(***************************************************************************)

-----------------------------------------------------------------------------
(* What the steps do to the servers *)

\* A new CompileServer has no local job and blacklists nobody.
LEMMA NewServerEmpty ==
    /\ NewCompileServer.one = {} /\ NewCompileServer.full = {}
    /\ \A d \in Conn : NewCompileServer.blacklist[d] = {}
  BY DEF NewCompileServer

\* The servers in S are reset, and the others are left what they were, but for
\* the entries about S in their blacklists.
ServersEnd(S, conn1, cs1) ==
    \A c \in Conn :
        /\ c \in S => /\ conn'[c] = "none" /\ cs'[c] = NewCompileServer
        /\ c \notin S => /\ conn'[c] = conn1[c]
                         /\ cs'[c].host = cs1[c].host
                         /\ cs'[c].maxJobs = cs1[c].maxJobs
                         /\ cs'[c].one = cs1[c].one
                         /\ cs'[c].full = cs1[c].full
                         /\ \A d \in Conn : cs'[c].blacklist[d] =
                               IF d \in S THEN {} ELSE cs1[c].blacklist[d]

\* handle_end does that.
LEMMA HandleEndServers ==
    ASSUME NEW STATE S, NEW STATE conn1, NEW STATE cs1, cs1 \in [Conn -> ServerState],
           NEW STATE jobs1, handle_end(S, conn1, cs1, jobs1)
    PROVE  ServersEnd(S, conn1, cs1)
  <1> SUFFICES ASSUME NEW c \in Conn
               PROVE  /\ c \in S => /\ conn'[c] = "none" /\ cs'[c] = NewCompileServer
                      /\ c \notin S => /\ conn'[c] = conn1[c]
                                       /\ cs'[c].host = cs1[c].host
                                       /\ cs'[c].maxJobs = cs1[c].maxJobs
                                       /\ cs'[c].one = cs1[c].one
                                       /\ cs'[c].full = cs1[c].full
                                       /\ \A d \in Conn : cs'[c].blacklist[d] =
                                             IF d \in S THEN {} ELSE cs1[c].blacklist[d]
    BY DEF ServersEnd
  <1>1. c \in S => conn'[c] = "none" /\ cs'[c] = NewCompileServer
    BY DEF handle_end
  <1>2. ASSUME c \notin S
        PROVE  /\ conn'[c] = conn1[c]
               /\ cs'[c].host = cs1[c].host
               /\ cs'[c].maxJobs = cs1[c].maxJobs
               /\ cs'[c].one = cs1[c].one
               /\ cs'[c].full = cs1[c].full
               /\ \A d \in Conn : cs'[c].blacklist[d] =
                     IF d \in S THEN {} ELSE cs1[c].blacklist[d]
    <2> DEFINE b == IF \E j \in JobsWith(S, jobs1) : jobs1[j].server = c THEN FALSE ELSE cs1[c].busy
               bl == eraseCSFromBlacklist(cs1[c].blacklist, S)
    <2>1. conn'[c] = conn1[c] /\ cs'[c] = [cs1[c] EXCEPT !.busy = b, !.blacklist = bl]
      BY <1>2 DEF handle_end
    <2>2. \A d \in Conn : bl[d] = IF d \in S THEN {} ELSE cs1[c].blacklist[d]
      BY DEF eraseCSFromBlacklist
    <2> HIDE DEF b, bl
    <2>3. cs1[c] \in ServerState
      OBVIOUS
    <2>4. /\ cs'[c].host = cs1[c].host /\ cs'[c].maxJobs = cs1[c].maxJobs
          /\ cs'[c].one = cs1[c].one /\ cs'[c].full = cs1[c].full
          /\ cs'[c].blacklist = bl
      BY <2>1, <2>3 DEF ServerState
    <2> QED BY <2>1, <2>2, <2>4
  <1> QED BY <1>1, <1>2

\* A daemon is still logged in as the same host, with the same limit or its
\* negative.
ServerStays(c) ==
    /\ c \in css
    /\ cs'[c].host = cs[c].host
    /\ cs'[c].maxJobs \in {cs[c].maxJobs, -cs[c].maxJobs}

\* No daemon logs in, or one does and is alone on its host.
LoginStep ==
    \/ \A c \in css' : ServerStays(c)
    \/ \E c \in Conn \ css, h \in Host :
          /\ cs'[c].host = h /\ cs'[c].maxJobs = MaxKids[h]
          /\ \A d \in css' \ {c} : ServerStays(d) /\ cs[d].host # h

\* The sets of local jobs stay finite.
FiniteLocals ==
    \A c \in Conn : IsFiniteSet(cs[c].one) /\ IsFiniteSet(cs[c].full)

\* What a step does to the servers.
ServerStep ==
    /\ LoginStep
    /\ FiniteLocals => FiniteLocals'
    /\ NoStaleBlacklist => NoStaleBlacklist'

\* Removing servers, after pings perhaps.
LEMMA EndedServersStay ==
    ASSUME TypeOK, NEW STATE S, NEW STATE cs1, cs1 \in [Conn -> ServerState],
           NEW STATE jobs1, handle_end(S, conn, cs1, jobs1),
           \A c \in Conn : /\ cs1[c].host = cs[c].host
                           /\ cs1[c].maxJobs \in {cs[c].maxJobs, -cs[c].maxJobs}
                           /\ cs1[c].one = cs[c].one /\ cs1[c].full = cs[c].full
                           /\ cs1[c].blacklist = cs[c].blacklist
    PROVE  ServerStep
  <1>0. ServersEnd(S, conn, cs1)
    BY HandleEndServers
  <1>1. \A c \in Conn :
              /\ c \in S => /\ conn'[c] = "none" /\ cs'[c] = NewCompileServer
              /\ c \notin S => /\ conn'[c] = conn[c]
                               /\ cs'[c].host = cs1[c].host
                               /\ cs'[c].maxJobs = cs1[c].maxJobs
                               /\ cs'[c].one = cs1[c].one
                               /\ cs'[c].full = cs1[c].full
                               /\ \A d \in Conn : cs'[c].blacklist[d] =
                                     IF d \in S THEN {} ELSE cs1[c].blacklist[d]
    BY <1>0 DEF ServersEnd
  <1>2. \A c \in css' : c \in Conn /\ c \in css /\ c \notin S
    BY <1>1 DEF css
  <1>3. \A c \in css' : ServerStays(c)
    BY <1>1, <1>2 DEF ServerStays
  <1>4. \A c, d \in Conn : cs'[c].blacklist[d] # {} =>
           c \notin S /\ d \notin S /\ cs[c].blacklist[d] # {}
    <2> SUFFICES ASSUME NEW c \in Conn, NEW d \in Conn, cs'[c].blacklist[d] # {}
                 PROVE  c \notin S /\ d \notin S /\ cs[c].blacklist[d] # {}
      OBVIOUS
    <2>1. c \notin S
      BY <1>1, NewServerEmpty
    <2>2. cs'[c].blacklist[d] = IF d \in S THEN {} ELSE cs1[c].blacklist[d]
      BY <1>1, <2>1
    <2>3. cs1[c].blacklist = cs[c].blacklist
      OBVIOUS
    <2> QED BY <2>1, <2>2, <2>3
  <1>5. \A c \in css \ S : c \in css'
    BY <1>1 DEF css
  <1>6. NoStaleBlacklist => NoStaleBlacklist'
    BY <1>4, <1>5 DEF NoStaleBlacklist
  <1>7. FiniteLocals => FiniteLocals'
    BY <1>1, NewServerEmpty, FS_EmptySet DEF FiniteLocals
  <1> QED BY <1>3, <1>6, <1>7 DEF ServerStep, LoginStep

\* A login of c as h: older connections of h are removed.
LEMMA LoginServers ==
    ASSUME TypeOK, NEW c \in Conn, NEW h \in Host, NEW envs \in SUBSET Env,
           handle_login(c, h, envs)
    PROVE  ServerStep
  <1> DEFINE S == StaleServers(h)
             conn1 == [conn EXCEPT ![c] = "DAEMON"]
             s == [cs[c] EXCEPT !.host = h, !.maxJobs = MaxKids[h], !.envs = envs]
             cs1 == [cs EXCEPT ![c] = s]
  <1>0. /\ cs \in [Conn -> ServerState]
        /\ conn \in [Conn -> {"none", "CONNECTED", "DAEMON"}]
    BY DEF TypeOK
  <1>1. CASE handle_end({c}, conn, cs, jobs)
    <2>1. \A d \in Conn : cs[d].maxJobs \in {cs[d].maxJobs, -cs[d].maxJobs}
      OBVIOUS
    <2> QED BY <1>0, <1>1, <2>1, EndedServersStay
  <1>2. CASE handle_end(S, conn1, cs1, jobs)
    <2>0. c \notin css /\ c \notin S
      BY DEF handle_login, css, StaleServers
    <2>1. MaxKids[h] \in Int
      BY HostAssumption
    <2>2. s \in ServerState
      BY <1>0, <2>1, ServerUpdateTypes
    <2>3. /\ s.host = h /\ s.maxJobs = MaxKids[h] /\ s.one = cs[c].one /\ s.full = cs[c].full
          /\ s.blacklist = cs[c].blacklist
      BY <1>0 DEF ServerState
    <2>4. \A d \in Conn : conn1[d] = IF d = c THEN "DAEMON" ELSE conn[d]
      BY <1>0
    <2> HIDE DEF s
    <2>5. cs1 \in [Conn -> ServerState] /\ \A d \in Conn : cs1[d] = IF d = c THEN s ELSE cs[d]
      BY <1>0, <2>2
    <2> HIDE DEF conn1, cs1, S
    <2>a. ServersEnd(S, conn1, cs1)
      BY <1>2, <2>5, HandleEndServers
    <2>6. \A d \in Conn :
              /\ d \in S => /\ conn'[d] = "none" /\ cs'[d] = NewCompileServer
              /\ d \notin S => /\ conn'[d] = conn1[d]
                               /\ cs'[d].host = cs1[d].host
                               /\ cs'[d].maxJobs = cs1[d].maxJobs
                               /\ cs'[d].one = cs1[d].one
                               /\ cs'[d].full = cs1[d].full
                               /\ \A e \in Conn : cs'[d].blacklist[e] =
                                     IF e \in S THEN {} ELSE cs1[d].blacklist[e]
      BY <2>a DEF ServersEnd
    <2>7. \A d \in css' \ {c} : d \in Conn /\ d \in css /\ d \notin S
      BY <2>4, <2>6 DEF css
    <2>8. \A d \in css' \ {c} : ServerStays(d) /\ cs[d].host # h
      BY <2>5, <2>6, <2>7 DEF ServerStays, S, StaleServers
    <2>9. LoginStep
      BY <2>0, <2>3, <2>5, <2>6, <2>8 DEF LoginStep
    <2>10. \A d, e \in Conn : cs'[d].blacklist[e] # {} =>
              d \notin S /\ e \notin S /\ cs[d].blacklist[e] # {}
      <3> SUFFICES ASSUME NEW d \in Conn, NEW e \in Conn, cs'[d].blacklist[e] # {}
                   PROVE  d \notin S /\ e \notin S /\ cs[d].blacklist[e] # {}
        OBVIOUS
      <3>1. d \notin S
        BY <2>6, NewServerEmpty
      <3>2. cs'[d].blacklist[e] = IF e \in S THEN {} ELSE cs1[d].blacklist[e]
        BY <2>6, <3>1
      <3>3. cs1[d].blacklist = cs[d].blacklist
        BY <2>3, <2>5
      <3> QED BY <3>1, <3>2, <3>3
    <2>11. \A d \in css \ S : d \in css'
      BY <2>4, <2>6 DEF css
    <2>12. NoStaleBlacklist => NoStaleBlacklist'
      BY <2>10, <2>11 DEF NoStaleBlacklist
    <2>13. ASSUME FiniteLocals PROVE FiniteLocals'
      <3> SUFFICES ASSUME NEW d \in Conn
                   PROVE  IsFiniteSet(cs'[d].one) /\ IsFiniteSet(cs'[d].full)
        BY DEF FiniteLocals
      <3>1. CASE d \in S
        <4>1. cs'[d].one = {} /\ cs'[d].full = {}
          BY <2>6, <3>1, NewServerEmpty
        <4> QED BY <4>1, FS_EmptySet
      <3>2. CASE d \notin S
        <4>1. cs'[d].one = cs[d].one /\ cs'[d].full = cs[d].full
          BY <2>3, <2>5, <2>6, <3>2
        <4> QED BY <2>13, <4>1 DEF FiniteLocals
      <3> QED BY <3>1, <3>2
    <2> QED BY <2>9, <2>12, <2>13 DEF ServerStep
  <1> QED BY <1>1, <1>2 DEF handle_login

\* A value that server c may take without a login.
Harmless(c, s) ==
    /\ s.host = cs[c].host
    /\ s.maxJobs \in {cs[c].maxJobs, -cs[c].maxJobs}
    /\ IsFiniteSet(cs[c].one) => IsFiniteSet(s.one)
    /\ IsFiniteSet(cs[c].full) => IsFiniteSet(s.full)
    /\ \A d \in Conn : s.blacklist[d] # {} => cs[c].blacklist[d] # {} \/ d \in css

\* A step that writes one CompileServer and loses nobody.
LEMMA OneServerStays ==
    ASSUME TypeOK, NEW c \in css, NEW STATE s, Harmless(c, s),
           cs' = [cs EXCEPT ![c] = s], UNCHANGED conn
    PROVE  ServerStep
  <1>1. css' = css /\ c \in Conn
    BY DEF css
  <1>2. \A d \in Conn : cs'[d] = IF d = c THEN s ELSE cs[d]
    BY <1>1 DEF TypeOK
  <1>3. \A d \in css' : ServerStays(d)
    BY <1>1, <1>2, CssType DEF ServerStays, Harmless
  <1>4. ASSUME NoStaleBlacklist PROVE NoStaleBlacklist'
    <2> SUFFICES ASSUME NEW d \in Conn, NEW e \in Conn, cs'[d].blacklist[e] # {}
                 PROVE  d \in css /\ e \in css
      BY <1>1 DEF NoStaleBlacklist
    <2>1. CASE d = c
      BY <1>2, <1>4, <2>1 DEF NoStaleBlacklist, Harmless
    <2>2. CASE d # c
      BY <1>2, <1>4, <2>2 DEF NoStaleBlacklist
    <2> QED BY <2>1, <2>2
  <1>5. ASSUME FiniteLocals PROVE FiniteLocals'
    <2> SUFFICES ASSUME NEW d \in Conn
                 PROVE  IsFiniteSet(cs'[d].one) /\ IsFiniteSet(cs'[d].full)
      BY DEF FiniteLocals
    <2>1. IsFiniteSet(cs[d].one) /\ IsFiniteSet(cs[d].full)
      BY <1>5 DEF FiniteLocals
    <2>2. CASE d = c
      BY <1>2, <2>1, <2>2 DEF Harmless
    <2>3. CASE d # c
      BY <1>2, <2>1, <2>3
    <2> QED BY <2>2, <2>3
  <1> QED BY <1>3, <1>4, <1>5 DEF ServerStep, LoginStep

\* What the updates of one CompileServer leave alone.
LEMMA ServerUpdateFields ==
    \A s \in ServerState :
        /\ \A envs : [s EXCEPT !.envs = envs, !.busy = FALSE].host = s.host
                     /\ [s EXCEPT !.envs = envs, !.busy = FALSE].maxJobs = s.maxJobs
                     /\ [s EXCEPT !.envs = envs, !.busy = FALSE].one = s.one
                     /\ [s EXCEPT !.envs = envs, !.busy = FALSE].full = s.full
                     /\ [s EXCEPT !.envs = envs, !.busy = FALSE].blacklist = s.blacklist
        /\ \A b : [s EXCEPT !.busy = b].host = s.host
                  /\ [s EXCEPT !.busy = b].maxJobs = s.maxJobs
                  /\ [s EXCEPT !.busy = b].one = s.one
                  /\ [s EXCEPT !.busy = b].full = s.full
                  /\ [s EXCEPT !.busy = b].blacklist = s.blacklist
        /\ \A b : [s EXCEPT !.accepting = b].host = s.host
                  /\ [s EXCEPT !.accepting = b].maxJobs = s.maxJobs
                  /\ [s EXCEPT !.accepting = b].one = s.one
                  /\ [s EXCEPT !.accepting = b].full = s.full
                  /\ [s EXCEPT !.accepting = b].blacklist = s.blacklist
        /\ \A n : [s EXCEPT !.maxJobs = n].host = s.host
                  /\ [s EXCEPT !.maxJobs = n].maxJobs = n
                  /\ [s EXCEPT !.maxJobs = n].one = s.one
                  /\ [s EXCEPT !.maxJobs = n].full = s.full
                  /\ [s EXCEPT !.maxJobs = n].blacklist = s.blacklist
        /\ \A b, n : [s EXCEPT !.overloaded = b, !.maxJobs = n].host = s.host
                     /\ [s EXCEPT !.overloaded = b, !.maxJobs = n].maxJobs = n
                     /\ [s EXCEPT !.overloaded = b, !.maxJobs = n].one = s.one
                     /\ [s EXCEPT !.overloaded = b, !.maxJobs = n].full = s.full
                     /\ [s EXCEPT !.overloaded = b, !.maxJobs = n].blacklist = s.blacklist
        /\ \A one, full : [s EXCEPT !.one = one, !.full = full].host = s.host
                          /\ [s EXCEPT !.one = one, !.full = full].maxJobs = s.maxJobs
                          /\ [s EXCEPT !.one = one, !.full = full].one = one
                          /\ [s EXCEPT !.one = one, !.full = full].full = full
                          /\ [s EXCEPT !.one = one, !.full = full].blacklist = s.blacklist
        /\ \A bl : [s EXCEPT !.blacklist = bl].host = s.host
                   /\ [s EXCEPT !.blacklist = bl].maxJobs = s.maxJobs
                   /\ [s EXCEPT !.blacklist = bl].one = s.one
                   /\ [s EXCEPT !.blacklist = bl].full = s.full
                   /\ [s EXCEPT !.blacklist = bl].blacklist = bl
  BY DEF ServerState

\* The messages of a daemon, and dispatching a job, leave every server logged in
\* as the host it was.
LEMMA MessageServers ==
    ASSUME TypeOK, NEW c \in css,
           \/ \E envs \in SUBSET Env : handle_relogin(c, envs)
           \/ \E b \in BOOLEAN : updateInConnectivity(c, b)
           \/ \E id \in LocalId, b \in BOOLEAN : handle_local_job(c, id, b)
           \/ \E id \in LocalId : handle_local_job_done(c, id)
           \/ handle_ping(c)
           \/ \E b \in BOOLEAN : handle_stats(c, b)
           \/ \E h \in Host, e \in Env : handle_blacklist_host_env(c, h, e)
           \/ \E j \in JobId : Dispatch(j, c)
    PROVE  ServerStep
  <1>0. c \in Conn /\ cs[c] \in ServerState
    BY CssType DEF TypeOK
  <1>a. /\ cs[c].maxJobs \in Int /\ cs[c].busy \in BOOLEAN
        /\ cs[c].one \in SUBSET LocalId /\ cs[c].full \in SUBSET LocalId
        /\ cs[c].blacklist \in [Conn -> SUBSET Env]
    BY <1>0, ServerFields
  <1>b. ASSUME NEW n \in Int
        PROVE  Answered(n) \in Int /\ Answered(n) \in {n, -n}
    BY DEF Answered
  <1>1. ASSUME NEW envs \in SUBSET Env, handle_relogin(c, envs) PROVE ServerStep
    <2> DEFINE s == [cs[c] EXCEPT !.envs = envs, !.busy = FALSE]
    <2>1. /\ s.host = cs[c].host /\ s.maxJobs = cs[c].maxJobs /\ s.one = cs[c].one
          /\ s.full = cs[c].full /\ s.blacklist = cs[c].blacklist
      BY <1>0, ServerUpdateFields
    <2>2. cs' = [cs EXCEPT ![c] = s] /\ UNCHANGED conn
      BY <1>1 DEF handle_relogin
    <2> HIDE DEF s
    <2>3. Harmless(c, s)
      BY <2>1 DEF Harmless
    <2> QED BY <2>2, <2>3, OneServerStays
  <1>2. ASSUME NEW b \in BOOLEAN, updateInConnectivity(c, b) PROVE ServerStep
    <2> DEFINE s == [cs[c] EXCEPT !.accepting = b]
    <2>1. /\ s.host = cs[c].host /\ s.maxJobs = cs[c].maxJobs /\ s.one = cs[c].one
          /\ s.full = cs[c].full /\ s.blacklist = cs[c].blacklist
      BY <1>0, ServerUpdateFields
    <2>2. cs' = [cs EXCEPT ![c] = s] /\ UNCHANGED conn
      BY <1>2 DEF updateInConnectivity
    <2> HIDE DEF s
    <2>3. Harmless(c, s)
      BY <2>1 DEF Harmless
    <2> QED BY <2>2, <2>3, OneServerStays
  <1>3. ASSUME NEW one \in SUBSET LocalId, NEW full \in SUBSET LocalId,
               IsFiniteSet(cs[c].one) => IsFiniteSet(one),
               IsFiniteSet(cs[c].full) => IsFiniteSet(full),
               cs' = [cs EXCEPT ![c] = [cs[c] EXCEPT !.one = one, !.full = full]],
               UNCHANGED conn
        PROVE  ServerStep
    <2> DEFINE s == [cs[c] EXCEPT !.one = one, !.full = full]
    <2>1. /\ s.host = cs[c].host /\ s.maxJobs = cs[c].maxJobs /\ s.one = one
          /\ s.full = full /\ s.blacklist = cs[c].blacklist
      BY <1>0, ServerUpdateFields
    <2>2. cs' = [cs EXCEPT ![c] = s] /\ UNCHANGED conn
      BY <1>3
    <2> HIDE DEF s
    <2>3. Harmless(c, s)
      BY <1>3, <2>1 DEF Harmless
    <2> QED BY <2>2, <2>3, OneServerStays
  <1>c. \A S, x : IsFiniteSet(S) => IsFiniteSet(S \ {x}) /\ IsFiniteSet(S \cup {x})
    BY FS_AddElement, FS_RemoveElement
  <1>4. ASSUME NEW id \in LocalId, NEW b \in BOOLEAN, handle_local_job(c, id, b) PROVE ServerStep
    <2> DEFINE one == IF b THEN cs[c].one \ {id} ELSE cs[c].one \cup {id}
               full == IF b THEN cs[c].full \cup {id} ELSE cs[c].full \ {id}
    <2>1. one \in SUBSET LocalId /\ full \in SUBSET LocalId
      BY <1>a
    <2>2. /\ IsFiniteSet(cs[c].one) => IsFiniteSet(one)
          /\ IsFiniteSet(cs[c].full) => IsFiniteSet(full)
      BY <1>c
    <2>3. cs' = [cs EXCEPT ![c] = [cs[c] EXCEPT !.one = one, !.full = full]] /\ UNCHANGED conn
      BY <1>4 DEF handle_local_job
    <2> HIDE DEF one, full
    <2> QED BY <1>3, <2>1, <2>2, <2>3
  <1>5. ASSUME NEW id \in LocalId, handle_local_job_done(c, id) PROVE ServerStep
    <2> DEFINE one == cs[c].one \ {id}
               full == cs[c].full \ {id}
    <2>1. one \in SUBSET LocalId /\ full \in SUBSET LocalId
      BY <1>a
    <2>2. /\ IsFiniteSet(cs[c].one) => IsFiniteSet(one)
          /\ IsFiniteSet(cs[c].full) => IsFiniteSet(full)
      BY <1>c
    <2>3. cs' = [cs EXCEPT ![c] = [cs[c] EXCEPT !.one = one, !.full = full]] /\ UNCHANGED conn
      BY <1>5 DEF handle_local_job_done
    <2> HIDE DEF one, full
    <2> QED BY <1>3, <2>1, <2>2, <2>3
  <1>6. CASE handle_ping(c)
    <2> DEFINE n == Answered(cs[c].maxJobs)
               s == [cs[c] EXCEPT !.maxJobs = n]
    <2>1. n \in Int /\ n \in {cs[c].maxJobs, -cs[c].maxJobs}
      BY <1>a, <1>b
    <2>2. cs' = [cs EXCEPT ![c] = s] /\ UNCHANGED conn
      BY <1>6 DEF handle_ping
    <2> HIDE DEF n
    <2>3. /\ s.host = cs[c].host /\ s.maxJobs = n /\ s.one = cs[c].one
          /\ s.full = cs[c].full /\ s.blacklist = cs[c].blacklist
      BY <1>0, ServerUpdateFields
    <2> HIDE DEF s
    <2>4. Harmless(c, s)
      BY <2>1, <2>3 DEF Harmless
    <2> QED BY <2>2, <2>4, OneServerStays
  <1>7. ASSUME NEW b \in BOOLEAN, handle_stats(c, b) PROVE ServerStep
    <2> DEFINE n == IF Proto[cs[c].host] < 25 THEN Answered(cs[c].maxJobs) ELSE cs[c].maxJobs
               s == [cs[c] EXCEPT !.overloaded = b, !.maxJobs = n]
    <2>1. n \in Int /\ n \in {cs[c].maxJobs, -cs[c].maxJobs}
      BY <1>a, <1>b
    <2>2. cs' = [cs EXCEPT ![c] = s] /\ UNCHANGED conn
      BY <1>7 DEF handle_stats
    <2> HIDE DEF n
    <2>3. /\ s.host = cs[c].host /\ s.maxJobs = n /\ s.one = cs[c].one
          /\ s.full = cs[c].full /\ s.blacklist = cs[c].blacklist
      BY <1>0, ServerUpdateFields
    <2> HIDE DEF s
    <2>4. Harmless(c, s)
      BY <2>1, <2>3 DEF Harmless
    <2> QED BY <2>2, <2>4, OneServerStays
  <1>8. ASSUME NEW h \in Host, NEW e \in Env, handle_blacklist_host_env(c, h, e) PROVE ServerStep
    <2> DEFINE bl == [d \in Conn |-> IF d \in css /\ cs[d].host = h
                                     THEN cs[c].blacklist[d] \cup {e}
                                     ELSE cs[c].blacklist[d]]
               s == [cs[c] EXCEPT !.blacklist = bl]
    <2>2. \A d \in Conn : bl[d] # {} => cs[c].blacklist[d] # {} \/ d \in css
      OBVIOUS
    <2>3. cs' = [cs EXCEPT ![c] = s] /\ UNCHANGED conn
      BY <1>8 DEF handle_blacklist_host_env
    <2> HIDE DEF bl
    <2>4. /\ s.host = cs[c].host /\ s.maxJobs = cs[c].maxJobs /\ s.one = cs[c].one
          /\ s.full = cs[c].full /\ s.blacklist = bl
      BY <1>0, ServerUpdateFields
    <2> HIDE DEF s
    <2>5. Harmless(c, s)
      BY <2>2, <2>4 DEF Harmless
    <2> QED BY <2>3, <2>5, OneServerStays
  <1>9. ASSUME NEW j \in JobId, Dispatch(j, c) PROVE ServerStep
    <2> DEFINE b == IF envs_match(c, j) THEN cs[c].busy ELSE TRUE
               s == [cs[c] EXCEPT !.busy = b]
    <2>1. b \in BOOLEAN
      BY <1>a
    <2>2. cs' = [cs EXCEPT ![c] = s] /\ UNCHANGED conn
      BY <1>9 DEF Dispatch
    <2> HIDE DEF b
    <2>3. /\ s.host = cs[c].host /\ s.maxJobs = cs[c].maxJobs /\ s.one = cs[c].one
          /\ s.full = cs[c].full /\ s.blacklist = cs[c].blacklist
      BY <1>0, ServerUpdateFields
    <2> HIDE DEF s
    <2>4. Harmless(c, s)
      BY <2>3 DEF Harmless
    <2> QED BY <2>2, <2>4, OneServerStays
  <1> QED BY <1>1, <1>2, <1>4, <1>5, <1>6, <1>7, <1>8, <1>9

\* The next process starts without servers.
LEMMA CrashServers == Crash => ServerStep
  <1> SUFFICES ASSUME Crash PROVE ServerStep
    OBVIOUS
  <1>1. css' = {} /\ \A c \in Conn : cs'[c] = NewCompileServer
    BY DEF Crash, css
  <1>2. FiniteLocals'
    BY <1>1, NewServerEmpty, FS_EmptySet DEF FiniteLocals
  <1>3. NoStaleBlacklist'
    BY <1>1, NewServerEmpty DEF NoStaleBlacklist
  <1> QED BY <1>1, <1>2, <1>3 DEF ServerStep, LoginStep

\* Every step leaves the servers alone, removes some, or lets one log in.
LEMMA EveryServerStep ==
    ASSUME TypeOK, JobTable, [Next]_vars
    PROVE  ServerStep
  <1>0. /\ cs \in [Conn -> ServerState]
        /\ \A c \in Conn : cs[c] \in ServerState /\ cs[c].maxJobs \in Int
    BY ServerFields DEF TypeOK
  <1>1. ASSUME NEW STATE S, NEW STATE jobs1, handle_end(S, conn, cs, jobs1)
        PROVE  ServerStep
    <2>1. \A c \in Conn : cs[c].maxJobs \in {cs[c].maxJobs, -cs[c].maxJobs}
      OBVIOUS
    <2> QED BY <1>0, <1>1, <2>1, EndedServersStay
  <1>2. ASSUME css' \subseteq css, UNCHANGED cs, css \subseteq css'
        PROVE  ServerStep
    BY <1>2 DEF ServerStep, LoginStep, ServerStays, FiniteLocals, NoStaleBlacklist
  <1>3. ASSUME NEW j \in JobId, NEW use_cs \in Conn, DispatchFails(j, use_cs)
        PROVE  ServerStep
    <2> DEFINE jobs1 == [jobs EXCEPT ![j] = [@ EXCEPT !.state = "WAITINGFORCS", !.server = use_cs]]
    <2>1. handle_end({jobs[j].submitter}, conn, cs, jobs1)
      BY <1>3 DEF DispatchFails
    <2> HIDE DEF jobs1
    <2> QED BY <1>1, <2>1
  <1>4. ASSUME NEW j \in JobId, NEW use_cs \in Conn, Dispatch(j, use_cs)
        PROVE  ServerStep
    <2>1. use_cs \in css
      BY <1>4, TargetsConnected DEF Dispatch, FirstJobRequest, JobTable, QueuedJobsWait
    <2> QED BY <1>4, <2>1, MessageServers
  <1>5. ASSUME NEW dead \in SUBSET Conn, NEW pinged \in SUBSET Conn, prune_servers(dead, pinged)
        PROVE  ServerStep
    <2> DEFINE pingedcs(c) == [cs[c] EXCEPT !.maxJobs = -cs[c].maxJobs]
               cs1 == [c \in Conn |-> IF c \in pinged THEN pingedcs(c) ELSE cs[c]]
    <2>1. handle_end(dead, conn, cs1, jobs)
      BY <1>5 DEF prune_servers
    <2>2. \A c \in Conn : -cs[c].maxJobs \in Int
      BY <1>0
    <2>3. \A c \in Conn : pingedcs(c) \in ServerState
      BY <1>0, <2>2, ServerUpdateTypes
    <2>4. \A c \in Conn : /\ pingedcs(c).host = cs[c].host
                          /\ pingedcs(c).maxJobs = -cs[c].maxJobs
                          /\ pingedcs(c).one = cs[c].one /\ pingedcs(c).full = cs[c].full
                          /\ pingedcs(c).blacklist = cs[c].blacklist
      BY <1>0, ServerUpdateFields
    <2> HIDE DEF pingedcs
    <2>5. /\ cs1 \in [Conn -> ServerState]
          /\ \A c \in Conn : /\ cs1[c].host = cs[c].host
                             /\ cs1[c].maxJobs \in {cs[c].maxJobs, -cs[c].maxJobs}
                             /\ cs1[c].one = cs[c].one /\ cs1[c].full = cs[c].full
                             /\ cs1[c].blacklist = cs[c].blacklist
      BY <1>0, <2>3, <2>4
    <2> HIDE DEF cs1
    <2> QED BY <2>1, <2>5, EndedServersStay
  <1>6. ASSUME NEW h \in Host, NEW block \in BOOLEAN, NEW sent \in BOOLEAN,
               RemoveCS(h, block, sent)
        PROVE  ServerStep
    <2> DEFINE S == {c \in css : sent /\ cs[c].host = h}
    <2>1. handle_end(S, conn, cs, jobs)
      BY <1>6 DEF RemoveCS
    <2> HIDE DEF S
    <2> QED BY <1>1, <2>1
  <1>7. CASE empty_queue
    <2>1. ASSUME NothingQueued \/ \E j \in JobId : Delay(j) PROVE ServerStep
      BY <1>2, <2>1 DEF NothingQueued, Delay, css
    <2> QED BY <1>3, <1>4, <1>7, <2>1 DEF empty_queue
  <1>8. CASE Connections
    <2>1. ASSUME NEW c \in Conn, Accept(c) PROVE ServerStep
      <3>1. UNCHANGED cs /\ css' = css
        BY <2>1 DEF Accept, css, TypeOK
      <3> QED BY <1>2, <3>1
    <2>2. ASSUME NEW c \in Conn, Disconnect(c) PROVE ServerStep
      BY <1>1, <2>2 DEF Disconnect
    <2>3. ASSUME NEW h \in Host, UnblockCS(h) PROVE ServerStep
      BY <1>2, <2>3 DEF UnblockCS, css
    <2>4. CASE handle_scheduler_announce
      BY <1>1, <2>4 DEF handle_scheduler_announce
    <2>5. ASSUME NEW c \in Conn,
                 \/ \E envs \in SUBSET Env : handle_relogin(c, envs)
                 \/ \E b \in BOOLEAN : updateInConnectivity(c, b)
          PROVE  ServerStep
      <3>1. c \in css
        BY <2>5 DEF handle_relogin, updateInConnectivity
      <3> QED BY <2>5, <3>1, MessageServers
    <2> QED BY <1>6, <1>8, <2>1, <2>2, <2>3, <2>4, <2>5, LoginServers DEF Connections
  <1>9. CASE Messages
    <2>1. ASSUME NEW c \in Conn, NEW client \in ClientId,
                 (\E r \in Request : handle_cs_request(c, client, r)) \/ CancelJob(c, client)
          PROVE  ServerStep
      BY <1>2, <2>1 DEF handle_cs_request, CancelJob, css
    <2>2. ASSUME NEW c \in Conn, NEW j \in JobId, NEW from_server \in BOOLEAN, NEW ok \in BOOLEAN,
                 handle_job_done(c, j, from_server, ok)
          PROVE  ServerStep
      <3>1. CASE WrongReporter(c, j, from_server)
        BY <1>1, <3>1 DEF WrongReporter
      <3>2. CASE EndJob(c, j, from_server)
        BY <1>2, <3>2 DEF EndJob, css
      <3> QED BY <2>2, <3>1, <3>2, CrashServers DEF handle_job_done
    <2>3. ASSUME NEW c \in Conn,
                 \/ \E id \in LocalId, b \in BOOLEAN : handle_local_job(c, id, b)
                 \/ \E id \in LocalId : handle_local_job_done(c, id)
                 \/ handle_ping(c)
                 \/ \E b \in BOOLEAN : handle_stats(c, b)
          PROVE  ServerStep
      <3>1. c \in css
        BY <2>3 DEF handle_local_job, handle_local_job_done, handle_ping, handle_stats
      <3> QED BY <2>3, <3>1, MessageServers
    <2>4. ASSUME NEW c \in Conn, NEW he \in Blacklisted,
                 handle_blacklist_host_env(c, he[1], he[2])
          PROVE  ServerStep
      <3>1. he[1] \in Host /\ he[2] \in Env
        BY EnvAssumption
      <3>2. c \in css
        BY <2>4 DEF handle_blacklist_host_env
      <3> QED BY <2>4, <3>1, <3>2, MessageServers
    <2>5. ASSUME NEW c \in Conn, NEW j \in JobId, handle_job_begin(c, j) PROVE ServerStep
      BY <1>2, <2>5 DEF handle_job_begin, css
    <2> QED BY <1>9, <2>1, <2>2, <2>3, <2>4, <2>5 DEF Messages
  <1>10. CASE Prune
    BY <1>5, <1>10 DEF Prune
  <1>11. CASE UNCHANGED vars
    BY <1>2, <1>11 DEF vars, css
  <1>12. CASE FreedMemoryUsed
    BY <1>12, CrashServers DEF FreedMemoryUsed
  <1> QED BY <1>7, <1>8, <1>9, <1>10, <1>11, <1>12 DEF Next

-----------------------------------------------------------------------------
(* Hosts, blacklists and slots *)

\* A logged-in server has a host, and the job limit of that host or, while it
\* has a ping to answer, its negative.
HostLimits ==
    \A c \in css : /\ cs[c].host \in Host
                   /\ cs[c].maxJobs \in {MaxKids[cs[c].host], -MaxKids[cs[c].host]}

ServersInv ==
    /\ HostLimits
    /\ OneServerPerHost
    /\ FiniteLocals
    /\ NoStaleBlacklist

\* With the types and the job table, these are inductive.
LEMMA ServersInductive ==
    /\ Init => ServersInv
    /\ TypeOK /\ JobTable /\ ServersInv /\ [Next]_vars => ServersInv'
  <1>1. Init => ServersInv
    <2> SUFFICES ASSUME Init PROVE ServersInv
      OBVIOUS
    <2>1. css = {} /\ \A c \in Conn : cs[c] = NewCompileServer
      BY DEF Init, css
    <2>2. FiniteLocals
      BY <2>1, NewServerEmpty, FS_EmptySet DEF FiniteLocals
    <2>3. NoStaleBlacklist
      BY <2>1, NewServerEmpty DEF NoStaleBlacklist
    <2> QED BY <2>1, <2>2, <2>3 DEF ServersInv, HostLimits, OneServerPerHost
  <1>2. ASSUME TypeOK, JobTable, ServersInv, [Next]_vars PROVE ServersInv'
    <2>1. LoginStep /\ FiniteLocals' /\ NoStaleBlacklist'
      BY <1>2, EveryServerStep DEF ServerStep, ServersInv
    <2>2. \A h \in Host : MaxKids[h] \in Int
      BY HostAssumption
    <2>3. ASSUME NEW c \in css', ServerStays(c)
          PROVE  /\ c \in css /\ cs'[c].host = cs[c].host /\ cs'[c].host \in Host
                 /\ cs'[c].maxJobs \in {MaxKids[cs'[c].host], -MaxKids[cs'[c].host]}
      <3>1. /\ c \in css /\ cs[c].host \in Host
            /\ cs[c].maxJobs \in {MaxKids[cs[c].host], -MaxKids[cs[c].host]}
        BY <1>2, <2>3 DEF ServerStays, ServersInv, HostLimits
      <3>2. MaxKids[cs[c].host] \in Int
        BY <2>2, <3>1
      <3> QED BY <2>3, <3>1, <3>2 DEF ServerStays
    <2>4. OneServerPerHost' /\ HostLimits'
      <3>1. CASE \A c \in css' : ServerStays(c)
        BY <1>2, <2>3, <3>1 DEF ServersInv, OneServerPerHost, HostLimits
      <3>2. ASSUME NEW c \in Conn \ css, NEW h \in Host,
                   cs'[c].host = h, cs'[c].maxJobs = MaxKids[h],
                   \A d \in css' \ {c} : ServerStays(d) /\ cs[d].host # h
            PROVE  OneServerPerHost' /\ HostLimits'
        <4>1. \A d \in css' \ {c} : /\ d \in css /\ cs'[d].host = cs[d].host
                                    /\ cs'[d].host \in Host /\ cs'[d].host # h
                                    /\ cs'[d].maxJobs \in {MaxKids[cs'[d].host], -MaxKids[cs'[d].host]}
          BY <2>3, <3>2
        <4>2. OneServerPerHost'
          BY <1>2, <3>2, <4>1 DEF ServersInv, OneServerPerHost
        <4>3. HostLimits'
          BY <3>2, <4>1 DEF HostLimits
        <4> QED BY <4>2, <4>3
      <3> QED BY <2>1, <3>1, <3>2 DEF LoginStep
    <2> QED BY <2>1, <2>4 DEF ServersInv
  <1> QED BY <1>1, <1>2

\* No two logged-in daemons are the same machine: handle_login removes the older
\* connection, whatever the order of logins, losses and blocks.
THEOREM OneServerPerHostAlways == Spec => []OneServerPerHost
  <1>1. ServersInv => OneServerPerHost
    BY DEF ServersInv
  <1> QED BY <1>1, TableInductive, ServersInductive, PTL DEF Spec

\* A blacklist never holds the address of a deleted CompileServer.
THEOREM BlacklistsNeverStale == Spec => []NoStaleBlacklist
  <1>1. ServersInv => NoStaleBlacklist
    BY DEF ServersInv
  <1> QED BY <1>1, TableInductive, ServersInductive, PTL DEF Spec

\* The jobs of other submitters on a server, by the job table.
LEMMA ForeignJobsTable ==
    ASSUME TypeOK, JobTable, NEW c \in Conn
    PROVE  /\ ForeignJobs(c) = {j \in DOMAIN jobs : jobs[j].server = c /\ jobs[j].submitter # c}
           /\ ForeignJobs(c) \subseteq jobList[c]
           /\ jobList[c] \subseteq JobId
  <1>1. /\ DOMAIN jobs \subseteq JobId /\ jobList[c] \subseteq JobId
        /\ \A j \in JobId : j \in jobList[c] <=> j \in DOMAIN jobs /\ jobs[j].server = c
    BY DEF TypeOK, JobTable, JobListsMatch
  <1> QED BY <1>1 DEF ForeignJobs

\* Sets of job ids are finite.
LEMMA JobIdsFinite ==
    ASSUME NEW S, S \subseteq JobId
    PROVE  IsFiniteSet(S) /\ Cardinality(S) \in Nat
  <1>1. IsFiniteSet(JobId)
    BY BoundAssumption, FS_Interval DEF JobId
  <1>2. IsFiniteSet(S)
    BY <1>1, FS_Subset
  <1> QED BY <1>2, FS_CardinalityType

\* How many jobs a server may have for others (is_eligible_now).
Allowance(c) == MaxKids[cs[c].host] + 1 + (MaxKids[cs[c].host] \div 4)

\* A server that is_eligible_now has fewer jobs than its allowance, local jobs
\* included.
LEMMA EligibleHasRoom ==
    ASSUME TypeOK, ServersInv, NEW c \in css, NEW j, is_eligible_now(c, j)
    PROVE  Cardinality(jobList[c]) + 1 <= Allowance(c)
  <1>1. c \in Conn /\ jobList[c] \subseteq JobId
    BY CssType DEF TypeOK
  <1>2. Cardinality(jobList[c]) \in Nat
    BY <1>1, JobIdsFinite
  <1>3. Cardinality(cs[c].one) \in Nat /\ Cardinality(cs[c].full) \in Nat
    BY <1>1, FS_CardinalityType DEF ServersInv, FiniteLocals
  <1>4. /\ cs[c].host \in Host /\ MaxKids[cs[c].host] \in Nat
        /\ cs[c].maxJobs \in {MaxKids[cs[c].host], -MaxKids[cs[c].host]}
        /\ cs[c].maxJobs > 0
    BY HostAssumption DEF ServersInv, HostLimits, is_eligible_now, is_eligible_ever
  <1> DEFINE n == MaxKids[cs[c].host]
             J == Cardinality(jobList[c])
             one == Cardinality(cs[c].one)
             full == Cardinality(cs[c].full)
  <1>5. cs[c].maxJobs = n /\ n \in Nat
    BY <1>4
  <1>6. J + (one + full * n) < n \/ J + (one + full * n) < n + (1 + (n \div 4))
    BY <1>5 DEF is_eligible_now, currentJobCount, currentJobCountRemote, currentJobCountLocal,
                maxPreloadCount
  <1>7. J \in Nat /\ one \in Nat /\ full \in Nat
    BY <1>2, <1>3
  <1> HIDE DEF n, J, one, full
  <1>8. full * n \in Nat /\ n \div 4 \in Nat
    BY <1>5, <1>7
  <1>9. J + 1 <= n + 1 + (n \div 4)
    <2> DEFINE p == full * n
               q == n \div 4
    <2>1. p \in Nat /\ q \in Nat /\ (J + (one + p) < n \/ J + (one + p) < n + (1 + q))
      BY <1>6, <1>8
    <2> HIDE DEF p, q
    <2>2. J + 1 <= n + 1 + q
      BY <1>5, <1>7, <2>1
    <2> QED BY <2>2 DEF q
  <1> QED BY <1>9 DEF n, J, Allowance

\* A step that gives no foreign job to c leaves its foreign jobs a subset.
LEMMA ForeignJobsShrink ==
    ASSUME TypeOK, JobTable, TypeOK', JobTable', QueueInv, [Next]_vars, NEW c \in Conn,
           \A j \in JobId : ~(Dispatch(j, c) /\ jobs[j].submitter # c)
    PROVE  ForeignJobs(c)' \subseteq ForeignJobs(c)
  <1>1. /\ DOMAIN jobs' \subseteq JobId /\ DOMAIN jobs \subseteq JobId
        /\ \A j \in JobId : j \in jobList'[c] <=> j \in DOMAIN jobs' /\ jobs'[j].server = c
        /\ jobList'[c] \subseteq JobId
    BY DEF TypeOK, JobTable, JobListsMatch
  <1>2. ForeignJobs(c)' = {j \in DOMAIN jobs' : jobs'[j].server = c /\ jobs'[j].submitter # c}
    BY <1>1 DEF ForeignJobs
  <1>3. ForeignJobs(c) = {j \in DOMAIN jobs : jobs[j].server = c /\ jobs[j].submitter # c}
    BY ForeignJobsTable
  <1>4. ASSUME NEW j \in DOMAIN jobs', jobs'[j].server = c, jobs'[j].submitter # c
        PROVE  j \in DOMAIN jobs /\ jobs[j].server = c /\ jobs[j].submitter # c
    <2>0. c # Null
      BY ConnAssumption
    <2>1. j \in DOMAIN jobs
      BY <1>4, <2>0, JobStep
    <2>2. jobs[j].submitter # c
      BY <1>4, <2>1, JobStep
    <2>3. jobs[j].server = Null => \E d \in Conn : Dispatch(j, d) /\ jobs'[j].server = d
      BY <1>4, <2>0, <2>1, JobStep
    <2>4. jobs[j].server # Null
      BY <1>1, <1>4, <2>2, <2>3
    <2>5. jobs[j].server = c
      BY <1>4, <2>1, <2>4, JobStep
    <2> QED BY <2>1, <2>2, <2>5
  <1> QED BY <1>2, <1>3, <1>4

\* A foreign job goes only to a server that is_eligible_now; the shortcuts of
\* empty_queue end at the submitter itself.
LEMMA ForeignTargetEligible ==
    ASSUME NEW j, NEW c, c \in Targets(j), c # jobs[j].submitter
    PROVE  is_eligible_now(c, j)
  BY DEF Targets, pick_server, filter_ineligible_servers

\* With everything above, the bound on foreign jobs is inductive.
LEMMA OvercommitInductive ==
    /\ Init => NoOvercommit
    /\ TypeOK /\ JobTable /\ QueueInv /\ ServersInv /\ NoOvercommit /\ [Next]_vars => NoOvercommit'
  <1>1. Init => NoOvercommit
    BY DEF Init, NoOvercommit, css
  <1>2. ASSUME TypeOK, JobTable, QueueInv, ServersInv, NoOvercommit, [Next]_vars,
               NEW c \in css'
        PROVE  Cardinality(ForeignJobs(c)') <= Allowance(c)'
    <2>0. TypeOK' /\ JobTable' /\ ServersInv' /\ LoginStep
      BY <1>2, TableInductive, ServersInductive, EveryServerStep DEF ServerStep
    <2>1. c \in Conn
      BY <1>2 DEF css
    <2>2. /\ ForeignJobs(c) \subseteq jobList[c] /\ jobList[c] \subseteq JobId
          /\ ForeignJobs(c) \subseteq JobId
      BY <1>2, <2>1, ForeignJobsTable
    <2>3. CASE c \in css
      <3>1. cs'[c].host = cs[c].host
        BY <2>0, <2>3 DEF LoginStep, ServerStays
      <3>2. Allowance(c)' = Allowance(c) /\ Allowance(c) \in Int
        <4>1. cs[c].host \in Host /\ MaxKids[cs[c].host] \in Nat
          BY <1>2, <2>3, HostAssumption DEF ServersInv, HostLimits
        <4> QED BY <3>1, <4>1 DEF Allowance
      <3>3. CASE \A j \in JobId : ~(Dispatch(j, c) /\ jobs[j].submitter # c)
        <4>1. ForeignJobs(c)' \subseteq ForeignJobs(c)
          BY <1>2, <2>0, <2>1, <3>3, ForeignJobsShrink
        <4>2. /\ Cardinality(ForeignJobs(c)') <= Cardinality(ForeignJobs(c))
              /\ Cardinality(ForeignJobs(c)') \in Nat /\ Cardinality(ForeignJobs(c)) \in Nat
          BY <2>2, <4>1, JobIdsFinite, FS_Subset
        <4>3. Cardinality(ForeignJobs(c)) <= Allowance(c)
          BY <1>2, <2>3 DEF NoOvercommit, Allowance
        <4> QED BY <3>2, <4>2, <4>3
      <3>4. ASSUME NEW j \in JobId, Dispatch(j, c), jobs[j].submitter # c
            PROVE  Cardinality(ForeignJobs(c)') <= Allowance(c)'
        <4>1. is_eligible_now(c, j)
          BY <3>4, ForeignTargetEligible DEF Dispatch
        <4>2. Cardinality(jobList[c]) + 1 <= Allowance(c)
          BY <1>2, <2>3, <4>1, EligibleHasRoom
        <4>3. jobList'[c] = jobList[c] \cup {j}
          BY <1>2, <2>1, <3>4 DEF Dispatch, TypeOK
        <4>4. ForeignJobs(c)' \subseteq jobList[c] \cup {j}
          BY <4>3 DEF ForeignJobs
        <4>5. IsFiniteSet(jobList[c]) /\ Cardinality(jobList[c]) \in Nat
          BY <2>2, JobIdsFinite
        <4>6. /\ IsFiniteSet(jobList[c] \cup {j})
              /\ \/ Cardinality(jobList[c] \cup {j}) = Cardinality(jobList[c])
                 \/ Cardinality(jobList[c] \cup {j}) = Cardinality(jobList[c]) + 1
          BY <4>5, FS_AddElement
        <4>7. /\ Cardinality(ForeignJobs(c)') <= Cardinality(jobList[c] \cup {j})
              /\ Cardinality(ForeignJobs(c)') \in Nat
          BY <4>4, <4>6, FS_Subset, FS_CardinalityType
        <4> QED BY <3>2, <4>2, <4>5, <4>6, <4>7
      <3> QED BY <3>3, <3>4
    <2>4. CASE c \notin css
      <3>1. ForeignJobs(c) = {}
        <4>1. \A j \in DOMAIN jobs : jobs[j].server # c
          BY <1>2, <2>1, <2>4, ConnAssumption DEF JobTable, NoDanglingServer
        <4> QED BY <1>2, <2>1, <4>1, ForeignJobsTable
      <3>2. \A j \in JobId : ~Dispatch(j, c)
        BY <1>2, <2>4, TargetsConnected DEF Dispatch, FirstJobRequest, JobTable, QueuedJobsWait
      <3>3. ForeignJobs(c)' = {}
        BY <1>2, <2>0, <2>1, <3>1, <3>2, ForeignJobsShrink
      <3>4. cs'[c].host \in Host /\ MaxKids[cs'[c].host] \in Nat
        BY <1>2, <2>0, HostAssumption DEF ServersInv, HostLimits
      <3>5. Cardinality(ForeignJobs(c)') = 0
        BY <3>3, FS_EmptySet
      <3> QED BY <3>4, <3>5 DEF Allowance
    <2> QED BY <2>3, <2>4
  <1>3. ASSUME TypeOK, JobTable, QueueInv, ServersInv, NoOvercommit, [Next]_vars
        PROVE  NoOvercommit'
    BY <1>2, <1>3 DEF NoOvercommit, Allowance
  <1> QED BY <1>1, <1>3

\* However pings, local jobs, logins and job ends interleave, a server never has
\* more jobs of other submitters than its slots and the preload allowance.
THEOREM NeverOvercommitted == Spec => []NoOvercommit
  BY TableInductive, QueueInductive, ServersInductive, OvercommitInductive, PTL DEF Spec
=============================================================================
