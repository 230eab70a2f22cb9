----------------------------- MODULE Selection -----------------------------
(***************************************************************************)
(* Which of the eligible servers gets a job: the algorithms of pick_server *)
(* (scheduler.cpp, scheduling_algo.cpp) over a long run of jobs.  Module   *)
(* Scheduler leaves the choice open; here the servers are few and always   *)
(* connected, and what matters is how often each gets its turn.            *)
(*                                                                         *)
(* Job ids grow without bound, so lastPickedId is kept as its distance     *)
(* from the newest id (since), which stops to grow at Far.  Jobs need not  *)
(* be dispatched in the order of their ids: niceness, preferred hosts and  *)
(* the turns of the submitters let up to Overtaken newer ones pass.        *)
(***************************************************************************)
EXTENDS Integers, Sequences, SequencesExt

CONSTANTS
    css,                    \* the servers, in the order of the list css
    maxJobs,                \* their slots
    Algorithms,             \* scheduler algorithms to choose from
    STATS_UPDATE_WEIGHT,    \* scheduler.h: 120
    submission_weight,      \* --least-busy-count-submissions
    Overtaken,              \* bound: how many newer jobs may be dispatched before a job
    Far,                    \* bound on since
    Speeds,                 \* values server_speed may return
    MaxOwn                  \* bound: local jobs and jobs asked for, of all servers at a time

Servers == Range(css)
Never == Far + 1            \* lastPickedId() is 0

ASSUME ServerAssumption == IsInjective(css) /\ \A cs \in Servers : maxJobs[cs] \in Nat \ {0}
ASSUME WeightAssumption == STATS_UPDATE_WEIGHT \in 0 .. 255
ASSUME OptionAssumption == submission_weight \in Nat
ASSUME BoundAssumption == MaxOwn \in Nat /\ Overtaken \in Nat /\ Far > 2 * Overtaken + Len(css)

VARIABLES
    algorithm,      \* -a of the scheduler
    jobList,        \* how many jobs of others a server has
    local,          \* how many jobs it runs for itself, which are full jobs or not
    submitted,      \* how many jobs it has asked for, which others may run
    since,          \* newest job id - lastPickedId
    compiled,       \* servers whose lastCompiledJobs is not empty
    hasEnv,         \* servers that have the environment of the jobs
    picked          \* the server that got the last job

vars == <<algorithm, jobList, local, submitted, since, compiled, hasEnv, picked>>

maxPreloadCount(cs) == 1 + (maxJobs[cs] \div 4)

\* A full job counts as many as there are slots.
currentJobCountLocal(cs) == local[cs][FALSE] + maxJobs[cs] * local[cs][TRUE]
currentJobCount(cs) == jobList[cs] + currentJobCountLocal(cs)

\* Preloading is for those that are not busy with local jobs only.
is_eligible_now(cs) ==
    \/ currentJobCount(cs) < maxJobs[cs]
    \/ currentJobCount(cs) < maxJobs[cs] + maxPreloadCount(cs) /\ currentJobCountLocal(cs) < maxJobs[cs]

eligible == SelectSeq(css, is_eligible_now)

\* job->id() - cs->lastPickedId(), for a job that age newer jobs have overtaken
Gap(cs, age) == since[cs] + 1 - age

-----------------------------------------------------------------------------
\* The difference of two unsigned ids: a job older than the last one is far ahead of it.
should_refresh_stats(gap, never, count) ==
    /\ STATS_UPDATE_WEIGHT # 255
    /\ never \/ gap < 0 \/ 255 * gap > (255 - STATS_UPDATE_WEIGHT) * count

\* Fault: the last of the servers that are not newer.
pick_server_round_robin_newest(list) ==
    CHOOSE cs \in Range(list) : \A o \in Range(list) : since[cs] <= since[o]

\* The first of those that were picked longest ago.
pick_server_round_robin(list) ==
    list[CHOOSE i \in DOMAIN list :
            /\ \A j \in DOMAIN list : since[list[j]] <= since[list[i]]
            /\ \A j \in 1 .. i - 1 : since[list[j]] < since[list[i]]]

\* What a server has to do, in units of 1 / submission_weight.
Effective(cs) ==
    IF submission_weight = 0 THEN currentJobCount(cs)
    ELSE currentJobCount(cs) * submission_weight + submitted[cs]

\* Of two loads, jobs divided by slots.
Busier(cs, o) == Effective(cs) * maxJobs[o] > Effective(o) * maxJobs[cs]

pick_server_least_busy(list) ==
    pick_server_round_robin(SelectSeq(list, LAMBDA cs : \A o \in Range(list) : ~Busier(cs, o)))

\* Those that never compiled and are idle.
NewServers(list) == SelectSeq(list, LAMBDA cs : cs \notin compiled /\ currentJobCount(cs) = 0)

\* The first, unless a later one has the environment.
pick_server_new(new) ==
    LET ready == SelectSeq(Tail(new), LAMBDA cs : cs \in hasEnv)
    IN  IF ready = <<>> THEN Head(new) ELSE Last(ready)

\* The loop over the servers: cs is compared with the best of its kind so far.
Better(best, cs, speed) ==
    \/ best = <<>>
    \/ best[1] \in compiled /\ speed[best[1]] < speed[cs] /\ currentJobCount(cs) < maxJobs[cs]

Consider(acc, cs, speed, age, count) ==
    IF acc.found THEN acc
    ELSE IF should_refresh_stats(Gap(cs, age), since[cs] = Never, count)
    THEN [acc EXCEPT !.best = <<cs>>, !.found = TRUE]
    ELSE IF cs \in hasEnv
    THEN IF Better(acc.best, cs, speed) THEN [acc EXCEPT !.best = <<cs>>] ELSE acc
    ELSE IF Better(acc.bestui, cs, speed) THEN [acc EXCEPT !.bestui = <<cs>>] ELSE acc

\* A server without free slot only becomes bestpre, for which there is always one that is better.
pick_server_fastest(list, speed, age) ==
    LET new == NewServers(list)
        r == FoldLeft(LAMBDA acc, cs : Consider(acc, cs, speed, age, Len(list)),
                      [best |-> <<>>, bestui |-> <<>>, found |-> FALSE], list)
    IN  IF compiled = {} THEN Range(list)
        ELSE IF new # <<>> THEN {pick_server_new(new)}
        ELSE Range(IF r.best # <<>> THEN r.best ELSE r.bestui)

pick_server(list, age) ==
    IF Len(list) = 1 THEN Range(list)
    ELSE CASE algorithm = "ROUND_ROBIN" -> {pick_server_round_robin(list)}
           [] algorithm = "LEAST_BUSY" -> {pick_server_least_busy(list)}
           [] algorithm = "FASTEST" ->
                UNION {pick_server_fastest(list, speed, age) : speed \in [Servers -> Speeds]}
           [] OTHER -> Range(list)

-----------------------------------------------------------------------------
\* Environments and statistics are only followed where the choice depends on them.
Explores == algorithm = "FASTEST"

\* handle_cs_request with a new job, and empty_queue with one that waits.
Dispatch ==
    /\ \E list \in {eligible} : list # <<>> /\ \E age \in 0 .. Overtaken : \E cs \in pick_server(list, age) :
         /\ picked' = cs
         /\ since' = [s \in Servers |-> IF s = cs THEN age
                                        ELSE IF since[s] >= Far THEN since[s] ELSE since[s] + 1]
         /\ jobList' = [jobList EXCEPT ![cs] = @ + 1]
         /\ hasEnv' = IF Explores THEN hasEnv \cup {cs} ELSE hasEnv
    /\ UNCHANGED <<algorithm, local, submitted, compiled>>

\* handle_job_done; add_job_stats ignores failed and small jobs.
JobDone(cs) ==
    /\ jobList[cs] > 0
    /\ jobList' = [jobList EXCEPT ![cs] = @ - 1]
    /\ compiled' \in IF Explores THEN {compiled, compiled \cup {cs}} ELSE {compiled}
    /\ UNCHANGED <<algorithm, local, submitted, since, hasEnv, picked>>

\* The jobs that are the servers' own.
Own == FoldLeft(LAMBDA sum, cs : sum + local[cs][FALSE] + local[cs][TRUE] + submitted[cs], 0, css)

handle_local_job(cs, fulljob) ==
    /\ Own < MaxOwn
    /\ local' = [local EXCEPT ![cs][fulljob] = @ + 1]
    /\ UNCHANGED <<algorithm, jobList, submitted, since, compiled, hasEnv, picked>>

handle_local_job_done(cs, fulljob) ==
    /\ local[cs][fulljob] > 0
    /\ local' = [local EXCEPT ![cs][fulljob] = @ - 1]
    /\ UNCHANGED <<algorithm, jobList, submitted, since, compiled, hasEnv, picked>>

\* A daemon asks for a job, and a job it asked for ends.
Submit(cs) ==
    /\ Own < MaxOwn
    /\ submitted' = [submitted EXCEPT ![cs] = @ + 1]
    /\ UNCHANGED <<algorithm, jobList, local, since, compiled, hasEnv, picked>>

SubmittedEnds(cs) ==
    /\ submitted[cs] > 0
    /\ submitted' = [submitted EXCEPT ![cs] = @ - 1]
    /\ UNCHANGED <<algorithm, jobList, local, since, compiled, hasEnv, picked>>

Init ==
    /\ algorithm \in Algorithms
    /\ jobList = [cs \in Servers |-> 0]
    /\ local = [cs \in Servers |-> [fulljob \in BOOLEAN |-> 0]]
    /\ submitted = [cs \in Servers |-> 0]
    /\ since = [cs \in Servers |-> Never]
    /\ compiled = {}
    /\ hasEnv = {}
    /\ picked = css[1]

Next ==
    \/ Dispatch
    \/ \E cs \in Servers :
         \/ JobDone(cs) \/ Submit(cs) \/ SubmittedEnds(cs)
         \/ \E fulljob \in BOOLEAN : handle_local_job(cs, fulljob) \/ handle_local_job_done(cs, fulljob)

Fairness == WF_vars(Dispatch) /\ \A cs \in Servers : WF_vars(JobDone(cs))

Spec == Init /\ [][Next]_vars /\ Fairness

-----------------------------------------------------------------------------
\* There are statistics of every server; before, pick_server_fastest prefers those without.
Known == algorithm = "FASTEST" => compiled = Servers

\* LEAST_BUSY prefers a server that is idle to one that works for itself or has asked for jobs.
NothingElse(cs) == algorithm = "LEAST_BUSY" => currentJobCountLocal(cs) = 0 /\ submitted[cs] = 0

\* A server that could have jobs is not overlooked for ever: jobs that keep coming reach it
\* too, whatever the others do for themselves.  should_refresh_stats is there for this
\* (scheduling_algo.cpp:17), and so is the round robin among the least busy.
NotOverlooked ==
    \A cs \in Servers :
        <>[](is_eligible_now(cs) /\ Known /\ NothingElse(cs)) => []<>(picked = cs)
=============================================================================
