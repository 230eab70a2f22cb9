------------------------------ MODULE JobQueue ------------------------------
(***************************************************************************)
(* The list job_requests of scheduler/scheduler.cpp: a list of groups, one *)
(* per submitter and niceness, each with the list of its jobs.             *)
(***************************************************************************)
EXTENDS Integers, Sequences, SequencesExt

CONSTANTS
    Submitter,      \* daemons that send GetCSMsg
    Nice,           \* niceness values, already clamped
    Counts,         \* how many servers a client asks for
    MaxJobs         \* bound on new_job_id

ASSUME NumberAssumption == Nice \subseteq Int /\ Counts \subseteq Nat /\ MaxJobs \in Nat

VARIABLES
    job_requests,   \* the list of groups
    batch,          \* for each id given out, the first id of its GetCSMsg
    dispatched      \* the jobs that empty_queue has given to a server

vars == <<job_requests, batch, dispatched>>

TypeOK ==
    /\ job_requests \in Seq([submitter : Submitter, niceness : Nice, l : Seq(1..MaxJobs)])
    /\ batch \in Seq(1..MaxJobs)
    /\ dispatched \subseteq 1..MaxJobs

Init == job_requests = <<>> /\ batch = <<>> /\ dispatched = {}

-----------------------------------------------------------------------------

\* enqueue_job_requests_group: before the first group of lower priority.
enqueue_job_requests_group(q, g) ==
    LET i == SelectInSeq(q, LAMBDA o : o.niceness > g.niceness)
    IN  IF i = 0 THEN Append(q, g) ELSE InsertAt(q, i, g)

\* Fault: a submitter that asks again loses its turn.
enqueue_job_request_requeues(q, c, n, job) ==
    LET mine == SelectSeq(q, LAMBDA o : o.submitter = c /\ o.niceness = n)
        rest == SelectSeq(q, LAMBDA o : o.submitter # c \/ o.niceness # n)
        before == IF mine = <<>> THEN <<>> ELSE mine[1].l
    IN  enqueue_job_requests_group(rest, [submitter |-> c, niceness |-> n, l |-> Append(before, job)])

\* enqueue_job_request: into the submitter's group of that niceness, or as a
\* new group where the lower priorities start, whichever the loop meets first.
enqueue_job_request(q, c, n, job) ==
    LET i == SelectInSeq(q, LAMBDA o : \/ o.submitter = c /\ o.niceness = n
                                       \/ o.niceness > n)
        newone == [submitter |-> c, niceness |-> n, l |-> <<job>>]
    IN  IF i = 0 THEN Append(q, newone)
        ELSE IF q[i].submitter = c /\ q[i].niceness = n
        THEN [q EXCEPT ![i].l = Append(@, job)]
        ELSE InsertAt(q, i, newone)

\* Faults: an empty group stays; a group keeps its place.
remove_job_request_keeps_empty(q) ==
    enqueue_job_requests_group(Tail(q), [q[1] EXCEPT !.l = Tail(@)])
remove_job_request_no_turn(q) ==
    IF Len(q[1].l) = 1 THEN Tail(q) ELSE [q EXCEPT ![1].l = Tail(@)]

\* remove_job_request for the first request: its group goes to the end of its
\* niceness, or is deleted when it has become empty.
remove_job_request(q) ==
    LET g == [q[1] EXCEPT !.l = Tail(@)]
    IN  IF g.l = <<>> THEN Tail(q) ELSE enqueue_job_requests_group(Tail(q), g)

\* The loop of handle_job_done over the groups of submitter c, for one
\* cancelled job: a group that becomes empty is erased.
cancel_job(q, c, job) ==
    LET i == SelectInSeq(q, LAMBDA o : o.submitter = c /\ Contains(o.l, job))
    IN  IF i = 0 THEN q
        ELSE IF q[i].l = <<job>> THEN RemoveAt(q, i)
        ELSE [q EXCEPT ![i].l = RemoveFirst(@, job)]

\* The loop of handle_end: the groups of submitter c are erased.
erase_groups(q, c) ==
    FoldLeft(LAMBDA kept, o : IF o.submitter = c THEN kept ELSE Append(kept, o), <<>>, q)

-----------------------------------------------------------------------------

\* handle_cs_request
GetCS(c, n, count) ==
    LET ids == [i \in 1..count |-> Len(batch) + i]
    IN  /\ Len(batch) + count <= MaxJobs
        /\ job_requests' = FoldLeft(LAMBDA q, job : enqueue_job_request(q, c, n, job),
                                    job_requests, ids)
        /\ batch' = batch \o [i \in 1..count |-> ids[1]]
        /\ UNCHANGED dispatched

\* empty_queue gives the first request to a server.
Dispatch ==
    /\ job_requests # <<>>
    /\ job_requests' = remove_job_request(job_requests)
    /\ dispatched' = dispatched \cup {Head(job_requests[1].l)}
    /\ UNCHANGED batch

\* The client of batch b, at submitter c, goes away: handle_job_done looks for
\* its jobs in the order of the map jobs.
Cancel(c, b) ==
    /\ \E i \in DOMAIN job_requests, j \in DOMAIN batch :
          job_requests[i].submitter = c /\ batch[j] = b /\ Contains(job_requests[i].l, j)
    /\ job_requests' = FoldLeftDomain(LAMBDA q, job : IF batch[job] = b THEN cancel_job(q, c, job) ELSE q,
                                      job_requests, batch)
    /\ UNCHANGED <<batch, dispatched>>

\* handle_end of a submitter.
End(c) ==
    /\ \E i \in DOMAIN job_requests : job_requests[i].submitter = c
    /\ job_requests' = erase_groups(job_requests, c)
    /\ UNCHANGED <<batch, dispatched>>

Next ==
    \/ \E c \in Submitter, n \in Nice, count \in Counts : GetCS(c, n, count)
    \/ Dispatch
    \/ \E c \in Submitter, b \in 1..MaxJobs : Cancel(c, b)
    \/ \E c \in Submitter : End(c)

Spec == Init /\ [][Next]_vars

-----------------------------------------------------------------------------

\* The group of position i, and all queued ids.
Key(i) == <<job_requests[i].submitter, job_requests[i].niceness>>
Queued == UNION {ToSet(job_requests[i].l) : i \in DOMAIN job_requests}

\* "All pending job requests, grouped by the same submitter and niceness value,
\* and sorted with higher priority first": no empty group (the assertions of
\* get_first_job_request and get_next_job_request), no two groups alike, no job
\* twice.
WellFormed ==
    /\ TypeOK
    /\ \A i, k \in DOMAIN job_requests :
          i < k => /\ job_requests[i].niceness <= job_requests[k].niceness
                   /\ Key(i) # Key(k)
                   /\ ToSet(job_requests[i].l) \cap ToSet(job_requests[k].l) = {}
    /\ \A i \in DOMAIN job_requests :
          /\ job_requests[i].l # <<>>
          /\ IsSorted(job_requests[i].l, <)

\* Submitters of one niceness take turns: a group never gets past another one
\* that waits before it, unless a request of that other one was just served.
NoOvertaking ==
    [][\A i, k \in DOMAIN job_requests :
          i < k /\ job_requests[i].niceness = job_requests[k].niceness =>
             \A i2, k2 \in DOMAIN job_requests' :
                 Key(i2)' = Key(i) /\ Key(k2)' = Key(k) =>
                     i2 < k2 \/ ToSet(job_requests[i].l) \cap (dispatched' \ dispatched) # {}]_vars

\* The group of each queued job, and which groups of one niceness are before which.
GroupOfJob ==
    [j \in Queued |-> Key(CHOOSE i \in DOMAIN job_requests : Contains(job_requests[i].l, j))]
OrderOfGroups ==
    {<<Key(p[1]), Key(p[2])>> : p \in
        {r \in (DOMAIN job_requests) \X (DOMAIN job_requests) :
            r[1] < r[2] /\ job_requests[r[1]].niceness = job_requests[r[2]].niceness}}

\* The list implements the queue that Scheduler works with.
Fair == INSTANCE FairQueue WITH
    group <- GroupOfJob,
    ahead <- OrderOfGroups,
    served <- dispatched,
    last <- Len(batch)

\* The list of groups is served as the abstract queue promises.
ImplementsFairQueue == Fair!QueueSpec
=============================================================================
