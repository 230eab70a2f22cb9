----------------------------- MODULE FairQueue -----------------------------
(***************************************************************************)
(* What the scheduler's queue of job requests promises: the request served *)
(* next is one of the best niceness; submitters of the same niceness take  *)
(* turns; the requests of one submitter and niceness are served in the     *)
(* order of their ids.  Scheduler keeps its queue in these terms, and      *)
(* JobQueue has the list that implements it.                               *)
(***************************************************************************)
EXTENDS Integers, GroupOrder

CONSTANTS Submitter, Nice, MaxJobs

VARIABLES
    group,      \* for each queued id, the <<submitter, niceness>> it belongs to
    ahead,      \* the order of the groups within each niceness
    served,     \* the ids that were served
    last        \* the last id given out

queueVars == <<group, ahead, served, last>>

Groups == Submitter \X Nice
Waiting(f) == {f[j] : j \in DOMAIN f}
Only(S) == [j \in S |-> group[j]]

QueueInit == group = [j \in {} |-> 0] /\ ahead = {} /\ served = {} /\ last = 0

\* A submitter asks for n servers at one niceness.
Ask(g, n) ==
    LET ids == last + 1 .. last + n
    IN  /\ last + n <= MaxJobs
        /\ last' = last + n
        /\ group' = [j \in DOMAIN group \cup ids |-> IF j \in ids THEN g ELSE group[j]]
        /\ ahead' = IF g \in Waiting(group) THEN ahead ELSE Behind(ahead, g, Waiting(group))
        /\ UNCHANGED served

\* j is the next to be served.
IsNext(j) ==
    \A k \in DOMAIN group \ {j} :
        \/ group[j][2] < group[k][2]
        \/ <<group[j], group[k]>> \in ahead
        \/ group[j] = group[k] /\ j < k

\* The next request is served, and its group waits behind its equals.
Serve ==
    \E j \in DOMAIN group :
        LET g == group[j]
            f == Only(DOMAIN group \ {j})
            rest == Without(ahead, {g})
        IN  /\ IsNext(j)
            /\ group' = f
            /\ ahead' = IF g \in Waiting(f) THEN Behind(rest, g, Waiting(f) \ {g}) ELSE rest
            /\ served' = served \cup {j}
            /\ UNCHANGED last

\* Requests are withdrawn: some of one group (a client gives up), or all of one
\* submitter (its daemon is gone).
Withdraw(S) ==
    /\ group' = Only(DOMAIN group \ S)
    /\ ahead' = Without(ahead, Waiting(group) \ Waiting(Only(DOMAIN group \ S)))
    /\ UNCHANGED <<served, last>>

QueueNext ==
    \/ \E g \in Groups, n \in 1..MaxJobs : Ask(g, n)
    \/ Serve
    \/ \E S \in SUBSET DOMAIN group : Withdraw(S)

QueueSpec == QueueInit /\ [][QueueNext]_queueVars
=============================================================================
