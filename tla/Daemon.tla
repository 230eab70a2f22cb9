------------------------------- MODULE Daemon -------------------------------
(***************************************************************************)
(* iceccd (daemon/main.cpp): one thread that serves the clients of its own *)
(* machine, which ask it for compile servers or for a slot to work in, and *)
(* the clients of other machines, for which it runs compilers.             *)
(*                                                                         *)
(* A round of working_loop begins with reconnect ("loop"); then            *)
(* handle_old_request gives free slots to waiting clients ("old"), and     *)
(* after poll ("poll") the messages of clients and scheduler and the ends  *)
(* of child processes are handled, some or all, in any order.              *)
(*                                                                         *)
(* The clients send what client/main.cpp and client/remote.cpp send, and   *)
(* may go away at any time.  Of the scheduler there is only what it knows  *)
(* of this daemon; it handles what it is sent at once, its own messages    *)
(* take any time.                                                          *)
(***************************************************************************)
EXTENDS Integers, FiniteSets

CONSTANTS
    max_kids,       \* -m: the number of compile slots
    Requests,       \* what clients ask for: "env", "cs", "local", "compile", "transfer"
    Nice,           \* niceness values of clients
    Counts,         \* how many servers a client asks for (ICECC_REPEAT_RATE: 3)
    MaxClient,      \* bound on new_client_id
    MaxJobId        \* bound on the scheduler's job ids

ASSUME SlotAssumption == max_kids \in Nat
ASSUME NiceAssumption == Nice \subseteq Nat
ASSUME CountAssumption == Counts \subseteq Nat \ {0}
ASSUME ClientBound == MaxClient \in Nat /\ MaxJobId \in Nat

VARIABLES
    phase,              \* where working_loop is
    scheduler,          \* there is a connection to a scheduler
    clients,            \* the live clients, by client_id
    current_kids,       \* child processes
    active_processes,   \* slots reserved for clients that work themselves
    new_client_id,
    loaded,             \* current_load >= 1000
    known               \* what the scheduler knows of this daemon

vars == <<phase, scheduler, clients, current_kids, active_processes,
          new_client_id, loaded, known>>

-----------------------------------------------------------------------------
(* State *)

ClientId == 1..MaxClient
JobId == 1..MaxJobId

Status == {"UNKNOWN", "GOTNATIVE", "PENDING_USE_CS", "JOBDONE", "LINKJOB", "TOINSTALL",
           "WAITINSTALL", "TOCOMPILE", "WAITFORCS", "WAITCOMPILE", "CLIENTWORK",
           "WAITFORCHILD", "WAITCREATEENV"}

\* A Client; job_id is 0 when there is none.
ClientState ==
    [status : Status,
     job_id : Nat,
     niceness : Nat,
     fulljob : BOOLEAN,
     job : Nat,                 \* id in its CompileFileMsg, 0 before that
     child : BOOLEAN,           \* child_pid and pipe_from_child are set
     pipe_to_child : BOOLEAN,
     told : SUBSET Nat,         \* jobs the client was told to compile itself,
     compiles : SUBSET Nat]     \* and those it has begun with

\* The scheduler's side of the connection: the requests in its queue, the jobs
\* of this daemon's clients that it gave to a server (here: to this daemon), its
\* messages on the way, the given jobs that only the other server will report, and
\* the local jobs it counts.
Answer == [job : Nat, client : Nat, here : BOOLEAN]
Knowledge ==
    [waiting : SUBSET (ClientId \X Nat), given : SUBSET Answer, inbox : SUBSET Answer,
     handed : SUBSET Nat, locals : SUBSET ClientId, last : Nat]

TypeOK ==
    /\ phase \in {"loop", "old", "poll"}
    /\ scheduler \in BOOLEAN
    /\ DOMAIN clients \subseteq ClientId
    /\ clients \in [DOMAIN clients -> ClientState]
    /\ current_kids \in Nat
    /\ active_processes \in Nat
    /\ new_client_id \in 0..MaxClient
    /\ loaded \in BOOLEAN
    /\ known \in Knowledge

NewClient ==
    [status |-> "UNKNOWN", job_id |-> 0, niceness |-> 0, fulljob |-> FALSE, job |-> 0,
     child |-> FALSE, pipe_to_child |-> FALSE, told |-> {}, compiles |-> {}]

NoClients == [c \in {} |-> NewClient]

\* When a connection ends, the scheduler forgets the daemon's jobs.
Forgotten(k) ==
    [waiting |-> {}, given |-> {}, inbox |-> {}, handed |-> {}, locals |-> {}, last |-> k.last]

Init ==
    /\ phase = "loop"
    /\ scheduler = FALSE
    /\ clients = NoClients
    /\ current_kids = 0
    /\ active_processes = 0
    /\ new_client_id = 0
    /\ loaded = FALSE
    /\ known = [waiting |-> {}, given |-> {}, inbox |-> {}, handed |-> {}, locals |-> {}, last |-> 0]

\* An assertion fails or a null pointer is used: the daemon dies, is started
\* again, and the scheduler notices.
Crash ==
    /\ phase' = "loop"
    /\ scheduler' = FALSE
    /\ clients' = NoClients
    /\ current_kids' = 0
    /\ active_processes' = 0
    /\ new_client_id' = 0
    /\ loaded' = FALSE
    /\ known' = Forgotten(known)

-----------------------------------------------------------------------------
(* Slots *)

\* std::max(1, max_kids)
Slots == IF max_kids > 1 THEN max_kids ELSE 1

\* Fault: a full job takes one slot.
Weight_one(r) == 1

\* The slots that are reserved for a client while it is in CLIENTWORK.
Weight(r) == IF r.fulljob THEN Slots ELSE 1
Works(f) == {c \in DOMAIN f : f[c].status = "CLIENTWORK"}
Reserved(f) ==
    Cardinality({c \in Works(f) : ~f[c].fulljob})
        + Slots * Cardinality({c \in Works(f) : f[c].fulljob})

\* Fault: one too many.
SlotFree_inclusive == current_kids + active_processes <= Slots

SlotFree == current_kids + active_processes < Slots

\* The clients of status s that get_earliest_client may return.  It walks through
\* a map sorted by address, so any order, and takes each client whose id and
\* niceness are both below those of the one it has.
get_earliest_client(s) ==
    {c \in DOMAIN clients :
        /\ clients[c].status = s
        /\ \A d \in DOMAIN clients :
              clients[d].status = s => d >= c \/ clients[d].niceness >= clients[c].niceness}

-----------------------------------------------------------------------------
(* Messages to the scheduler and the end of clients *)

\* How a handler ends that leaves the clients and counters as cl, kids and active.
\* If it has something to send (sends), send_scheduler does so (sent), after which
\* the scheduler knows k, or fails and closes the connection.  After a failure
\* answer_client_requests calls clear_children, unless it has returned before.
Finish(cl, kids, active, sends, k, sent, clears) ==
    IF sends /\ scheduler /\ ~sent
    THEN /\ scheduler' = FALSE
         /\ known' = Forgotten(known)
         /\ clients' = IF clears THEN NoClients ELSE cl
         /\ current_kids' = IF clears THEN 0 ELSE kids
         /\ active_processes' = IF clears THEN active - Reserved(cl) ELSE active
         /\ new_client_id' = IF clears THEN 0 ELSE new_client_id
    ELSE /\ known' = IF scheduler THEN k ELSE known
         /\ clients' = cl
         /\ current_kids' = kids
         /\ active_processes' = active
         /\ UNCHANGED <<scheduler, new_client_id>>

\* What the scheduler knows after the messages of this daemon.
Asked(c, count) == [known EXCEPT !.waiting = @ \cup ({c} \X (1..count))]
Cancelled(c) == [known EXCEPT !.waiting = {w \in @ : w[1] # c}]
JobDone(j) == [known EXCEPT !.given = {g \in @ : g.job # j}, !.handed = @ \ {j}]
HandedOver(j) == [known EXCEPT !.handed = @ \cup {j}]
LocalBegun(c) == [known EXCEPT !.locals = @ \cup {c}]
LocalDone(c) == [known EXCEPT !.locals = @ \ {c}]

Installing(c) == clients[c].status \in {"TOINSTALL", "WAITINSTALL"}

\* Fault: a client that waits for its slot has no job.
EndJobId_started(c, goodbye) ==
    CASE clients[c].status = "WAITCOMPILE" /\ goodbye -> 0
      [] clients[c].status \in {"WAITFORCHILD", "PENDING_USE_CS"} -> 0
      [] clients[c].status = "TOCOMPILE" -> clients[c].job
      [] OTHER -> clients[c].job_id

\* The job id a client ends with: a good bye of a client whose job runs elsewhere
\* (goodbye) leaves the report to the other daemon.
EndJobId(c, goodbye) ==
    CASE clients[c].status = "WAITCOMPILE" /\ goodbye -> 0
      [] clients[c].status = "WAITFORCHILD" -> 0
      [] clients[c].status = "TOCOMPILE" -> clients[c].job
      [] OTHER -> clients[c].job_id

\* Faults: the reserved slot is kept; the end of a local job is not reported.
GivenBack_nothing(r) == 0
Report_job_ids_only(c, goodbye) ==
    IF clients[c].status = "WAITFORCS" THEN Cancelled(c)
    ELSE IF clients[c].status = "WAITCOMPILE" /\ goodbye THEN HandedOver(clients[c].job_id)
    ELSE IF EndJobId(c, goodbye) > 0 THEN JobDone(EndJobId(c, goodbye))
    ELSE known

\* The slots a client that ends gives back.
GivenBack(r) == IF r.status = "CLIENTWORK" THEN Weight(r) ELSE 0

\* handle_end's report: a client that still waits for a server is cancelled by its
\* id, other jobs are done, and one that works without a job was a local job.
Report(c, goodbye) ==
    IF clients[c].status = "WAITFORCS" THEN Cancelled(c)
    ELSE IF clients[c].status = "WAITCOMPILE" /\ goodbye THEN HandedOver(clients[c].job_id)
    ELSE IF EndJobId(c, goodbye) > 0 THEN JobDone(EndJobId(c, goodbye))
    ELSE IF clients[c].status = "CLIENTWORK" THEN LocalDone(c)
    ELSE known

\* Does handle_end send anything?  When it cancels an installation it announces
\* the environments.
EndSends(c, goodbye) ==
    \/ Installing(c)
    \/ clients[c].status \in {"WAITFORCS", "CLIENTWORK"}
    \/ EndJobId(c, goodbye) > 0

Others(c) == [d \in DOMAIN clients \ {c} |-> clients[d]]

\* handle_end of client c; an installing child is killed, and finish_transfer_env
\* measures the load.
handle_end(c, goodbye, sent, clears) ==
    /\ Finish(Others(c),
              current_kids - (IF Installing(c) /\ clients[c].child THEN 1 ELSE 0),
              active_processes - GivenBack(clients[c]),
              EndSends(c, goodbye), Report(c, goodbye), sent, clears)
    /\ loaded' \in IF Installing(c) /\ scheduler' THEN BOOLEAN ELSE {loaded}

\* A handler that changes one client and the counters.
Changes(c, r) == [clients EXCEPT ![c] = r]

-----------------------------------------------------------------------------
(* handle_old_request *)

\* A client that waits for a local slot begins to work, if it is still there (got).
StartLocal(c, got, sent) ==
    /\ phase = "old" /\ SlotFree
    /\ c \in get_earliest_client("LINKJOB")
    /\ IF got
       THEN /\ Finish(Changes(c, [clients[c] EXCEPT !.status = "CLIENTWORK"]),
                      current_kids, active_processes + Weight(clients[c]),
                      TRUE, LocalBegun(c), sent, FALSE)
            /\ phase' = IF scheduler /\ sent THEN "old" ELSE "poll"
            /\ UNCHANGED loaded
       ELSE handle_end(c, FALSE, sent, FALSE) /\ UNCHANGED phase

\* A client is told that its job is compiled here, by itself.
StartPending(c, got, sent) ==
    /\ phase = "old" /\ SlotFree
    /\ get_earliest_client("LINKJOB") = {}
    /\ c \in get_earliest_client("PENDING_USE_CS")
    /\ IF got
       THEN /\ Finish(Changes(c, [clients[c] EXCEPT !.status = "CLIENTWORK",
                                                    !.told = clients[c].told \cup {clients[c].job_id}]),
                      current_kids, active_processes + 1, FALSE, known, sent, FALSE)
            /\ UNCHANGED loaded
       ELSE handle_end(c, FALSE, sent, FALSE)
    /\ UNCHANGED phase

\* A compiler is started for a client of another machine.
StartCompile(c, forked, sent) ==
    /\ phase = "old" /\ SlotFree /\ ~loaded
    /\ get_earliest_client("LINKJOB") = {}
    /\ get_earliest_client("PENDING_USE_CS") = {}
    /\ c \in get_earliest_client("TOCOMPILE")
    /\ IF forked
       THEN /\ Finish(Changes(c, [clients[c] EXCEPT !.status = "WAITFORCHILD", !.child = TRUE]),
                      current_kids + 1, active_processes, TRUE, known, sent, FALSE)
            /\ UNCHANGED loaded
       ELSE handle_end(c, FALSE, sent, FALSE)
    /\ UNCHANGED phase

\* Nobody waits for a slot, or there is none.
NothingToStart ==
    /\ phase = "old"
    /\ SlotFree => /\ get_earliest_client("LINKJOB") = {}
                   /\ get_earliest_client("PENDING_USE_CS") = {}
                   /\ loaded \/ get_earliest_client("TOCOMPILE") = {}
    /\ phase' = "poll"
    /\ UNCHANGED <<scheduler, clients, current_kids, active_processes, new_client_id, loaded, known>>

handle_old_request ==
    \/ \E c \in DOMAIN clients, ok, sent \in BOOLEAN :
          StartLocal(c, ok, sent) \/ StartPending(c, ok, sent) \/ StartCompile(c, ok, sent)
    \/ NothingToStart

\* maybe_stats: the load may have changed.
maybe_stats(high, sent) ==
    /\ phase = "poll" /\ scheduler
    /\ loaded' = IF sent THEN high ELSE loaded
    /\ Finish(clients, current_kids, active_processes, TRUE, known, sent, FALSE)
    /\ UNCHANGED phase

-----------------------------------------------------------------------------
(* Messages of the scheduler *)

\* The scheduler finds a server for a queued request.
SchedulerAnswers(w, here) ==
    LET a == [job |-> known.last + 1, client |-> w[1], here |-> here]
    IN  /\ phase = "poll" /\ scheduler
        /\ w \in known.waiting
        /\ known.last < MaxJobId
        /\ known' = [known EXCEPT !.waiting = known.waiting \ {w},
                                  !.given = known.given \cup {a},
                                  !.inbox = known.inbox \cup {a},
                                  !.last = known.last + 1]
        /\ UNCHANGED <<phase, scheduler, clients, current_kids, active_processes,
                       new_client_id, loaded>>

\* Another daemon reports the end of a job it compiled, or that daemon is gone.
RemoteEnds(g) ==
    /\ phase = "poll" /\ scheduler
    /\ g \in known.given /\ ~g.here
    /\ known' = JobDone(g.job)
    /\ UNCHANGED <<phase, scheduler, clients, current_kids, active_processes, new_client_id, loaded>>

\* The message has been read.
Read(a, k) == [k EXCEPT !.inbox = @ \ {a}]

\* The client that waited for answer a is gone: its job is given up.  When that
\* cannot be sent, answer_client_requests returns at once.
GiveUp(a, sent) ==
    /\ a.client \notin DOMAIN clients
    /\ IF sent
       THEN known' = Read(a, JobDone(a.job)) /\ UNCHANGED <<scheduler, phase>>
       ELSE known' = Forgotten(known) /\ scheduler' = FALSE /\ phase' = "loop"
    /\ UNCHANGED <<clients, current_kids, active_processes, new_client_id, loaded>>

\* The job of the client is to be compiled here, as soon as there is a slot.
CompileHere(a) ==
    /\ a.here
    /\ a.client \in DOMAIN clients
    /\ clients' = Changes(a.client, [clients[a.client] EXCEPT !.status = "PENDING_USE_CS",
                                                              !.job_id = a.job])
    /\ known' = Read(a, known)
    /\ UNCHANGED <<phase, scheduler, current_kids, active_processes, new_client_id, loaded>>

\* scheduler_no_cs
scheduler_no_cs(a, sent) ==
    /\ phase = "poll" /\ scheduler
    /\ a \in known.inbox /\ a.here
    /\ GiveUp(a, sent) \/ CompileHere(a)

\* The client is told of its server, and will ask that one (got).
CompileThere(a, got, sent) ==
    LET c == a.client
    IN  /\ ~a.here
        /\ c \in DOMAIN clients
        /\ IF got
           THEN /\ clients' = Changes(c, [clients[c] EXCEPT !.status = "WAITCOMPILE",
                                                            !.job_id = a.job])
                /\ known' = Read(a, known)
                /\ UNCHANGED <<phase, scheduler, current_kids, active_processes,
                               new_client_id, loaded>>
           ELSE IF sent \/ ~EndSends(c, FALSE)
           THEN \* handle_end: the client is where the answer found it
                /\ clients' = Others(c)
                /\ active_processes' = active_processes - GivenBack(clients[c])
                /\ known' = Read(a, Report(c, FALSE))
                /\ UNCHANGED <<phase, scheduler, current_kids, new_client_id, loaded>>
           ELSE \* handle_end has closed the connection, and the loop reads from it
                Crash

\* scheduler_use_cs; a server of protocol 37 and newer says NoCS for CompileHere
scheduler_use_cs(a, got, sent) ==
    /\ phase = "poll" /\ scheduler
    /\ a \in known.inbox
    /\ GiveUp(a, sent) \/ CompileHere(a) \/ CompileThere(a, got, sent)

\* handle_end cannot send anything any more, and the children are waited for.
clear_children ==
    /\ clients' = NoClients
    /\ current_kids' = 0
    /\ active_processes' = active_processes - Reserved(clients)
    /\ new_client_id' = 0

\* The scheduler closes the connection.
SchedulerCloses ==
    /\ phase = "poll" /\ scheduler
    /\ scheduler' = FALSE
    /\ known' = Forgotten(known)
    /\ clear_children
    /\ phase' = "loop"
    /\ UNCHANGED loaded

\* poll fails, or a message of the scheduler is unknown or cannot be answered: the
\* clients stay.
SchedulerFails ==
    /\ phase = "poll" /\ scheduler
    /\ scheduler' = FALSE
    /\ known' = Forgotten(known)
    /\ phase' = "loop"
    /\ UNCHANGED <<clients, current_kids, active_processes, new_client_id, loaded>>

\* working_loop begins a round: reconnect logs in to the scheduler that was found,
\* the same as before or one started since (fresh).
reconnect(found, fresh, sent) ==
    /\ phase \in {"loop", "poll"}
    /\ phase' = "old"
    /\ IF ~scheduler /\ found
       THEN /\ scheduler' = sent
            /\ known' = [known EXCEPT !.last = IF fresh THEN 0 ELSE known.last]
            /\ loaded' = FALSE
       ELSE UNCHANGED <<scheduler, known, loaded>>
    /\ UNCHANGED <<clients, current_kids, active_processes, new_client_id>>

-----------------------------------------------------------------------------
(* Messages and ends of clients *)

\* Client c is handled after a poll, and has one of these states.
Active(c, states) ==
    /\ phase = "poll"
    /\ c \in DOMAIN clients
    /\ clients[c].status \in states

\* Requests of these clients are left to a child, or are parts of an environment.
Unread == {"TOCOMPILE", "WAITFORCHILD", "TOINSTALL", "WAITINSTALL"}

\* Only client c changes, and nothing is sent.
Becomes(c, r) ==
    /\ clients' = Changes(c, r)
    /\ UNCHANGED <<scheduler, current_kids, active_processes, new_client_id, known>>

Accept ==
    /\ phase = "poll"
    /\ new_client_id < MaxClient
    /\ new_client_id' = new_client_id + 1
    /\ clients' = [c \in DOMAIN clients \cup {new_client_id'} |->
                     IF c = new_client_id' THEN NewClient ELSE clients[c]]
    /\ UNCHANGED <<phase, scheduler, current_kids, active_processes, loaded, known>>

\* The environment is there (GOTNATIVE), is created first, or cannot be (end).
handle_get_native_env(c, result) ==
    /\ "env" \in Requests
    /\ Active(c, {"UNKNOWN"})
    /\ IF result = "end"
       THEN handle_end(c, FALSE, TRUE, TRUE)
       ELSE Becomes(c, [clients[c] EXCEPT !.status = result]) /\ UNCHANGED loaded
    /\ UNCHANGED phase

\* All who wait for the environment get it, except the clients that are gone, or all
\* are ended.  When a client is gone the loop goes on with an iterator that handle_end
\* made invalid, and may crash.
create_env_finished(gone) ==
    LET waiting == {c \in DOMAIN clients : clients[c].status = "WAITCREATEENV"}
    IN  /\ phase = "poll"
        /\ waiting # {}
        /\ gone \subseteq waiting
        /\ \/ /\ clients' = [c \in DOMAIN clients \ gone |->
                              IF c \in waiting THEN [clients[c] EXCEPT !.status = "GOTNATIVE"]
                              ELSE clients[c]]
              /\ UNCHANGED <<phase, scheduler, current_kids, active_processes, new_client_id,
                             loaded, known>>
           \/ gone # {} /\ Crash

\* Without a scheduler the job is compiled here, with the client's id for a job id.
handle_get_cs(c, nice, count, sent) ==
    /\ "cs" \in Requests
    /\ Active(c, {"UNKNOWN", "GOTNATIVE"})
    /\ IF scheduler
       THEN Finish(Changes(c, [clients[c] EXCEPT !.status = "WAITFORCS", !.niceness = nice]),
                   current_kids, active_processes, TRUE, Asked(c, count), sent, TRUE)
       ELSE Becomes(c, [clients[c] EXCEPT !.status = "PENDING_USE_CS", !.niceness = nice,
                                          !.job_id = c])
    /\ UNCHANGED <<phase, loaded>>

handle_local_job(c, nice, full) ==
    /\ "local" \in Requests
    /\ Active(c, {"UNKNOWN", "GOTNATIVE"})
    /\ Becomes(c, [clients[c] EXCEPT !.status = "LINKJOB", !.niceness = nice, !.fulljob = full])
    /\ UNCHANGED <<phase, loaded>>

\* The id of a job that a daemon of another machine asked for.
ForeignJob == MaxJobId + 1

\* The client compiles itself what it was told to, or this daemon will compile the
\* file of another machine's client.
handle_compile_file(c, j, sent) ==
    /\ Active(c, Status \ Unread)
    /\ \/ j \in clients[c].told
       \/ j = ForeignJob /\ clients[c].status = "UNKNOWN" /\ "compile" \in Requests
    /\ LET r == [clients[c] EXCEPT !.job = j, !.told = clients[c].told \ {j},
                                   !.compiles = clients[c].compiles \cup {j}]
       IN  IF r.status = "CLIENTWORK"
           THEN Finish(Changes(c, r), current_kids, active_processes, TRUE, known, sent, TRUE)
           ELSE Becomes(c, [r EXCEPT !.status = "TOCOMPILE"])
    /\ UNCHANGED <<phase, loaded>>

\* Fault: the job id stays.
handle_job_done_keeps_id(c, j, sent) ==
    /\ Active(c, Status \ Unread)
    /\ j \in clients[c].compiles
    /\ Finish(Changes(c, [clients[c] EXCEPT !.status = "JOBDONE", !.fulljob = FALSE,
                                            !.compiles = clients[c].compiles \ {j}]),
              current_kids, active_processes - GivenBack(clients[c]), TRUE, JobDone(j), sent, TRUE)
    /\ UNCHANGED <<phase, loaded>>

\* The client has compiled job j, which an assertion expects to be its last one.
handle_job_done(c, j, sent) ==
    /\ Active(c, Status \ Unread)
    /\ j \in clients[c].compiles
    /\ IF j = clients[c].job_id
       THEN /\ Finish(Changes(c, [clients[c] EXCEPT !.status = "JOBDONE", !.fulljob = FALSE,
                                                    !.job_id = 0,
                                                    !.compiles = clients[c].compiles \ {j}]),
                      current_kids, active_processes - GivenBack(clients[c]),
                      TRUE, JobDone(j), sent, TRUE)
            /\ UNCHANGED <<phase, loaded>>
       ELSE Crash

\* Client c could not use its server, and goes on.
handle_blacklist_host_env(c, sent) ==
    /\ Active(c, {"WAITCOMPILE"})
    /\ scheduler
    /\ Finish(clients, current_kids, active_processes, TRUE, known, sent, TRUE)
    /\ UNCHANGED <<phase, loaded>>

\* The client is content.
Goodbye(c, sent) ==
    /\ Active(c, {"WAITCOMPILE", "JOBDONE"})
    /\ handle_end(c, TRUE, sent, TRUE)
    /\ UNCHANGED phase

\* The client closes the connection: it is through, gives up, or is killed.
Close(c, sent) ==
    /\ Active(c, Status \ {"TOCOMPILE", "WAITFORCHILD", "WAITINSTALL"})
    /\ handle_end(c, FALSE, sent, TRUE)
    /\ UNCHANGED phase

\* A client of another machine sends an environment; a child unpacks it (forked).
handle_transfer_env(c, forked) ==
    /\ "transfer" \in Requests
    /\ Active(c, {"UNKNOWN"})
    /\ IF forked
       THEN /\ clients' = Changes(c, [clients[c] EXCEPT !.status = "TOINSTALL", !.child = TRUE,
                                                        !.pipe_to_child = TRUE])
            /\ current_kids' = current_kids + 1
            /\ UNCHANGED <<scheduler, active_processes, new_client_id, known, loaded>>
       ELSE handle_end(c, FALSE, TRUE, TRUE)
    /\ UNCHANGED phase

\* finish_transfer_env of a client without a child; it reports the environments and
\* the load.
finish_transfer_env(c, kids, sent, clears) ==
    /\ Finish(Changes(c, [clients[c] EXCEPT !.status = "UNKNOWN", !.child = FALSE,
                                            !.pipe_to_child = FALSE]),
              kids, active_processes, TRUE, known, sent, clears)
    /\ loaded' \in IF scheduler' THEN BOOLEAN ELSE {loaded}

\* The environment is complete.
handle_file_chunk_env(c, sent) ==
    /\ Active(c, {"TOINSTALL"})
    /\ clients[c].pipe_to_child
    /\ IF clients[c].child
       THEN /\ Becomes(c, [clients[c] EXCEPT !.status = "WAITINSTALL", !.pipe_to_child = FALSE])
            /\ UNCHANGED loaded
       ELSE finish_transfer_env(c, current_kids, sent, TRUE)
    /\ UNCHANGED phase

\* The child is through.  If the scheduler cannot be told, answer_client_requests
\* returns at once.
handle_env_install_child_done(c, success, sent) ==
    /\ Active(c, {"TOINSTALL", "WAITINSTALL"})
    /\ clients[c].child
    /\ IF success /\ clients[c].pipe_to_child
       THEN /\ clients' = Changes(c, [clients[c] EXCEPT !.child = FALSE])
            /\ current_kids' = current_kids - 1
            /\ UNCHANGED <<phase, scheduler, active_processes, new_client_id, known, loaded>>
       ELSE /\ finish_transfer_env(c, current_kids - 1, sent, FALSE)
            /\ phase' = IF scheduler' THEN phase ELSE "loop"

\* Fault: the child is still counted.
handle_compile_done_keeps_kid(c, sent) ==
    /\ Active(c, {"WAITFORCHILD"})
    /\ Finish(Others(c), current_kids, active_processes, TRUE, known, sent, FALSE)
    /\ phase' = "loop"
    /\ UNCHANGED loaded

\* The compiler is through; the environment may be announced anew before the job is
\* reported, and handle_end has nothing to add.
handle_compile_done(c, sent) ==
    /\ Active(c, {"WAITFORCHILD"})
    /\ Finish(Others(c), current_kids - 1, active_processes, TRUE, JobDone(clients[c].job), sent, FALSE)
    /\ phase' = "loop"
    /\ UNCHANGED loaded

-----------------------------------------------------------------------------

FromScheduler ==
    \/ \E w \in known.waiting, here \in BOOLEAN : SchedulerAnswers(w, here)
    \/ \E g \in known.given : RemoteEnds(g)
    \/ \E a \in known.inbox, got, sent \in BOOLEAN :
          scheduler_no_cs(a, sent) \/ scheduler_use_cs(a, got, sent)
    \/ SchedulerCloses
    \/ SchedulerFails

FromClient(c) ==
    \/ \E result \in {"GOTNATIVE", "WAITCREATEENV", "end"} : handle_get_native_env(c, result)
    \/ \E nice \in Nice, count \in Counts, sent \in BOOLEAN : handle_get_cs(c, nice, count, sent)
    \/ \E nice \in Nice, full \in BOOLEAN : handle_local_job(c, nice, full)
    \/ \E j \in 1..ForeignJob, sent \in BOOLEAN :
          handle_compile_file(c, j, sent) \/ handle_job_done(c, j, sent)
    \/ \E sent \in BOOLEAN :
          handle_blacklist_host_env(c, sent) \/ Goodbye(c, sent) \/ Close(c, sent)
    \/ \E forked \in BOOLEAN : handle_transfer_env(c, forked)
    \/ \E sent \in BOOLEAN : handle_file_chunk_env(c, sent)

FromChild(c) ==
    \/ \E success, sent \in BOOLEAN : handle_env_install_child_done(c, success, sent)
    \/ \E sent \in BOOLEAN : handle_compile_done(c, sent)

Next ==
    \/ \E found, fresh, sent \in BOOLEAN : reconnect(found, fresh, sent)
    \/ handle_old_request
    \/ \E high, sent \in BOOLEAN : maybe_stats(high, sent)
    \/ FromScheduler
    \/ Accept
    \/ \E c \in ClientId : FromClient(c) \/ FromChild(c)
    \/ \E gone \in SUBSET ClientId : create_env_finished(gone)

Spec == Init /\ [][Next]_vars

\* Client c, which has a slot, ends its work.
WorkEnds(c) ==
    /\ c \in Works(clients)
    /\ \E sent \in BOOLEAN : Close(c, sent) \/ \E j \in 1..ForeignJob : handle_job_done(c, j, sent)

\* The loop goes on; compilers end, and so do clients that were given a slot.  Each
\* is handled only after a poll, so it may be put off, but not for ever.
Fairness ==
    /\ WF_vars(\E found, fresh, sent \in BOOLEAN : reconnect(found, fresh, sent))
    /\ WF_vars(handle_old_request)
    /\ \A c \in ClientId : SF_vars(FromChild(c)) /\ SF_vars(WorkEnds(c))

FairSpec == Spec /\ Fairness

-----------------------------------------------------------------------------
(* Properties *)

Children(f) == {c \in DOMAIN f : f[c].child}

\* The counters that decide whether there is a free slot say what the clients'
\* states say: current_kids the children that run, active_processes the slots of
\* the clients in CLIENTWORK ("Client is busy working and we reserve the spot").
SlotsAddUp ==
    /\ TypeOK
    /\ current_kids = Cardinality(Children(clients))
    /\ active_processes = Reserved(clients)

\* No more jobs run on the machine than it has slots, whoever runs them.
SlotLimit ==
    Cardinality(Works(clients))
        + Cardinality({c \in DOMAIN clients : clients[c].status = "WAITFORCHILD"}) <= Slots

Runs(f) == {c \in DOMAIN f : f[c].status \in {"CLIENTWORK", "WAITFORCHILD"}}

\* "reserve the entire node": while a full job works, no other job starts.
FullJobReservesAll ==
    [][(\E c \in Works(clients) : clients[c].fulljob) => Runs(clients') \subseteq Runs(clients)]_vars

\* handle_end's assert(false) "should not have a job_id".
NoJobIdOutside ==
    \A c \in DOMAIN clients :
        clients[c].job_id > 0 =>
            clients[c].status \in {"TOCOMPILE", "WAITCOMPILE", "PENDING_USE_CS", "CLIENTWORK",
                                  "WAITFORCS", "WAITFORCHILD"}

\* Every local job that the scheduler counts is one that a client works on: the end
\* of a local job is reported however the client ends.
LocalJobsReported ==
    \A c \in known.locals : c \in Works(clients) /\ clients[c].job_id = 0

\* The scheduler has answered g, and its record of it will be cleared: the answer is
\* on its way, its client has the job, or the other server reports it.
Settled(g) ==
    \/ g \in known.inbox
    \/ g.job \in known.handed
    \/ g.client \in DOMAIN clients /\ clients[g.client].job_id = g.job

\* A job the scheduler counts for this machine is not forgotten by the daemon.
NoJobForgottenHere == \A g \in known.given : g.here => Settled(g)

\* handle_end cancels by client id "because we haven't received a reply from the
\* scheduler yet": no job given to any server is left behind.
NoJobForgotten == \A g \in known.given : Settled(g)

\* "job_id is set if it's a scheduler job": the end of a client is never reported
\* with the id of another client's job, which would end it for the scheduler.
OtherJobsKept ==
    [][\A g \in known.given :
          /\ scheduler'
          /\ g.here
          /\ g.client \in DOMAIN clients \cap DOMAIN clients'
          /\ clients'[g.client] = clients[g.client]
          => g \in known'.given]_vars

Waits(c) ==
    c \in DOMAIN clients /\ clients[c].status \in {"LINKJOB", "PENDING_USE_CS"}

\* Every client that waits for a slot gets one or is ended (when the stream of
\* clients is finite): no slot is lost and none stays free while a client waits.
EveryWaiterGetsASlot == \A c \in ClientId : Waits(c) ~> ~Waits(c)
=============================================================================
