------------------------------ MODULE EnvCache ------------------------------
(***************************************************************************)
(* The environments of a daemon (daemon/main.cpp, daemon/environment.cpp): *)
(* those received from other machines, unpacked in directories, and the    *)
(* native ones, tarballs that icecc-create-env makes of the compilers of   *)
(* this machine.  Both count against the limit of the cache.               *)
(*                                                                         *)
(* Environments and compilers are numbers in the order of their names, the *)
(* order in which the maps are searched.  On the disk an environment is    *)
(* absent ("no"), a directory in the making ("dir"), one that has its      *)
(* usr/bin/as already ("as"), finished ("whole"), or finished without an   *)
(* assembler ("bare").                                                     *)
(***************************************************************************)
EXTENDS Integers, FiniteSets, SequencesExt

CONSTANTS
    Client,             \* connections that transfer, compile or ask for a native environment
    Env, Compiler,      \* environments, and compilers to make native environments of
    EnvSize, TarSize,   \* what they take in the cache
    cache_size_limit,
    Keep, KeepFew,      \* 200 seconds; a day, if there are few native environments
    KeepCreating,       \* 365 days
    Epoch, MaxNow,      \* the clock at the start, and its bound
    MaxCache,           \* bound: no transfer starts when the cache is that large
    Upgrades            \* bound: the times that the file of a compiler can have

ASSUME SetAssumption == Env \subseteq Nat \ {0} /\ Compiler \subseteq Nat \ {0}
ASSUME SizeAssumption ==
    EnvSize \in [Env -> Nat \ {0}] /\ TarSize \in Nat \ {0} /\ cache_size_limit \in Nat
ASSUME TimeAssumption == /\ {Keep, KeepFew, KeepCreating, Epoch, MaxNow, MaxCache, Upgrades} \subseteq Nat
                         /\ Keep <= KeepFew /\ KeepFew <= KeepCreating /\ KeepCreating < Epoch

VARIABLES
    clients,        \* the state of the connections
    received,       \* received_environments
    native,         \* native_environments
    cache_size,
    disk,           \* the directories of received environments
    tarball,        \* the native environments on the disk
    mtime,          \* the times of the compilers of this machine
    now,
    aborted         \* an assertion has failed, or memory was used after it was freed

vars == <<clients, received, native, cache_size, disk, tarball, mtime, now, aborted>>

None == 0
Statuses == {"UNKNOWN", "TOINSTALL", "WAITINSTALL", "TOCOMPILE", "WAITFORCHILD",
             "WAITCREATEENV", "GOTNATIVE"}

\* A connection that ends is replaced by a new one.
\* child: the process that unpacks has not ended yet; found: the compiler's process found its
\* environment.
NewClient == [status |-> "UNKNOWN", env |-> None, compiler |-> None, child |-> FALSE, found |-> FALSE]

Without(f, k) == [x \in DOMAIN f \ {k} |-> f[x]]
With(f, k, v) == [x \in DOMAIN f \cup {k} |-> IF x = k THEN v ELSE f[x]]

Total(f) == FoldSet(LAMBDA k, sum : sum + f[k].size, 0, DOMAIN f)
FirstOf(set) == CHOOSE k \in set : \A j \in set : k <= j

-----------------------------------------------------------------------------
(***************************************************************************)
(* check_cache_size.  It works on the maps, the disk and the size; cl are  *)
(* the clients at the time.                                                *)
(***************************************************************************)
HasAs(d, e) == d[e] \in {"as", "whole"}

\* The clients whose job is looked at.  One that transfers an environment has none yet.
Working(cl) ==
    {c \in Client : cl[c].status \in {"TOCOMPILE", "TOINSTALL", "WAITINSTALL", "WAITFORCHILD"}}
HasJob(client) == client.status \in {"TOCOMPILE", "WAITFORCHILD"}
\* Fault: a running compilation does not keep its environment.
InUse_waiting(cl, e) == \E c \in Working(cl) : cl[c].status = "TOCOMPILE" /\ cl[c].env = e

InUse(cl, e) == \E c \in Working(cl) : HasJob(cl[c]) /\ cl[c].env = e

Old(s) == {e \in DOMAIN s.received : now - s.received[e].last_use > Keep}
Broken(s) == {e \in DOMAIN s.received : ~HasAs(s.disk, e)}

NativeTimeout(s, k) ==
    IF s.native[k].create_env_pipe THEN KeepCreating
    ELSE IF Cardinality(DOMAIN s.native) < 5 THEN KeepFew ELSE Keep
OldNative(s) == {k \in DOMAIN s.native : now - s.native[k].last_use > NativeTimeout(s, k)}
MissingNative(s) == {k \in DOMAIN s.native : s.native[k].name /\ k \notin s.tarball}

\* The first of those that were not used for the longest time.
Oldest(f, set) ==
    IF set = {} THEN None
    ELSE FirstOf({k \in set : \A j \in set : f[k].last_use <= f[j].last_use})

oldest_received(s, cl) ==
    IF Broken(s) # {} THEN FirstOf(Broken(s))
    ELSE Oldest(s.received, {e \in Old(s) : ~InUse(cl, e)})

\* A native environment is chosen over a received one if it is missing or older still.
oldest_native(s, cl) ==
    LET r == oldest_received(s, cl)
        k == Oldest(s.native, OldNative(s))
    IN  IF MissingNative(s) # {} THEN FirstOf(MissingNative(s))
        ELSE IF k # None /\ (r = None \/ (Broken(s) = {} /\ s.native[k].last_use < s.received[r].last_use))
        THEN k ELSE None

\* assert(it2->second->job), reached when an old environment is considered
JoblessClient(s, cl) ==
    /\ \E e \in Old(s) : \A b \in Broken(s) : e < b
    /\ \E c \in Working(cl) : ~HasJob(cl[c])

\* The file it unlinks is named by env_key, which is no file: the tarball stays.
remove_native_environment(s, k) ==
    [s EXCEPT !.cache_size = @ - s.native[k].size, !.native = Without(@, k)]

\* Fault: the directory goes, the entry stays.
remove_environment_keeps_entry(s, e) ==
    [s EXCEPT !.cache_size = @ - s.received[e].size, !.disk[e] = "no"]

remove_environment(s, e) ==
    [s EXCEPT !.cache_size = @ - s.received[e].size, !.received = Without(@, e), !.disk[e] = "no"]

EvictOne(s, cl, new_env) ==
    LET r == oldest_received(s, cl)
        k == oldest_native(s, cl)
    IN  IF s.aborted # "" \/ s.cache_size <= cache_size_limit THEN s
        ELSE IF JoblessClient(s, cl) THEN [s EXCEPT !.aborted = "assert job"]
        ELSE IF k # None THEN remove_native_environment(s, k)
        ELSE IF r \notin {None, new_env} THEN remove_environment(s, r)
        ELSE s

\* Fault: one environment goes, however large the new one is.
check_cache_size_once(s, cl, new_env) == EvictOne(s, cl, new_env)

\* The loop ends at the latest when there is nothing left.
check_cache_size(s, cl, new_env) ==
    LET rounds == Cardinality(DOMAIN s.received) + Cardinality(DOMAIN s.native)
    IN  FoldLeft(LAMBDA t, i : EvictOne(t, cl, new_env), s, [i \in 1 .. rounds |-> i])

-----------------------------------------------------------------------------
State == [received |-> received, native |-> native, cache_size |-> cache_size, disk |-> disk,
          tarball |-> tarball, aborted |-> aborted]

Becomes(s) ==
    /\ received' = s.received /\ native' = s.native /\ cache_size' = s.cache_size
    /\ disk' = s.disk /\ tarball' = s.tarball /\ aborted' = s.aborted

(***************************************************************************)
(* A client transfers an environment.  If its directory exists, because    *)
(* another client has brought it or is about to, mkdir fails and the       *)
(* directory goes.                                                         *)
(***************************************************************************)
handle_transfer_env(c, e) ==
    /\ clients[c].status = "UNKNOWN" /\ cache_size < MaxCache
    /\ IF disk[e] = "no"
       THEN /\ clients' = [clients EXCEPT ![c] = [@ EXCEPT !.status = "TOINSTALL", !.env = e, !.child = TRUE]]
            /\ disk' = [disk EXCEPT ![e] = "dir"]
       ELSE /\ clients' = [clients EXCEPT ![c] = NewClient]
            /\ disk' = [disk EXCEPT ![e] = "no"]
    /\ UNCHANGED <<received, native, cache_size, tarball, mtime, now, aborted>>

\* The child of start_install_environment has unpacked the assembler; it makes the directories
\* it misses.
Unpack(c) ==
    /\ clients[c].status \in {"TOINSTALL", "WAITINSTALL"} /\ clients[c].child
    /\ disk[clients[c].env] \in {"no", "dir"}
    /\ disk' = [disk EXCEPT ![clients[c].env] = "as"]
    /\ UNCHANGED <<clients, received, native, cache_size, tarball, mtime, now, aborted>>

\* installed_size is the size of what finalize_install_environment finds.
finish_transfer_env(c, cancel, d) ==
    LET e == clients[c].env
        s == IF cancel \/ d[e] = "no" THEN [State EXCEPT !.disk = [d EXCEPT ![e] = "no"]]
             ELSE [State EXCEPT !.disk = d, !.cache_size = @ + EnvSize[e],
                                !.received = With(@, e, [last_use |-> now, size |-> EnvSize[e]])]
        t == check_cache_size(s, [clients EXCEPT ![c] = NewClient], e)
    IN  /\ Becomes(t)
        /\ clients' = [clients EXCEPT ![c] = NewClient]
        /\ UNCHANGED <<mtime, now>>

\* M_END of the transfer
handle_file_chunk_env(c) ==
    /\ clients[c].status = "TOINSTALL"
    /\ IF clients[c].child
       THEN /\ clients' = [clients EXCEPT ![c].status = "WAITINSTALL"]
            /\ UNCHANGED <<received, native, cache_size, disk, tarball, mtime, now, aborted>>
       ELSE finish_transfer_env(c, FALSE, disk)

\* The child has unpacked everything, with or without an assembler.
handle_env_install_child_done(c) ==
    /\ clients[c].status \in {"TOINSTALL", "WAITINSTALL"} /\ clients[c].child
    /\ LET d == [disk EXCEPT ![clients[c].env] =
                    IF @ = "as" THEN "whole" ELSE IF @ = "dir" THEN "bare" ELSE @]
       IN  IF clients[c].status = "TOINSTALL"
           THEN /\ clients' = [clients EXCEPT ![c].child = FALSE]
                /\ disk' = d
                /\ UNCHANGED <<received, native, cache_size, tarball, mtime, now, aborted>>
           ELSE finish_transfer_env(c, FALSE, d)

\* It fails, and the transfer is cancelled; so it is by handle_end when the client goes.
CancelInstall(c) ==
    /\ clients[c].status \in {"TOINSTALL", "WAITINSTALL"}
    /\ finish_transfer_env(c, TRUE, disk)

(***************************************************************************)
(* A client compiles in an environment.  What the scheduler was told of    *)
(* the environments does not matter here: one may have gone since.         *)
(***************************************************************************)
handle_compile_file(c, e) ==
    /\ clients[c].status = "UNKNOWN"
    /\ clients' = [clients EXCEPT ![c] = [@ EXCEPT !.status = "TOCOMPILE", !.env = e]]
    /\ UNCHANGED <<received, native, cache_size, disk, tarball, mtime, now, aborted>>

Touched(e) ==
    With(received, e, [last_use |-> now, size |-> IF e \in DOMAIN received THEN received[e].size ELSE 0])

\* handle_old_request, handle_connection: the process looks for its environment.
StartCompile(c) ==
    /\ clients[c].status = "TOCOMPILE"
    /\ received' = Touched(clients[c].env)
    /\ clients' = [clients EXCEPT ![c].status = "WAITFORCHILD", ![c].found = HasAs(disk, clients[c].env)]
    /\ UNCHANGED <<native, cache_size, disk, tarball, mtime, now, aborted>>

\* EXIT_COMPILER_MISSING: without an assembler at the start, or without a compiler.
handle_compile_done(c) ==
    /\ clients[c].status = "WAITFORCHILD"
    /\ \E missing \in {~clients[c].found, TRUE} :
         LET s == [State EXCEPT !.received = Touched(clients[c].env)]
         IN  Becomes(IF missing THEN remove_environment(s, clients[c].env) ELSE s)
    /\ clients' = [clients EXCEPT ![c] = NewClient]
    /\ UNCHANGED <<mtime, now>>

(***************************************************************************)
(* A client of this machine asks for the environment of its compiler.      *)
(***************************************************************************)
NoNative == [name |-> FALSE, filetimes |-> 0, last_use |-> 0, size |-> 0, create_env_pipe |-> FALSE]

\* An outdated environment is removed under its file name, which is no key of the map: the
\* file goes, the entry stays.
Outdated(k) == native[k].filetimes # mtime[k] \/ k \notin tarball

handle_get_native_env(c, k) ==
    LET entry == IF k \in DOMAIN native THEN native[k] ELSE NoNative
    IN  /\ clients[c].status = "UNKNOWN"
        /\ IF entry.name
           THEN \* finish_get_native_env
                /\ \/ /\ clients' = [clients EXCEPT ![c] = [@ EXCEPT !.status = "GOTNATIVE", !.compiler = k]]
                      /\ native' = [native EXCEPT ![k].last_use = now]
                   \/ clients' = [clients EXCEPT ![c] = NewClient] /\ UNCHANGED native
                /\ tarball' = IF Outdated(k) THEN tarball \ {k} ELSE tarball
           ELSE \* start_create_env, unless it is under way
                /\ clients' = [clients EXCEPT ![c] = [@ EXCEPT !.status = "WAITCREATEENV", !.compiler = k]]
                /\ native' = With(native, k, IF entry.create_env_pipe THEN entry
                                             ELSE [entry EXCEPT !.filetimes = mtime[k], !.create_env_pipe = TRUE])
                /\ UNCHANGED tarball
        /\ UNCHANGED <<received, cache_size, disk, mtime, now, aborted>>

Waiting(k) == {c \in Client : clients[c].status = "WAITCREATEENV" /\ clients[c].compiler = k}

\* Fault: check_cache_size is called before the environment counts as used.
create_env_finished_late(k) ==
    LET entry == [name |-> TRUE, filetimes |-> native[k].filetimes, last_use |-> native[k].last_use,
                  size |-> TarSize, create_env_pipe |-> FALSE]
        s == [State EXCEPT !.native[k] = entry, !.cache_size = @ + TarSize, !.tarball = @ \cup {k}]
    IN  /\ k \in DOMAIN native /\ native[k].create_env_pipe
        /\ clients' = [c \in Client |-> IF c \in Waiting(k) THEN [clients[c] EXCEPT !.status = "GOTNATIVE"]
                                        ELSE clients[c]]
        /\ Becomes(check_cache_size(s, clients, None))
        /\ UNCHANGED <<mtime, now>>

\* icecc-create-env is done.  The answers go to the waiting clients in a loop over the map from
\* which handle_end takes a client that cannot be reached: the iterator is used after that.
create_env_finished(k) ==
    LET entry == [name |-> TRUE, filetimes |-> native[k].filetimes, last_use |-> now,
                  size |-> TarSize, create_env_pipe |-> FALSE]
        s == [State EXCEPT !.native[k] = entry, !.cache_size = @ + TarSize, !.tarball = @ \cup {k}]
        t == check_cache_size(s, clients, None)
    IN  /\ k \in DOMAIN native /\ native[k].create_env_pipe
        /\ \E lost \in SUBSET Waiting(k) :
             /\ clients' = [c \in Client |->
                              IF c \in lost THEN NewClient
                              ELSE IF c \in Waiting(k) THEN [clients[c] EXCEPT !.status = "GOTNATIVE"]
                              ELSE clients[c]]
             /\ \/ Becomes(t)
                \/ lost # {} /\ Becomes([t EXCEPT !.aborted = "iterator"])
        /\ UNCHANGED <<mtime, now>>

\* It failed: the waiting clients are ended, and working_loop forgets the entry.
create_env_failed(k) ==
    /\ k \in DOMAIN native /\ native[k].create_env_pipe
    /\ native' = Without(native, k)
    /\ clients' = [c \in Client |-> IF c \in Waiting(k) THEN NewClient ELSE clients[c]]
    /\ UNCHANGED <<received, cache_size, disk, tarball, mtime, now, aborted>>

\* handle_end of a client that transfers nothing
handle_end(c) ==
    /\ clients[c].status \notin {"TOINSTALL", "WAITINSTALL", "UNKNOWN"}
    /\ clients' = [clients EXCEPT ![c] = NewClient]
    /\ UNCHANGED <<received, native, cache_size, disk, tarball, mtime, now, aborted>>

Tick ==
    /\ now < MaxNow
    /\ now' = now + 1
    /\ UNCHANGED <<clients, received, native, cache_size, disk, tarball, mtime, aborted>>

\* Somebody installs another compiler, or an earlier one again, with its earlier times.
Upgrade(k) ==
    /\ \E t \in 0 .. Upgrades : t # mtime[k] /\ mtime' = [mtime EXCEPT ![k] = t]
    /\ UNCHANGED <<clients, received, native, cache_size, disk, tarball, now, aborted>>

\* Somebody clears the directory of the native environments.
LoseTarball(k) ==
    /\ k \in tarball
    /\ tarball' = tarball \ {k}
    /\ UNCHANGED <<clients, received, native, cache_size, disk, mtime, now, aborted>>

-----------------------------------------------------------------------------
\* cleanup_cache has emptied the directory.
Init ==
    /\ clients = [c \in Client |-> NewClient]
    /\ received = <<>> /\ native = <<>> /\ cache_size = 0
    /\ disk = [e \in Env |-> "no"]
    /\ tarball = {}
    /\ mtime = [k \in Compiler |-> 0]
    /\ now = Epoch
    /\ aborted = ""

Next ==
    /\ aborted = ""
    /\ \/ \E c \in Client :
            \/ \E e \in Env : handle_transfer_env(c, e) \/ handle_compile_file(c, e)
            \/ \E k \in Compiler : handle_get_native_env(c, k)
            \/ Unpack(c) \/ handle_file_chunk_env(c) \/ handle_env_install_child_done(c)
            \/ CancelInstall(c) \/ StartCompile(c) \/ handle_compile_done(c)
            \/ handle_end(c)
       \/ \E k \in Compiler : \/ create_env_finished(k) \/ create_env_failed(k)
                              \/ Upgrade(k) \/ LoseTarball(k)
       \/ Tick

Spec == Init /\ [][Next]_vars

-----------------------------------------------------------------------------
\* cache_size, which is kept by adding and subtracting in five places, is never less than the
\* sizes of the environments in the two maps: the assertions of remove_environment and
\* remove_native_environment hold, and the unsigned sum does not wrap.
CacheSizeCovers == cache_size \in Nat /\ cache_size >= Total(received) + Total(native)

\* However long a client waits for an environment or compiles in it, check_cache_size spares it:
\* only the report that its compiler is missing and a transfer of the same environment that
\* fails take it away.
InUseKept ==
    [][\A e \in Env :
         /\ disk[e] = "whole" /\ disk'[e] # "whole"
         /\ \E c \in Client : clients[c].status \in {"TOCOMPILE", "WAITFORCHILD"} /\ clients[c].env = e
         =>
            \/ \E c \in Client : clients[c].status = "WAITFORCHILD" /\ clients[c].env = e
                               /\ clients'[c].status = "UNKNOWN"
            \/ \E c \in Client : clients[c].status \in {"TOINSTALL", "WAITINSTALL"} /\ clients[c].env = e
                               /\ clients'[c].status # clients[c].status
            \/ UNCHANGED <<clients, received, native, cache_size>>  \* a new client's transfer has failed
        ]_vars

\* A step that calls check_cache_size(new_env)
Checks(new_env) ==
    \/ \E c \in Client : /\ clients[c].status \in {"TOINSTALL", "WAITINSTALL"} /\ clients[c].env = new_env
                         /\ clients'[c].status = "UNKNOWN"
    \/ /\ new_env = None
       /\ \E k \in DOMAIN native \cap DOMAIN native' : native[k].create_env_pipe /\ ~native'[k].create_env_pipe

SmallEnough(new_env) ==
    (aborted = "" /\ cache_size > cache_size_limit) =>
        \/ new_env \in Broken(State)
        \/ /\ \A e \in DOMAIN received : \/ e = new_env
                                         \/ now - received[e].last_use <= Keep
                                         \/ InUse(clients, e)
           /\ OldNative(State) = {}

\* When check_cache_size has left the cache too large, all that is left is the new environment
\* or was used lately or is in use, unless the new environment is itself broken, which ends
\* the search.
EvictsEnough == [][\A e \in Env \cup {None} : Checks(e) => SmallEnough(e)']_vars

Given(c) == clients[c].status # "GOTNATIVE" /\ clients'[c].status = "GOTNATIVE"

\* A client is only given the name of a native environment that the daemon still has, and the
\* one it has waited for is on the disk: check_cache_size, which create_env_finished calls
\* before it answers, does not choose what was just made, however full the cache is.
GivenIsKnown ==
    [][\A c \in Client :
         LET k == clients'[c].compiler
         IN  Given(c) => /\ k \in DOMAIN native' /\ native'[k].name
                         /\ clients[c].status = "WAITCREATEENV" => k \in tarball']_vars

\* "if they have changed since the time the native env was built, it needs to be rebuilt": what
\* a client asks for is never an environment of the compiler as it was.
NativeRebuilt ==
    [][\A c \in Client :
         Given(c) /\ clients[c].status = "UNKNOWN" =>
            native'[clients'[c].compiler].filetimes = mtime[clients'[c].compiler]]_vars

\* "do not remove if it's still being created": a client that waits for a native environment
\* waits for a creation that the daemon still follows.
CreationFollowed ==
    aborted = "" => \A c \in Client : clients[c].status = "WAITCREATEENV" =>
        clients[c].compiler \in DOMAIN native /\ native[clients[c].compiler].create_env_pipe

\* The assertion of check_cache_size that every working client has a job.
WorkingClientsHaveJobs == aborted # "assert job"
=============================================================================
