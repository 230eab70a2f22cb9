----------------------------- MODULE Discovery -----------------------------
(***************************************************************************)
(* How daemons and schedulers find each other (DiscoverSched and           *)
(* Broadcasts in services/comm.cpp, with their callers in scheduler.cpp    *)
(* and daemon/main.cpp).  A daemon broadcasts its protocol version,        *)
(* schedulers answer in the form that this version understands, and the    *)
(* daemon takes the best answer: the newest version and, among equals, the *)
(* one that runs longest.  Schedulers announce themselves from time to     *)
(* time, and one that hears of a better one drops its daemons.             *)
(*                                                                         *)
(* Datagrams may be lost or overtake each other.  An answer that comes     *)
(* after the timeout meets a closed socket: it counts as lost.             *)
(***************************************************************************)
EXTENDS Integers, FiniteSets

CONSTANTS
    Daemon, Sched,
    Nowhere,            \* no scheduler
    SchedVersions,      \* the PROTOCOL_VERSIONs schedulers may be built with
    DaemonVersions,     \* those that daemons may be built with
    SchedNames,         \* networks schedulers may belong to, <<name, spelling>>
    DaemonName,         \* the network of the daemons
    Persistent,         \* schedulers started with --persistent-client-connection
    MaxStarts,          \* bound on starts of schedulers
    MaxLost             \* bound on lost datagrams

MIN_PROTOCOL_VERSION == 21

ASSUME VersionAssumption ==
    /\ SchedVersions \subseteq 38 .. 124
    /\ DaemonVersions \subseteq MIN_PROTOCOL_VERSION .. 124
ASSUME NameAssumption ==
    /\ Nowhere \notin Sched
    /\ SchedNames \cup {DaemonName} \subseteq STRING \X STRING
ASSUME BoundAssumption == Persistent \subseteq Sched /\ MaxStarts \in Nat /\ MaxLost \in Nat

VARIABLES
    starttime,      \* of the schedulers that run, 0 for the others
    css,            \* the daemons a scheduler is connected with
    version,        \* PROTOCOL_VERSION of each scheduler and daemon
    netname,        \* the network of each of them
    schedname,      \* the scheduler a daemon was told to use, or Nowhere
    discover,       \* a daemon's DiscoverSched, or how it is doing without
    asks,           \* broadcasts of daemons on their way, <<daemon, scheduler>>
    replies,        \* answers on their way
    announced,      \* announcements on their way
    heard,          \* the answers a daemon has read since it asked
    now, starts, lost

vars == <<starttime, css, version, netname, schedname, discover, asks, replies, announced, heard, now, starts, lost>>
scheds == <<starttime, css, now, starts>>
setup == <<version, netname, schedname>>
net == <<asks, replies, announced>>

Up == {s \in Sched : starttime[s] # 0}

Nothing == [best_version |-> 0, best_start_time |-> 0, best_schedname |-> Nowhere]

\* state: "none", next_scheduler_connect is to come; "asking"; "connecting" to sched;
\* "connected", where the connection may have been closed by the scheduler.
Idle == [state |-> "none", best |-> Nothing, sched |-> Nowhere]

strcasecmp(m, n) == m[1] = n[1]

\* Version a, started at s, is to be preferred to version b, started at t.
Preferred(a, s, b, t) == a > b \/ (a = b /\ s < t)

-----------------------------------------------------------------------------
(***************************************************************************)
(* The answer to a broadcast of a daemon of version d: the first byte, the *)
(* length, and what is in it.                                              *)
(***************************************************************************)
BROAD_BUFLEN == 268
BROAD_BUFLEN_OLD_2 == 32
BROAD_BUFLEN_OLD_1 == 16

\* Fault: daemons up to 36 get the short buffer.
prepareBroadcastReply_short(d, v, start) ==
    IF d < 33 THEN [mark |-> d + 1, len |-> BROAD_BUFLEN_OLD_1, order |-> "none", version |-> 0, time |-> 0]
    ELSE IF d < 37 THEN [mark |-> d + 2, len |-> BROAD_BUFLEN_OLD_2, order |-> "host", version |-> v, time |-> start]
    ELSE IF d <= 38 THEN [mark |-> d + 2, len |-> BROAD_BUFLEN, order |-> "host", version |-> v, time |-> start]
    ELSE [mark |-> d + 3, len |-> BROAD_BUFLEN, order |-> "network", version |-> v, time |-> start]

prepareBroadcastReply(d, v, start) ==
    IF d < 33 THEN [mark |-> d + 1, len |-> BROAD_BUFLEN_OLD_1, order |-> "none", version |-> 0, time |-> 0]
    ELSE IF d < 36 THEN [mark |-> d + 2, len |-> BROAD_BUFLEN_OLD_2, order |-> "host", version |-> v, time |-> start]
    ELSE IF d < 38 THEN [mark |-> d + 2, len |-> BROAD_BUFLEN, order |-> "host", version |-> v, time |-> start]
    ELSE [mark |-> d + 3, len |-> BROAD_BUFLEN, order |-> "network", version |-> v, time |-> start]

\* Which first byte goes with which length.
get_broad_answer(d, r) ==
    <<r.mark - d, r.len>> \in {<<1, BROAD_BUFLEN_OLD_1>>, <<2, BROAD_BUFLEN_OLD_2>>,
                               <<2, BROAD_BUFLEN>>, <<3, BROAD_BUFLEN>>}

get_broad_data(d, r) ==
    IF r.mark = d + 1 THEN [version |-> 32, start_time |-> 0]
    ELSE [version |-> r.version, start_time |-> r.time]

-----------------------------------------------------------------------------
(***************************************************************************)
(* Schedulers.                                                             *)
(***************************************************************************)
Announcement(s, start) == [version |-> version[s], time |-> start, netname |-> netname[s]]

\* broadcastSchedulerVersion; a broadcast reaches its sender too, who does not prefer itself.
Broadcast(s, start) == {[to |-> o, from |-> s, msg |-> Announcement(s, start)] : o \in Up \ {s}}

\* main; two schedulers may start in the same second.
Start(s) ==
    /\ s \notin Up
    /\ starts < MaxStarts
    /\ starts' = starts + 1
    /\ \E t \in {now, now + 1} \ {0} :
         /\ now' = t
         /\ starttime' = [starttime EXCEPT ![s] = t]
         /\ announced' = announced \cup Broadcast(s, t)
    /\ UNCHANGED <<css, setup, discover, asks, replies, heard, lost>>

\* trigger_exit, or a crash: connections are closed, and what was sent to it is not read.
Quit(s) ==
    /\ s \in Up
    /\ starttime' = [starttime EXCEPT ![s] = 0]
    /\ css' = [css EXCEPT ![s] = {}]
    /\ asks' = {a \in asks : a[2] # s}
    /\ announced' = {a \in announced : a.to # s}
    /\ UNCHANGED <<setup, discover, replies, heard, now, starts, lost>>

\* every two minutes
Announce(s) ==
    /\ s \in Up
    /\ announced' = announced \cup Broadcast(s, starttime[s])
    /\ UNCHANGED <<scheds, setup, discover, asks, replies, heard, lost>>

\* Fault: the scheduler that started last is preferred.
handle_scheduler_announce_newest(a) ==
    /\ announced' = announced \ {a}
    /\ css' = IF /\ a.msg.version >= 36 /\ a.msg.netname = netname[a.to]
                 /\ \/ a.msg.version > version[a.to]
                    \/ a.msg.version = version[a.to] /\ a.msg.time > starttime[a.to]
                 /\ a.to \notin Persistent
              THEN [css EXCEPT ![a.to] = {}] ELSE css
    /\ UNCHANGED <<starttime, setup, discover, asks, replies, heard, now, starts, lost>>

handle_scheduler_announce(a) ==
    /\ announced' = announced \ {a}
    /\ css' = IF /\ a.msg.version >= 36 /\ a.msg.netname = netname[a.to]
                 /\ Preferred(a.msg.version, a.msg.time, version[a.to], starttime[a.to])
                 /\ a.to \notin Persistent
              THEN [css EXCEPT ![a.to] = {}] ELSE css
    /\ UNCHANGED <<starttime, setup, discover, asks, replies, heard, now, starts, lost>>

\* main, for a broadcast of a daemon that it could talk to
Reply(d, s) ==
    /\ <<d, s>> \in asks
    /\ asks' = asks \ {<<d, s>>}
    /\ replies' = IF version[d] >= MIN_PROTOCOL_VERSION
                  THEN replies \cup {[to |-> d, from |-> s, started |-> starttime[s],
                                      msg |-> prepareBroadcastReply(version[d], version[s], starttime[s])]}
                  ELSE replies
    /\ UNCHANGED <<scheds, setup, discover, announced, heard, lost>>

-----------------------------------------------------------------------------
(***************************************************************************)
(* Daemons.                                                                *)
(***************************************************************************)
\* DiscoverSched::DiscoverSched, a new socket: what was sent to the old one is lost.
Discover(d) ==
    /\ heard' = [heard EXCEPT ![d] = {}]
    /\ replies' = {r \in replies : r.to # d}
    /\ IF schedname[d] = Nowhere
       THEN /\ asks' = {a \in asks : a[1] # d} \cup ({d} \X Up)
            /\ discover' = [discover EXCEPT ![d] = [Idle EXCEPT !.state = "asking"]]
       ELSE /\ discover' = [discover EXCEPT ![d] = [Idle EXCEPT !.state = "connecting", !.sched = schedname[d]]]
            /\ UNCHANGED asks
    /\ UNCHANGED <<scheds, setup, announced, lost>>

\* reconnect, when next_scheduler_connect has come
reconnect(d) == discover[d].state = "none" /\ Discover(d)

\* Fault: the last of several schedulers of the same version.
Choose_last(best, s, data) ==
    IF best.best_version <= data.version
    THEN [best_version |-> data.version, best_start_time |-> data.start_time, best_schedname |-> s]
    ELSE best

Choose(best, s, data) ==
    IF Preferred(data.version, data.start_time, best.best_version, best.best_start_time)
    THEN [best_version |-> data.version, best_start_time |-> data.start_time, best_schedname |-> s]
    ELSE best

\* try_get_scheduler reads an answer.
ReadAnswer(d, r) ==
    /\ discover[d].state = "asking" /\ r.to = d
    /\ replies' = replies \ {r}
    /\ IF /\ get_broad_answer(version[d], r.msg)
          /\ strcasecmp(netname[d], netname[r.from])
          /\ get_broad_data(version[d], r.msg).version \in 1 .. 127
       THEN /\ discover' = [discover EXCEPT ![d].best = Choose(@, r.from, get_broad_data(version[d], r.msg))]
            /\ heard' = [heard EXCEPT ![d] = @ \cup {r}]
       ELSE UNCHANGED <<discover, heard>>
    /\ UNCHANGED <<scheds, setup, asks, announced, lost>>

\* It has waited long enough for answers: nothing is on its way any more.
Waited(d) ==
    /\ discover[d].state = "asking"
    /\ \A a \in asks : a[1] # d
    /\ \A r \in replies : r.to # d

\* try_get_scheduler after the timeout
TimedOut(d) ==
    /\ Waited(d)
    /\ IF discover[d].best.best_version = 0
       THEN Discover(d)
       ELSE /\ discover' = [discover EXCEPT ![d] = [@ EXCEPT !.state = "connecting",
                                                             !.sched = discover[d].best.best_schedname]]
            /\ UNCHANGED <<scheds, setup, net, heard, lost>>

\* connect, createChannel and the login
Connect(d) ==
    /\ discover[d].state = "connecting" /\ discover[d].sched \in Up
    /\ css' = [css EXCEPT ![discover[d].sched] = @ \cup {d}]
    /\ discover' = [discover EXCEPT ![d] = [@ EXCEPT !.state = "connected", !.best = Nothing]]
    /\ heard' = [heard EXCEPT ![d] = {}]
    /\ UNCHANGED <<starttime, setup, net, now, starts, lost>>

\* The scheduler is not there; after the timeout everything starts again.
ConnectFails(d) ==
    /\ discover[d].state = "connecting" /\ discover[d].sched \notin Up
    /\ Discover(d)

\* The end of the connection is read (close_scheduler).
close_scheduler(d) ==
    /\ discover[d].state = "connected" /\ d \notin css[discover[d].sched]
    /\ discover' = [discover EXCEPT ![d] = Idle]
    /\ UNCHANGED <<scheds, setup, net, heard, lost>>

Lose ==
    /\ lost < MaxLost
    /\ lost' = lost + 1
    /\ \/ \E a \in asks : asks' = asks \ {a} /\ UNCHANGED <<replies, announced>>
       \/ \E r \in replies : replies' = replies \ {r} /\ UNCHANGED <<asks, announced>>
       \/ \E a \in announced : announced' = announced \ {a} /\ UNCHANGED <<asks, replies>>
    /\ UNCHANGED <<scheds, setup, discover, heard>>

-----------------------------------------------------------------------------
Init ==
    /\ starttime = [s \in Sched |-> 0]
    /\ css = [s \in Sched |-> {}]
    /\ version \in [Sched \cup Daemon -> SchedVersions \cup DaemonVersions]
    /\ \A s \in Sched : version[s] \in SchedVersions
    /\ \A d \in Daemon : version[d] \in DaemonVersions
    /\ netname \in [Sched \cup Daemon -> SchedNames \cup {DaemonName}]
    /\ \A s \in Sched : netname[s] \in SchedNames
    /\ \A d \in Daemon : netname[d] = DaemonName
    /\ schedname \in [Daemon -> Sched \cup {Nowhere}]
    /\ discover = [d \in Daemon |-> Idle]
    /\ asks = {} /\ replies = {} /\ announced = {}
    /\ heard = [d \in Daemon |-> {}]
    /\ now = 0 /\ starts = 0 /\ lost = 0

SchedStep == \E s \in Sched : Announce(s) \/ \E d \in Daemon : Reply(d, s)
DaemonStep(d) ==
    \/ reconnect(d) \/ TimedOut(d) \/ Connect(d) \/ ConnectFails(d) \/ close_scheduler(d)
    \/ \E r \in replies : ReadAnswer(d, r)

Next ==
    \/ SchedStep
    \/ \E s \in Sched : Start(s) \/ Quit(s)
    \/ \E a \in announced : handle_scheduler_announce(a)
    \/ \E d \in Daemon : DaemonStep(d)
    \/ Lose

Fairness ==
    /\ \A s \in Sched : WF_vars(Announce(s))
    /\ \A s \in Sched, d \in Daemon : WF_vars(Reply(d, s))
    /\ \A d \in Daemon : WF_vars(DaemonStep(d))
    /\ \A s, o \in Sched :
         WF_vars(\E a \in announced : a.to = s /\ a.from = o /\ handle_scheduler_announce(a))

Spec == Init /\ [][Next]_vars /\ Fairness

-----------------------------------------------------------------------------
\* An answer is understood by the daemon it is for, whatever its version (get_broad_answer
\* knows the first byte and the length, and reads numbers in the order they were written);
\* from version 33 on it says which version the scheduler has and since when it runs.
AnswersUnderstood ==
    \A r \in replies :
        LET d == version[r.to]
            data == get_broad_data(d, r.msg)
        IN  /\ get_broad_answer(d, r.msg)
            /\ r.msg.order = IF d < 33 THEN "none" ELSE IF d < 38 THEN "host" ELSE "network"
            /\ r.msg.len = IF d < 33 THEN 16 ELSE IF d < 36 THEN 32 ELSE 268
            /\ d >= 33 => data = [version |-> version[r.from], start_time |-> r.started]

\* Whatever the order of the answers, a daemon that knows versions has chosen the best of the
\* schedulers of its network that it heard of (try_get_scheduler).
BestHeard ==
    \A d \in Daemon : \A r \in heard[d] :
        version[d] >= 33 =>
            /\ discover[d].best # Nothing
            /\ ~Preferred(version[r.from], r.started,
                          discover[d].best.best_version, discover[d].best.best_start_time)

\* The schedulers a daemon should use.
Best(d) ==
    LET mine == {s \in Up : strcasecmp(netname[s], netname[d])}
    IN  {s \in mine : ~\E o \in mine : Preferred(version[o], starttime[o], version[s], starttime[s])}

\* When schedulers no longer come and go, every daemon that chooses for itself ends up, and
\* stays, with the best scheduler of its network: announcements and discovery agree on which
\* one that is (try_get_scheduler, handle_scheduler_announce), in spite of lost datagrams.
Converges ==
    <>[](\A d \in Daemon :
            (schedname[d] = Nowhere /\ version[d] >= 33 /\ Best(d) # {}) =>
                /\ discover[d].state = "connected"
                /\ discover[d].sched \in Best(d)
                /\ d \in css[discover[d].sched])
=============================================================================
