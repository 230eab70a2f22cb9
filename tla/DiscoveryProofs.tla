-------------------------- MODULE DiscoveryProofs --------------------------
(***************************************************************************)
(* Theorems about Discovery, for any number of daemons and schedulers and  *)
(* any versions the protocol still talks to.                               *)
(***************************************************************************)
EXTENDS Discovery, TLAPS

-----------------------------------------------------------------------------
(* Answers *)

DaemonVersion == 21 .. 124
SchedVersion == 38 .. 124

\* What a scheduler of version v that runs since t writes for a daemon of version
\* d is what get_broad_answer and get_broad_data expect.
LEMMA PreparedReply ==
    ASSUME NEW d \in DaemonVersion, NEW v \in SchedVersion, NEW t \in Nat
    PROVE  LET m == prepareBroadcastReply(d, v, t)
           IN  /\ get_broad_answer(d, m)
               /\ m.order = IF d < 33 THEN "none" ELSE IF d < 38 THEN "host" ELSE "network"
               /\ m.len = IF d < 33 THEN 16 ELSE IF d < 36 THEN 32 ELSE 268
               /\ get_broad_data(d, m) = IF d < 33 THEN [version |-> 32, start_time |-> 0]
                                         ELSE [version |-> v, start_time |-> t]
  <1> DEFINE m == prepareBroadcastReply(d, v, t)
             Right == /\ get_broad_answer(d, m)
                      /\ m.order = IF d < 33 THEN "none" ELSE IF d < 38 THEN "host" ELSE "network"
                      /\ m.len = IF d < 33 THEN 16 ELSE IF d < 36 THEN 32 ELSE 268
                      /\ get_broad_data(d, m) = IF d < 33 THEN [version |-> 32, start_time |-> 0]
                                                ELSE [version |-> v, start_time |-> t]
  <1>0. d \in Int /\ 21 <= d /\ v \in Int /\ t \in Int
    BY DEF DaemonVersion, SchedVersion
  <1> USE DEF BROAD_BUFLEN, BROAD_BUFLEN_OLD_2, BROAD_BUFLEN_OLD_1
  <1>1. ASSUME d < 33 PROVE Right
    <2>1. m = [mark |-> d + 1, len |-> 16, order |-> "none", version |-> 0, time |-> 0]
      BY <1>1 DEF prepareBroadcastReply
    <2> HIDE DEF m
    <2>2. m.mark - d = 1
      BY <1>0, <2>1
    <2>3. get_broad_answer(d, m)
      BY <1>0, <2>1, <2>2 DEF get_broad_answer
    <2>4. get_broad_data(d, m) = IF d < 33 THEN [version |-> 32, start_time |-> 0]
                                 ELSE [version |-> v, start_time |-> t]
      BY <1>1, <2>1, <2>2 DEF get_broad_data
    <2> QED BY <1>1, <2>1, <2>2, <2>3, <2>4
  <1>2. ASSUME 33 <= d /\ d < 36 PROVE Right
    <2>1. m = [mark |-> d + 2, len |-> 32, order |-> "host", version |-> v, time |-> t]
      BY <1>0, <1>2 DEF prepareBroadcastReply
    <2> HIDE DEF m
    <2>2. m.mark - d = 2 /\ m.mark # d + 1 /\ ~(d < 33) /\ d < 38
      BY <1>0, <1>2, <2>1
    <2>3. get_broad_answer(d, m)
      BY <1>0, <2>1, <2>2 DEF get_broad_answer
    <2>4. get_broad_data(d, m) = IF d < 33 THEN [version |-> 32, start_time |-> 0]
                                 ELSE [version |-> v, start_time |-> t]
      BY <1>2, <2>1, <2>2 DEF get_broad_data
    <2> QED BY <1>2, <2>1, <2>2, <2>3, <2>4
  <1>3. ASSUME 36 <= d /\ d < 38 PROVE Right
    <2>1. m = [mark |-> d + 2, len |-> 268, order |-> "host", version |-> v, time |-> t]
      BY <1>0, <1>3 DEF prepareBroadcastReply
    <2> HIDE DEF m
    <2>2. m.mark - d = 2 /\ m.mark # d + 1 /\ ~(d < 33) /\ ~(d < 36)
      BY <1>0, <1>3, <2>1
    <2>3. get_broad_answer(d, m)
      BY <1>0, <2>1, <2>2 DEF get_broad_answer
    <2>4. get_broad_data(d, m) = IF d < 33 THEN [version |-> 32, start_time |-> 0]
                                 ELSE [version |-> v, start_time |-> t]
      BY <1>3, <2>1, <2>2 DEF get_broad_data
    <2> QED BY <1>3, <2>1, <2>2, <2>3, <2>4
  <1>4. ASSUME 38 <= d PROVE Right
    <2>1. m = [mark |-> d + 3, len |-> 268, order |-> "network", version |-> v, time |-> t]
      BY <1>0, <1>4 DEF prepareBroadcastReply
    <2> HIDE DEF m
    <2>2. m.mark - d = 3 /\ m.mark # d + 1 /\ ~(d < 33) /\ ~(d < 36) /\ ~(d < 38)
      BY <1>0, <1>4, <2>1
    <2>3. get_broad_answer(d, m)
      BY <1>0, <2>1, <2>2 DEF get_broad_answer
    <2>4. get_broad_data(d, m) = IF d < 33 THEN [version |-> 32, start_time |-> 0]
                                 ELSE [version |-> v, start_time |-> t]
      BY <1>4, <2>1, <2>2 DEF get_broad_data
    <2> QED BY <1>4, <2>1, <2>2, <2>3, <2>4
  <1>5. Right
    <2>1. d < 33 \/ (33 <= d /\ d < 36) \/ (36 <= d /\ d < 38) \/ 38 <= d
      BY <1>0
    <2> HIDE DEF Right
    <2> QED BY <1>1, <1>2, <1>3, <1>4, <2>1
  <1> QED BY <1>5

-----------------------------------------------------------------------------
(* The inductive invariant *)

\* An answer that a scheduler has made for a daemon.
AnswerTo(d, s, t) ==
    [to |-> d, from |-> s, started |-> t, msg |-> prepareBroadcastReply(version[d], version[s], t)]

Answer(r) == \E d \in Daemon, s \in Sched, t \in Nat : r = AnswerTo(d, s, t)

BestState == [best_version : Int, best_start_time : Int, best_schedname : Sched \cup {Nowhere}]
DiscoverState ==
    [state : {"none", "asking", "connecting", "connected"}, best : BestState, sched : Sched \cup {Nowhere}]

\* Who is built how does not change, times are times.
Setup ==
    /\ \A d \in Daemon : version[d] \in DaemonVersion
    /\ \A s \in Sched : version[s] \in SchedVersion
    /\ starttime \in [Sched -> Nat] /\ now \in Nat
    /\ schedname \in [Daemon -> Sched \cup {Nowhere}]
    /\ discover \in [Daemon -> DiscoverState]

\* All that is on its way to daemons, or was read by them, was made by schedulers;
\* only a daemon that has asked and is not yet connected remembers answers.
AnswersKept ==
    /\ \A r \in replies : Answer(r)
    /\ heard = [d \in Daemon |-> heard[d]]
    /\ \A d \in Daemon : \A r \in heard[d] : Answer(r) /\ r.to = d
    /\ \A d \in Daemon : discover[d].state \in {"none", "connected"} => heard[d] = {}

DiscoveryInv == Setup /\ AnswersKept /\ BestHeard

\* The fields of an answer.
LEMMA AnswerFields ==
    ASSUME Setup, NEW r, Answer(r)
    PROVE  /\ r.to \in Daemon /\ r.from \in Sched /\ r.started \in Nat
           /\ r.msg = prepareBroadcastReply(version[r.to], version[r.from], r.started)
           /\ version[r.to] \in DaemonVersion /\ version[r.from] \in SchedVersion
  <1>1. PICK d \in Daemon, s \in Sched, t \in Nat : r = AnswerTo(d, s, t)
    BY DEF Answer
  <1>2. /\ r.to = d /\ r.from = s /\ r.started = t
        /\ r.msg = prepareBroadcastReply(version[d], version[s], t)
    BY <1>1 DEF AnswerTo
  <1> QED BY <1>2 DEF Setup

\* Answers are understood because of how they are made.
LEMMA AnswersMadeRight == Setup /\ AnswersKept => AnswersUnderstood
  <1> SUFFICES ASSUME Setup, AnswersKept, NEW r \in replies
               PROVE  /\ get_broad_answer(version[r.to], r.msg)
                      /\ r.msg.order = IF version[r.to] < 33 THEN "none"
                                       ELSE IF version[r.to] < 38 THEN "host" ELSE "network"
                      /\ r.msg.len = IF version[r.to] < 33 THEN 16
                                     ELSE IF version[r.to] < 36 THEN 32 ELSE 268
                      /\ version[r.to] >= 33 =>
                            get_broad_data(version[r.to], r.msg)
                               = [version |-> version[r.from], start_time |-> r.started]
    BY DEF AnswersUnderstood
  <1>1. Answer(r)
    BY DEF AnswersKept
  <1>2. /\ version[r.to] \in DaemonVersion /\ version[r.from] \in SchedVersion /\ r.started \in Nat
        /\ r.msg = prepareBroadcastReply(version[r.to], version[r.from], r.started)
    BY <1>1, AnswerFields
  <1>3. version[r.to] \in Int
    BY <1>2 DEF DaemonVersion
  <1>4. version[r.to] >= 33 => ~(version[r.to] < 33)
    BY <1>3
  <1> QED BY <1>2, <1>4, PreparedReply

\* Of two schedulers the better one is preferred to whatever the worse one is not worse than.
LEMMA PreferredOrder ==
    ASSUME NEW a \in Int, NEW s \in Int, NEW b \in Int, NEW t \in Int, NEW c \in Int, NEW u \in Int
    PROVE  /\ ~Preferred(a, s, a, s)
           /\ Preferred(b, t, c, u) /\ ~Preferred(a, s, c, u) => ~Preferred(a, s, b, t)
           /\ a > 0 => Preferred(a, s, 0, t)
  BY DEF Preferred

\* What daemon d may remember: state x and the answers H.
Fine(d, x, H) ==
    /\ x \in DiscoverState
    /\ \A r \in H : Answer(r) /\ r.to = d
    /\ x.state \in {"none", "connected"} => H = {}
    /\ \A r \in H : version[d] >= 33 =>
          /\ x.best # Nothing
          /\ ~Preferred(version[r.from], r.started, x.best.best_version, x.best.best_start_time)

\* In every state they remember what they may.
LEMMA AlwaysFine ==
    ASSUME DiscoveryInv, NEW d \in Daemon
    PROVE  Fine(d, discover[d], heard[d])
  BY DEF DiscoveryInv, Setup, AnswersKept, BestHeard, Fine

\* A step of the schedulers or of the network.
LEMMA SchedulersChange ==
    ASSUME DiscoveryInv, UNCHANGED <<setup, discover, heard>>,
           starttime' \in [Sched -> Nat], now' \in Nat,
           \A r \in replies' : Answer(r)
    PROVE  DiscoveryInv'
  <1>1. UNCHANGED <<version, schedname>>
    BY DEF setup
  <1>2. \A r : Answer(r) => Answer(r)'
    BY <1>1 DEF Answer, AnswerTo
  <1>3. Setup'
    BY <1>1 DEF DiscoveryInv, Setup
  <1>4. AnswersKept'
    BY <1>2 DEF DiscoveryInv, AnswersKept
  <1>5. BestHeard'
    BY <1>1 DEF DiscoveryInv, BestHeard
  <1> QED BY <1>3, <1>4, <1>5 DEF DiscoveryInv

\* A step of daemon d.
LEMMA DaemonChanges ==
    ASSUME DiscoveryInv, NEW d \in Daemon, NEW STATE x, NEW STATE H, Fine(d, x, H),
           discover' = [discover EXCEPT ![d] = x], heard' = [heard EXCEPT ![d] = H],
           UNCHANGED <<setup, starttime, now>>,
           \A r \in replies' : Answer(r)
    PROVE  DiscoveryInv'
  <1>1. UNCHANGED <<version, schedname>>
    BY DEF setup
  <1>2. \A r : Answer(r) => Answer(r)'
    BY <1>1 DEF Answer, AnswerTo
  <1>3. /\ discover \in [Daemon -> DiscoverState] /\ heard = [e \in Daemon |-> heard[e]]
        /\ \A e \in Daemon \ {d} : discover'[e] = discover[e] /\ heard'[e] = heard[e]
        /\ discover'[d] = x /\ heard'[d] = H /\ heard' = [e \in Daemon |-> heard'[e]]
        /\ discover' \in [Daemon -> DiscoverState]
    BY DEF DiscoveryInv, Setup, AnswersKept, Fine
  <1>4. ASSUME NEW e \in Daemon PROVE Fine(e, discover'[e], heard'[e])
    BY <1>3, AlwaysFine
  <1>5. Setup'
    BY <1>1, <1>3 DEF DiscoveryInv, Setup
  <1>6. AnswersKept'
    BY <1>2, <1>3, <1>4 DEF AnswersKept, Fine
  <1>7. BestHeard'
    BY <1>1, <1>4 DEF BestHeard, Fine
  <1> QED BY <1>5, <1>6, <1>7 DEF DiscoveryInv

\* Types of what daemons remember.
LEMMA DiscoverTypes ==
    /\ Nothing \in BestState
    /\ Idle \in DiscoverState /\ Idle.state = "none"
    /\ \A x \in DiscoverState, st \in {"none", "asking", "connecting", "connected"},
          s \in Sched \cup {Nowhere}, b \in BestState :
             /\ [x EXCEPT !.state = st] \in DiscoverState
             /\ [x EXCEPT !.state = st].state = st
             /\ [x EXCEPT !.state = st, !.sched = s] \in DiscoverState
             /\ [x EXCEPT !.state = st, !.sched = s].state = st
             /\ [x EXCEPT !.state = st, !.sched = s].best = x.best
             /\ [x EXCEPT !.state = st, !.best = b] \in DiscoverState
             /\ [x EXCEPT !.state = st, !.best = b].state = st
             /\ [x EXCEPT !.best = b] \in DiscoverState
             /\ [x EXCEPT !.best = b].best = b
             /\ [x EXCEPT !.best = b].state = x.state
  <1>1. Nothing \in BestState
    BY DEF Nothing, BestState
  <1>2. Idle \in DiscoverState /\ Idle.state = "none"
    BY <1>1 DEF Idle, DiscoverState
  <1>3. ASSUME NEW x \in DiscoverState, NEW st \in {"none", "asking", "connecting", "connected"},
               NEW s \in Sched \cup {Nowhere}, NEW b \in BestState
        PROVE  /\ [x EXCEPT !.state = st] \in DiscoverState
               /\ [x EXCEPT !.state = st].state = st
               /\ [x EXCEPT !.state = st, !.sched = s] \in DiscoverState
               /\ [x EXCEPT !.state = st, !.sched = s].state = st
               /\ [x EXCEPT !.state = st, !.sched = s].best = x.best
               /\ [x EXCEPT !.state = st, !.best = b] \in DiscoverState
               /\ [x EXCEPT !.state = st, !.best = b].state = st
               /\ [x EXCEPT !.best = b] \in DiscoverState
               /\ [x EXCEPT !.best = b].best = b
               /\ [x EXCEPT !.best = b].state = x.state
    BY DEF DiscoverState
  <1> QED BY <1>1, <1>2, <1>3

\* A new search begins with nothing.
LEMMA DiscoverInv ==
    ASSUME DiscoveryInv, NEW d \in Daemon, Discover(d)
    PROVE  DiscoveryInv'
  <1> DEFINE x == IF schedname[d] = Nowhere THEN [Idle EXCEPT !.state = "asking"]
                  ELSE [Idle EXCEPT !.state = "connecting", !.sched = schedname[d]]
  <1>1. discover' = [discover EXCEPT ![d] = x] /\ heard' = [heard EXCEPT ![d] = {}]
    BY DEF Discover
  <1>2. schedname[d] \in Sched \cup {Nowhere}
    BY DEF DiscoveryInv, Setup
  <1>3. x \in DiscoverState
    BY <1>2, DiscoverTypes
  <1> HIDE DEF x
  <1>4. Fine(d, x, {})
    BY <1>3 DEF Fine
  <1>5. UNCHANGED <<setup, starttime, now>> /\ replies' \subseteq replies
    BY DEF Discover, scheds
  <1>6. \A r \in replies' : Answer(r)
    BY <1>5 DEF DiscoveryInv, AnswersKept
  <1> QED BY <1>1, <1>4, <1>5, <1>6, DaemonChanges

\* try_get_scheduler keeps the better of what it has and what it reads.
LEMMA ReadAnswerInv ==
    ASSUME DiscoveryInv, NEW d \in Daemon, NEW r \in replies, ReadAnswer(d, r)
    PROVE  DiscoveryInv'
  <1> DEFINE data == get_broad_data(version[d], r.msg)
             best == discover[d].best
             b == Choose(best, r.from, data)
             x == [discover[d] EXCEPT !.best = b]
             H == heard[d] \cup {r}
  <1>1. /\ r.to = d /\ Answer(r) /\ UNCHANGED <<setup, starttime, now>>
        /\ discover[d].state = "asking" /\ \A q \in replies' : Answer(q)
    BY DEF ReadAnswer, DiscoveryInv, AnswersKept, scheds
  <1>2. CASE UNCHANGED <<discover, heard>>
    <2>1. starttime' \in [Sched -> Nat] /\ now' \in Nat
      BY <1>1 DEF DiscoveryInv, Setup
    <2> QED BY <1>1, <1>2, <2>1, SchedulersChange DEF setup
  <1>3. CASE discover' = [discover EXCEPT ![d].best = b] /\ heard' = [heard EXCEPT ![d] = H]
    <2>1. discover' = [discover EXCEPT ![d] = x]
      BY <1>3
    <2>2. /\ discover[d] \in DiscoverState /\ best \in BestState
          /\ best.best_version \in Int /\ best.best_start_time \in Int
      BY DEF DiscoveryInv, Setup, DiscoverState, BestState
    <2>3. /\ r.from \in Sched /\ r.started \in Nat
          /\ version[d] \in DaemonVersion /\ version[r.from] \in SchedVersion
          /\ data = IF version[d] < 33 THEN [version |-> 32, start_time |-> 0]
                    ELSE [version |-> version[r.from], start_time |-> r.started]
      BY <1>1, AnswerFields, PreparedReply DEF DiscoveryInv
    <2>4. data.version \in Int /\ data.start_time \in Int
      BY <2>3 DEF SchedVersion
    <2> HIDE DEF data, best
    <2>5. b \in BestState
      BY <2>2, <2>3, <2>4 DEF Choose, BestState
    <2>6. ASSUME version[d] >= 33, NEW q \in H
          PROVE  /\ b # Nothing
                 /\ ~Preferred(version[q.from], q.started, b.best_version, b.best_start_time)
      <3> DEFINE v == version[r.from]
                 t == r.started
      <3>1. version[d] \in Int /\ ~(version[d] < 33) /\ v \in Int /\ v > 0 /\ t \in Int
        BY <2>3, <2>6 DEF DaemonVersion, SchedVersion
      <3>2. data.version = v /\ data.start_time = t
        BY <2>3, <3>1
      <3>3. \A p \in heard[d] : /\ best # Nothing
                                /\ version[p.from] \in Int /\ p.started \in Int
                                /\ ~Preferred(version[p.from], p.started,
                                              best.best_version, best.best_start_time)
        <4> TAKE p \in heard[d]
        <4>1. Answer(p)
          BY DEF DiscoveryInv, AnswersKept
        <4>2. version[p.from] \in Int /\ p.started \in Int
          BY <4>1, AnswerFields DEF DiscoveryInv, SchedVersion
        <4> QED BY <2>6, <4>2 DEF DiscoveryInv, BestHeard, best
      <3> HIDE DEF v, t
      <3>4. CASE Preferred(v, t, best.best_version, best.best_start_time)
        <4>1. b = [best_version |-> v, best_start_time |-> t, best_schedname |-> r.from]
          BY <3>2, <3>4 DEF Choose
        <4>2. b.best_version = v /\ b.best_start_time = t
          BY <4>1
        <4>3. b # Nothing
          BY <3>1, <4>2 DEF Nothing
        <4>4. ~Preferred(version[q.from], q.started, v, t)
          <5>1. CASE q \in heard[d]
            BY <2>2, <3>1, <3>3, <3>4, <5>1, PreferredOrder
          <5>2. CASE q = r
            BY <3>1, <5>2, PreferredOrder DEF v, t
          <5> QED BY <5>1, <5>2
        <4> QED BY <4>2, <4>3, <4>4
      <3>5. CASE ~Preferred(v, t, best.best_version, best.best_start_time)
        <4>1. b = best
          BY <3>2, <3>5 DEF Choose
        <4>2. best # Nothing
          <5> SUFFICES ASSUME best = Nothing PROVE FALSE
            OBVIOUS
          <5>1. best.best_version = 0
            BY DEF Nothing
          <5> QED BY <2>2, <3>1, <3>5, <5>1, PreferredOrder
        <4>3. ~Preferred(version[q.from], q.started, best.best_version, best.best_start_time)
          <5>1. CASE q \in heard[d]
            BY <3>3, <5>1
          <5>2. CASE q = r
            BY <3>5, <5>2 DEF v, t
          <5> QED BY <5>1, <5>2
        <4> QED BY <4>1, <4>2, <4>3
      <3> QED BY <3>4, <3>5
    <2>7. x \in DiscoverState /\ x.best = b /\ x.state = "asking"
      <3> HIDE DEF b
      <3> QED BY <1>1, <2>2, <2>5 DEF DiscoverState
    <2>8. \A q \in H : Answer(q) /\ q.to = d
      BY <1>1 DEF DiscoveryInv, AnswersKept
    <2> HIDE DEF b, x, H
    <2>9. Fine(d, x, H)
      BY <2>6, <2>7, <2>8 DEF Fine
    <2> QED BY <1>1, <1>3, <2>1, <2>9, DaemonChanges
  <1> QED BY <1>2, <1>3 DEF ReadAnswer

\* A reply is an answer.
LEMMA ReplyInv ==
    ASSUME DiscoveryInv, NEW d \in Daemon, NEW s \in Sched, Reply(d, s)
    PROVE  DiscoveryInv'
  <1>1. starttime[s] \in Nat /\ UNCHANGED <<setup, discover, heard, starttime, now>>
    BY DEF Reply, DiscoveryInv, Setup, scheds
  <1>2. \A r \in replies' : r \in replies \/ r = AnswerTo(d, s, starttime[s])
    BY DEF Reply, AnswerTo
  <1>3. \A r \in replies' : Answer(r)
    BY <1>1, <1>2 DEF Answer, DiscoveryInv, AnswersKept
  <1>4. starttime' \in [Sched -> Nat] /\ now' \in Nat
    BY <1>1 DEF DiscoveryInv, Setup
  <1> QED BY <1>1, <1>3, <1>4, SchedulersChange

\* The other steps of schedulers and of the network make no answers.
LEMMA SchedulersInv ==
    ASSUME DiscoveryInv,
           \/ \E s \in Sched : Announce(s) \/ Start(s) \/ Quit(s)
           \/ \E a \in announced : handle_scheduler_announce(a)
           \/ Lose
    PROVE  DiscoveryInv'
  <1>0. starttime \in [Sched -> Nat] /\ now \in Nat /\ \A r \in replies : Answer(r)
    BY DEF DiscoveryInv, Setup, AnswersKept
  <1>1. replies' \subseteq replies /\ UNCHANGED <<setup, discover, heard>>
    BY DEF Announce, Start, Quit, handle_scheduler_announce, Lose
  <1>2. starttime' \in [Sched -> Nat] /\ now' \in Nat
    <2>1. ASSUME NEW s \in Sched, Start(s) PROVE starttime' \in [Sched -> Nat] /\ now' \in Nat
      BY <1>0, <2>1 DEF Start
    <2>2. ASSUME NEW s \in Sched, Quit(s) PROVE starttime' \in [Sched -> Nat] /\ now' \in Nat
      BY <1>0, <2>2 DEF Quit
    <2>3. ASSUME UNCHANGED <<starttime, now>> PROVE starttime' \in [Sched -> Nat] /\ now' \in Nat
      BY <1>0, <2>3
    <2> QED BY <2>1, <2>2, <2>3 DEF Announce, handle_scheduler_announce, Lose, scheds
  <1> QED BY <1>0, <1>1, <1>2, SchedulersChange

\* A daemon goes from answers to a connection, or from a connection to nothing.
LEMMA ConnectionsInv ==
    ASSUME DiscoveryInv, NEW d \in Daemon,
           TimedOut(d) \/ Connect(d) \/ close_scheduler(d)
    PROVE  DiscoveryInv'
  <1>1. /\ Fine(d, discover[d], heard[d]) /\ discover[d] \in DiscoverState
        /\ heard = [e \in Daemon |-> heard[e]] /\ \A r \in replies : Answer(r)
    BY AlwaysFine DEF DiscoveryInv, Setup, AnswersKept
  <1>2. CASE TimedOut(d) /\ ~Discover(d)
    <2> DEFINE s == discover[d].best.best_schedname
               x == [discover[d] EXCEPT !.state = "connecting", !.sched = s]
    <2>1. /\ discover' = [discover EXCEPT ![d] = x]
          /\ UNCHANGED <<scheds, setup, net, heard>>
      BY <1>2 DEF TimedOut
    <2>2. s \in Sched \cup {Nowhere}
      BY <1>1 DEF DiscoverState, BestState
    <2>3. x \in DiscoverState /\ x.state = "connecting" /\ x.best = discover[d].best
      <3> HIDE DEF s
      <3> QED BY <1>1, <2>2 DEF DiscoverState
    <2> HIDE DEF x
    <2>4. Fine(d, x, heard[d])
      BY <1>1, <2>3 DEF Fine
    <2>5. /\ heard' = [heard EXCEPT ![d] = heard[d]] /\ UNCHANGED <<setup, starttime, now>>
          /\ \A r \in replies' : Answer(r)
      BY <1>1, <2>1 DEF scheds, net
    <2> QED BY <2>1, <2>4, <2>5, DaemonChanges
  <1>3. CASE Connect(d)
    <2> DEFINE x == [discover[d] EXCEPT !.state = "connected", !.best = Nothing]
    <2>1. /\ discover' = [discover EXCEPT ![d] = x] /\ heard' = [heard EXCEPT ![d] = {}]
          /\ UNCHANGED <<setup, starttime, now, replies>>
      BY <1>3 DEF Connect, net
    <2>2. x \in DiscoverState
      BY <1>1, DiscoverTypes, ZenonT(60)
    <2> HIDE DEF x
    <2>3. Fine(d, x, {})
      BY <2>2 DEF Fine
    <2> QED BY <1>1, <2>1, <2>3, DaemonChanges
  <1>4. CASE close_scheduler(d)
    <2>1. /\ discover' = [discover EXCEPT ![d] = Idle] /\ heard[d] = {}
          /\ UNCHANGED <<setup, starttime, now, replies, heard>>
      BY <1>1, <1>4 DEF close_scheduler, scheds, net, Fine
    <2>2. Idle \in DiscoverState
      BY DiscoverTypes
    <2>3. Fine(d, Idle, {}) /\ heard' = [heard EXCEPT ![d] = {}]
      BY <1>1, <2>1, <2>2 DEF Fine
    <2> QED BY <1>1, <2>1, <2>3, DaemonChanges
  <1> QED BY <1>2, <1>3, <1>4, DiscoverInv

\* Every step keeps the invariant.
LEMMA DiscoveryInductive == DiscoveryInv /\ [Next]_vars => DiscoveryInv'
  <1> SUFFICES ASSUME DiscoveryInv, [Next]_vars PROVE DiscoveryInv'
    OBVIOUS
  <1>1. CASE UNCHANGED vars
    <2>1. /\ UNCHANGED <<setup, discover, heard, starttime, now, replies>>
          /\ starttime' \in [Sched -> Nat] /\ now' \in Nat /\ \A r \in replies' : Answer(r)
      BY <1>1 DEF vars, setup, DiscoveryInv, Setup, AnswersKept
    <2> QED BY <2>1, SchedulersChange
  <1>2. ASSUME NEW d \in Daemon, DaemonStep(d) PROVE DiscoveryInv'
    BY <1>2, DiscoverInv, ConnectionsInv, ReadAnswerInv DEF DaemonStep, reconnect, ConnectFails
  <1>3. CASE SchedStep
    BY <1>3, ReplyInv, SchedulersInv DEF SchedStep
  <1> QED BY <1>1, <1>2, <1>3, SchedulersInv DEF Next

\* In the beginning nobody has asked.
LEMMA DiscoveryBegins == Init => DiscoveryInv
  <1> SUFFICES ASSUME Init PROVE DiscoveryInv
    OBVIOUS
  <1>1. Setup
    BY VersionAssumption, DiscoverTypes DEF Init, Setup, DaemonVersion, SchedVersion, MIN_PROTOCOL_VERSION
  <1>2. AnswersKept /\ BestHeard
    BY DEF Init, AnswersKept, BestHeard
  <1> QED BY <1>1, <1>2 DEF DiscoveryInv

-----------------------------------------------------------------------------
\* Every answer a scheduler sends is understood by the daemon it is for, for every
\* pair of versions the protocol supports (prepareBroadcastReply on one side,
\* get_broad_answer and get_broad_data on the other), over restarts and lost datagrams.
THEOREM AnswersAlwaysUnderstood == Spec => []AnswersUnderstood
  <1>1. DiscoveryInv => AnswersUnderstood
    BY AnswersMadeRight DEF DiscoveryInv
  <1> QED BY <1>1, DiscoveryBegins, DiscoveryInductive, PTL DEF Spec

\* However many answers a daemon reads and in whatever order they come, it holds on
\* to one that none of them is to be preferred to (try_get_scheduler).
THEOREM BestIsAlwaysKept == Spec => []BestHeard
  <1>1. DiscoveryInv => BestHeard
    BY DEF DiscoveryInv
  <1> QED BY <1>1, DiscoveryBegins, DiscoveryInductive, PTL DEF Spec
=============================================================================
