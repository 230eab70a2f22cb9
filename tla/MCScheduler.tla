---------------------------- MODULE MCScheduler ----------------------------
(* Instances of Scheduler for TLC. *)
EXTENDS Scheduler, TLC

CONSTANTS c1, c2, h1, h2, e32, e64, k1, k2, l1, f1

TwoPlatforms == {"i686", "x86_64"}
EnvPlatforms == (e32 :> "i686" @@ e64 :> "x86_64")
OneEnvPlatform == (e64 :> "x86_64")
OldRunsOnNew == {<<"i686", "x86_64">>}
HostPlatforms == (h1 :> "i686" @@ h2 :> "x86_64")
OnePlatform == [h \in Host |-> "x86_64"]
OneEach == [h \in Host |-> 1]
AllNew == [h \in Host |-> 40]
OldAndNew == (h1 :> 40 @@ h2 :> 24)
BlacklistH2 == {<<h2, e64>>}

OnlyH2 == (h1 :> {} @@ h2 :> {f1})

RequestOf(n, envs, pref, count) ==
    [nice |-> n, envs |-> envs, pref |-> pref, ver |-> 0, features |-> {}, count |-> count]

\* Two repeated jobs with both environments, and a nice job for one host that
\* needs a feature and a daemon of some age.
MixedRequests ==
    {RequestOf(-1, {e32, e64}, Null, 2),
     [RequestOf(5, {e64}, h2, 1) EXCEPT !.ver = 35, !.features = {f1}]}
\* ICECC_REPEAT_RATE makes a client ask for three servers.
ThreeRepeats == {RequestOf(0, {e64}, Null, 3)}
OneOrTwo == {RequestOf(0, {e64}, Null, n) : n \in {1, 2}}
BothEnvsTwice == {RequestOf(0, {e32, e64}, Null, 2)}

\* A job for host h2 only, and one for any host.
PlainAndPreferred ==
    {RequestOf(0, {e32, e64}, h2, 1), RequestOf(0, {e32, e64}, Null, 1)}

ConnSymmetry == Permutations(Conn)
=============================================================================
