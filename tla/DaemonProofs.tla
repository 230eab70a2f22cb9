---------------------------- MODULE DaemonProofs ----------------------------
(***************************************************************************)
(* Proofs about module Daemon: what the daemon's counters say about its    *)
(* clients, and what the scheduler's records of this daemon say about      *)
(* them.                                                                   *)
(*                                                                         *)
(* One half of the results holds for every number of servers that a client *)
(* may ask for (Counts), the other half when each asks for one.  The       *)
(* invariant of the first half, DaemonInv, is of states of single clients  *)
(* (Good), of the counters (Sound) and of the scheduler's knowledge        *)
(* (Linked); that of the second half, OnceInv, strengthens each of these.  *)
(***************************************************************************)
EXTENDS Daemon, FiniteSetTheorems, TLAPS

-----------------------------------------------------------------------------
(* The parts of the invariants *)

HasJob == {"TOCOMPILE", "WAITCOMPILE", "PENDING_USE_CS", "CLIENTWORK", "WAITFORCS", "WAITFORCHILD"}

\* A client that has not asked for a server.
Early == {"UNKNOWN", "GOTNATIVE", "WAITCREATEENV", "TOINSTALL", "WAITINSTALL", "LINKJOB"}

\* What a client's members say of each other.
Good(r) ==
    /\ r \in ClientState
    /\ r.status = "WAITFORCHILD" => r.child
    /\ r.fulljob => r.status \in {"LINKJOB", "CLIENTWORK"}
    /\ r.status = "PENDING_USE_CS" => r.job_id > 0
    /\ r.job_id > 0 => r.status \in HasJob
    /\ r.status \in Early \/ r.fulljob => r.told = {} /\ r.compiles = {}

\* The counters are never below what the clients' states say, and ids are handed
\* out in order.
Sound(cl, kids, active, id) ==
    /\ cl \in [DOMAIN cl -> ClientState]
    /\ id \in 0 .. MaxClient
    /\ DOMAIN cl \subseteq 1 .. id
    /\ \A d \in DOMAIN cl : Good(cl[d])
    /\ kids \in Nat /\ kids >= Cardinality(Children(cl))
    /\ active \in Nat /\ active >= Reserved(cl)

\* The scheduler has a request or an answer for client c.
Asking(c, k) == (\E w \in k.waiting : w[1] = c) \/ (\E a \in k.inbox : a.client = c)

\* A client in a state that follows its request for a server.
Served(r) ==
    /\ r.status \in {"WAITFORCS", "PENDING_USE_CS", "WAITCOMPILE", "CLIENTWORK", "JOBDONE",
                     "TOCOMPILE", "WAITFORCHILD"}
    /\ ~r.fulljob
    /\ r.status = "CLIENTWORK" => r.job_id > 0

WorksLocally(r) == r.status = "CLIENTWORK" /\ r.job_id = 0

\* The scheduler waits for clients that asked it, and counts local jobs that run.
Linked(cl, k, id) ==
    /\ \A w \in k.waiting : w[1] \in 1 .. id /\ (w[1] \in DOMAIN cl => Served(cl[w[1]]))
    /\ \A a \in k.inbox : /\ a.client \in 1 .. id /\ a.job > 0
                          /\ a.client \in DOMAIN cl => Served(cl[a.client])
    /\ \A c \in k.locals : c \in DOMAIN cl /\ WorksLocally(cl[c])

Quiet(k) == k.waiting = {} /\ k.given = {} /\ k.inbox = {} /\ k.handed = {} /\ k.locals = {}

\* Without a connection the scheduler knows nothing of this daemon.
Offline == ~scheduler => Quiet(known)

Types ==
    /\ phase \in {"loop", "old", "poll"}
    /\ scheduler \in BOOLEAN
    /\ loaded \in BOOLEAN
    /\ known \in Knowledge

DaemonInv ==
    /\ Types
    /\ Offline
    /\ Sound(clients, current_kids, active_processes, new_client_id)
    /\ Linked(clients, known, new_client_id)

-----------------------------------------------------------------------------
(* Counting clients *)

\* There is always a slot.
LEMMA SlotsPositive == Slots \in Nat \ {0}
  BY SlotAssumption DEF Slots

\* Two sets that differ in one element.
LEMMA OneDifference ==
    ASSUME NEW S, NEW T, NEW c, IsFiniteSet(S), IsFiniteSet(T), S \ {c} = T \ {c}
    PROVE  /\ Cardinality(S) \in Nat /\ Cardinality(T) \in Nat
           /\ Cardinality(T) = Cardinality(S) - (IF c \in S THEN 1 ELSE 0) + (IF c \in T THEN 1 ELSE 0)
  <1>1. Cardinality(S) \in Nat /\ Cardinality(T) \in Nat
    BY FS_CardinalityType
  <1>2. Cardinality(S \ {c}) = IF c \in S THEN Cardinality(S) - 1 ELSE Cardinality(S)
    BY FS_RemoveElement
  <1>3. Cardinality(T \ {c}) = IF c \in T THEN Cardinality(T) - 1 ELSE Cardinality(T)
    BY FS_RemoveElement
  <1>4. Cardinality(S \ {c}) = Cardinality(T \ {c})
    OBVIOUS
  <1> QED BY <1>1, <1>2, <1>3, <1>4

\* f and g differ at most in client c.
SameBut(f, g, c) ==
    /\ (DOMAIN f) \ {c} = (DOMAIN g) \ {c}
    /\ \A d \in (DOMAIN f) \ {c} : g[d] = f[d]

\* What client c counts for in f: children, slots and running jobs.
Kid(r) == IF r.child THEN 1 ELSE 0
KidOf(f, c) == IF c \in DOMAIN f THEN Kid(f[c]) ELSE 0
SlotsOf(f, c) == IF c \in DOMAIN f THEN GivenBack(f[c]) ELSE 0
RunOf(f, c) == IF c \in Runs(f) THEN 1 ELSE 0
Compilers(f) == {c \in DOMAIN f : f[c].status = "WAITFORCHILD"}
Running(f) == Cardinality(Works(f)) + Cardinality(Compilers(f))

\* The sums change by what the one client counts for.
LEMMA Books ==
    ASSUME NEW f, NEW g, NEW c, IsFiniteSet(DOMAIN f), IsFiniteSet(DOMAIN g), SameBut(f, g, c),
           f \in [DOMAIN f -> ClientState], g \in [DOMAIN g -> ClientState]
    PROVE  /\ Cardinality(Children(f)) \in Nat /\ Cardinality(Children(g)) \in Nat
           /\ Cardinality(Children(g)) = Cardinality(Children(f)) - KidOf(f, c) + KidOf(g, c)
           /\ Reserved(f) \in Nat /\ Reserved(g) \in Nat
           /\ Reserved(g) = Reserved(f) - SlotsOf(f, c) + SlotsOf(g, c)
           /\ Running(f) \in Nat /\ Running(g) \in Nat
           /\ Running(g) = Running(f) - RunOf(f, c) + RunOf(g, c)
  <1> DEFINE Half(h) == {d \in Works(h) : ~h[d].fulljob}
             Full(h) == {d \in Works(h) : h[d].fulljob}
  <1>1. /\ IsFiniteSet(Children(f)) /\ IsFiniteSet(Works(f)) /\ IsFiniteSet(Compilers(f))
        /\ IsFiniteSet(Half(f)) /\ IsFiniteSet(Full(f))
    BY FS_Subset DEF Children, Works, Compilers
  <1>2. /\ IsFiniteSet(Children(g)) /\ IsFiniteSet(Works(g)) /\ IsFiniteSet(Compilers(g))
        /\ IsFiniteSet(Half(g)) /\ IsFiniteSet(Full(g))
    BY FS_Subset DEF Children, Works, Compilers
  <1>3. /\ Children(f) \ {c} = Children(g) \ {c}
        /\ Works(f) \ {c} = Works(g) \ {c}
        /\ Compilers(f) \ {c} = Compilers(g) \ {c}
        /\ Half(f) \ {c} = Half(g) \ {c}
        /\ Full(f) \ {c} = Full(g) \ {c}
    BY DEF SameBut, Children, Works, Compilers
  <1>4. /\ Cardinality(Children(f)) \in Nat /\ Cardinality(Children(g)) \in Nat
        /\ Cardinality(Children(g)) = Cardinality(Children(f)) - KidOf(f, c) + KidOf(g, c)
    <2>1. /\ Cardinality(Children(f)) \in Nat /\ Cardinality(Children(g)) \in Nat
          /\ Cardinality(Children(g)) = Cardinality(Children(f)) - (IF c \in Children(f) THEN 1 ELSE 0)
                                          + (IF c \in Children(g) THEN 1 ELSE 0)
      BY <1>1, <1>2, <1>3, OneDifference
    <2>2. /\ KidOf(f, c) = IF c \in Children(f) THEN 1 ELSE 0
          /\ KidOf(g, c) = IF c \in Children(g) THEN 1 ELSE 0
      BY DEF KidOf, Kid, Children
    <2> QED BY <2>1, <2>2
  <1>5. /\ Cardinality(Works(f)) \in Nat /\ Cardinality(Works(g)) \in Nat
        /\ Cardinality(Works(g)) = Cardinality(Works(f)) - (IF c \in Works(f) THEN 1 ELSE 0)
                                     + (IF c \in Works(g) THEN 1 ELSE 0)
    BY <1>1, <1>2, <1>3, OneDifference
  <1>6. /\ Cardinality(Compilers(f)) \in Nat /\ Cardinality(Compilers(g)) \in Nat
        /\ Cardinality(Compilers(g)) = Cardinality(Compilers(f)) - (IF c \in Compilers(f) THEN 1 ELSE 0)
                                         + (IF c \in Compilers(g) THEN 1 ELSE 0)
    BY <1>1, <1>2, <1>3, OneDifference
  <1>7. \A h \in {f, g} : RunOf(h, c) = (IF c \in Works(h) THEN 1 ELSE 0) + (IF c \in Compilers(h) THEN 1 ELSE 0)
    BY DEF RunOf, Runs, Works, Compilers
  <1>8. /\ Running(f) \in Nat /\ Running(g) \in Nat
        /\ Running(g) = Running(f) - RunOf(f, c) + RunOf(g, c)
    BY <1>5, <1>6, <1>7 DEF Running
  <1>9. /\ Cardinality(Half(f)) \in Nat /\ Cardinality(Half(g)) \in Nat
        /\ Cardinality(Half(g)) = Cardinality(Half(f)) - (IF c \in Half(f) THEN 1 ELSE 0)
                                    + (IF c \in Half(g) THEN 1 ELSE 0)
    BY <1>1, <1>2, <1>3, OneDifference
  <1>10. /\ Cardinality(Full(f)) \in Nat /\ Cardinality(Full(g)) \in Nat
         /\ Cardinality(Full(g)) = Cardinality(Full(f)) - (IF c \in Full(f) THEN 1 ELSE 0)
                                     + (IF c \in Full(g) THEN 1 ELSE 0)
    BY <1>1, <1>2, <1>3, OneDifference
  <1>11. /\ Reserved(f) = Cardinality(Half(f)) + Slots * Cardinality(Full(f))
         /\ Reserved(g) = Cardinality(Half(g)) + Slots * Cardinality(Full(g))
    BY DEF Reserved
  <1>12. /\ SlotsOf(f, c) = (IF c \in Half(f) THEN 1 ELSE 0) + Slots * (IF c \in Full(f) THEN 1 ELSE 0)
         /\ SlotsOf(g, c) = (IF c \in Half(g) THEN 1 ELSE 0) + Slots * (IF c \in Full(g) THEN 1 ELSE 0)
    BY SlotsPositive DEF SlotsOf, GivenBack, Weight, Works
  <1> HIDE DEF Half, Full
  <1> DEFINE ff == IF c \in Full(f) THEN 1 ELSE 0
             gg == IF c \in Full(g) THEN 1 ELSE 0
             nf == Cardinality(Full(f))
             ng == Cardinality(Full(g))
  <1>13. ff \in 0 .. 1 /\ gg \in 0 .. 1 /\ nf \in Nat /\ ng \in Nat /\ ng = nf - ff + gg
    BY <1>10
  <1>14. /\ SlotsOf(f, c) = (IF c \in Half(f) THEN 1 ELSE 0) + Slots * ff
         /\ SlotsOf(g, c) = (IF c \in Half(g) THEN 1 ELSE 0) + Slots * gg
         /\ Reserved(f) = Cardinality(Half(f)) + Slots * nf
         /\ Reserved(g) = Cardinality(Half(g)) + Slots * ng
    BY <1>11, <1>12
  <1> HIDE DEF ff, gg, nf, ng
  <1>15. Slots * ng = Slots * nf - Slots * ff + Slots * gg
    BY <1>13, SlotsPositive
  <1>16. Slots * nf \in Nat /\ Slots * ng \in Nat /\ Slots * ff \in Nat /\ Slots * gg \in Nat
    BY <1>13, SlotsPositive
  <1>17. /\ Reserved(f) \in Nat /\ Reserved(g) \in Nat
         /\ Reserved(g) = Reserved(f) - SlotsOf(f, c) + SlotsOf(g, c)
    BY <1>9, <1>14, <1>15, <1>16
  <1> QED BY <1>4, <1>8, <1>17

\* Clients are finitely many.
LEMMA FiniteClients ==
    ASSUME NEW id \in Nat, NEW S, S \subseteq 1 .. id
    PROVE  IsFiniteSet(S)
  <1>1. IsFiniteSet(1 .. id)
    BY FS_Interval
  <1> QED BY <1>1, FS_Subset

\* A client changes.
LEMMA ChangeSound ==
    ASSUME NEW cl, NEW kids, NEW active, NEW id, Sound(cl, kids, active, id),
           NEW c \in DOMAIN cl, NEW r, Good(r), NEW kids2 \in Int, NEW active2 \in Int,
           kids2 - Kid(r) >= kids - Kid(cl[c]),
           active2 - GivenBack(r) >= active - GivenBack(cl[c])
    PROVE  Sound([cl EXCEPT ![c] = r], kids2, active2, id)
  <1> DEFINE g == [cl EXCEPT ![c] = r]
  <1>1. IsFiniteSet(DOMAIN cl)
    BY ClientBound, FiniteClients DEF Sound
  <1>2. DOMAIN g = DOMAIN cl /\ g[c] = r /\ \A d \in DOMAIN cl \ {c} : g[d] = cl[d]
    BY DEF Sound
  <1>3. g \in [DOMAIN g -> ClientState] /\ SameBut(cl, g, c) /\ \A d \in DOMAIN g : Good(g[d])
    BY DEF Sound, Good, SameBut
  <1> HIDE DEF g
  <1>4. /\ SlotsOf(cl, c) = GivenBack(cl[c]) /\ SlotsOf(g, c) = GivenBack(r)
        /\ KidOf(cl, c) = Kid(cl[c]) /\ KidOf(g, c) = Kid(r)
    BY <1>2 DEF SlotsOf, KidOf
  <1>5. GivenBack(r) \in Nat /\ GivenBack(cl[c]) \in Nat /\ Kid(cl[c]) \in Nat /\ Kid(r) \in Nat
    BY SlotsPositive DEF GivenBack, Weight, Kid
  <1>6. kids2 \in Nat /\ kids2 >= Cardinality(Children(g))
    BY <1>1, <1>2, <1>3, <1>4, <1>5, Books DEF Sound
  <1>7. active2 \in Nat /\ active2 >= Reserved(g)
    BY <1>1, <1>2, <1>3, <1>4, <1>5, Books DEF Sound
  <1> QED BY <1>2, <1>3, <1>6, <1>7 DEF Sound, g

\* A client ends.
LEMMA EndSound ==
    ASSUME NEW cl, NEW kids, NEW active, NEW id, Sound(cl, kids, active, id),
           NEW c \in DOMAIN cl, NEW kids2 \in Int, NEW active2 \in Int,
           kids2 >= kids - Kid(cl[c]), active2 >= active - GivenBack(cl[c])
    PROVE  Sound([d \in DOMAIN cl \ {c} |-> cl[d]], kids2, active2, id)
  <1> DEFINE g == [d \in DOMAIN cl \ {c} |-> cl[d]]
  <1>1. IsFiniteSet(DOMAIN cl) /\ IsFiniteSet(DOMAIN cl \ {c})
    BY ClientBound, FiniteClients DEF Sound
  <1>2. DOMAIN g = DOMAIN cl \ {c} /\ \A d \in DOMAIN g : g[d] = cl[d]
    OBVIOUS
  <1>3. g \in [DOMAIN g -> ClientState] /\ SameBut(cl, g, c) /\ \A d \in DOMAIN g : Good(g[d])
    BY DEF Sound, SameBut
  <1> HIDE DEF g
  <1>4. /\ SlotsOf(cl, c) = GivenBack(cl[c]) /\ SlotsOf(g, c) = 0
        /\ KidOf(cl, c) = Kid(cl[c]) /\ KidOf(g, c) = 0
    BY <1>2 DEF SlotsOf, KidOf
  <1>5. GivenBack(cl[c]) \in Nat /\ Kid(cl[c]) \in Nat
    BY SlotsPositive DEF GivenBack, Weight, Kid
  <1>6. kids2 \in Nat /\ kids2 >= Cardinality(Children(g))
    BY <1>1, <1>2, <1>3, <1>4, <1>5, Books DEF Sound
  <1>7. active2 \in Nat /\ active2 >= Reserved(g)
    BY <1>1, <1>2, <1>3, <1>4, <1>5, Books DEF Sound
  <1> QED BY <1>2, <1>3, <1>6, <1>7 DEF Sound, g

\* No clients.
LEMMA NobodySound ==
    ASSUME NEW kids \in Nat, NEW active \in Nat
    PROVE  Sound(NoClients, kids, active, 0)
  <1>1. DOMAIN NoClients = {} /\ NoClients \in [DOMAIN NoClients -> ClientState]
    BY DEF NoClients
  <1>2. Children(NoClients) = {} /\ Works(NoClients) = {}
    BY <1>1 DEF Children, Works
  <1>3. /\ {c \in Works(NoClients) : ~NoClients[c].fulljob} = {}
        /\ {c \in Works(NoClients) : NoClients[c].fulljob} = {}
    BY <1>2
  <1>4. Cardinality({}) = 0
    BY FS_EmptySet
  <1>5. Cardinality(Children(NoClients)) = 0 /\ Reserved(NoClients) = 0
    BY <1>2, <1>3, <1>4, SlotsPositive DEF Reserved
  <1> QED BY <1>1, <1>5, ClientBound DEF Sound

-----------------------------------------------------------------------------
(* What the scheduler knows *)

\* The effects of the daemon's messages keep the types.
LEMMA KnownTypes ==
    ASSUME known \in Knowledge, NEW c \in ClientId, NEW j \in Nat
    PROVE  /\ Cancelled(c) \in Knowledge
           /\ JobDone(j) \in Knowledge
           /\ HandedOver(j) \in Knowledge
           /\ LocalBegun(c) \in Knowledge
           /\ LocalDone(c) \in Knowledge
  <1>1. Cancelled(c) \in Knowledge
    BY DEF Cancelled, Knowledge
  <1>2. JobDone(j) \in Knowledge
    BY DEF JobDone, Knowledge
  <1>3. HandedOver(j) \in Knowledge
    BY DEF HandedOver, Knowledge
  <1>4. LocalBegun(c) \in Knowledge
    BY DEF LocalBegun, Knowledge
  <1>5. LocalDone(c) \in Knowledge
    BY DEF LocalDone, Knowledge
  <1> QED BY <1>1, <1>2, <1>3, <1>4, <1>5

\* A connection that ends leaves nothing.
LEMMA ForgottenTypes ==
    ASSUME known \in Knowledge
    PROVE  Forgotten(known) \in Knowledge /\ Quiet(Forgotten(known))
  BY DEF Forgotten, Knowledge, Quiet

\* Who knows nothing has nothing wrong.
LEMMA QuietLinked ==
    ASSUME NEW cl, NEW k, NEW id, Quiet(k)
    PROVE  Linked(cl, k, id)
  BY DEF Quiet, Linked

\* A client changes.
LEMMA ChangeLinked ==
    ASSUME NEW cl, NEW k, NEW id, Linked(cl, k, id), NEW c \in DOMAIN cl, NEW r,
           Served(cl[c]) => Served(r), WorksLocally(cl[c]) => WorksLocally(r)
    PROVE  Linked([cl EXCEPT ![c] = r], k, id)
  <1> DEFINE g == [cl EXCEPT ![c] = r]
  <1>1. DOMAIN g = DOMAIN cl /\ \A d \in DOMAIN cl : g[d] = IF d = c THEN r ELSE cl[d]
    OBVIOUS
  <1> HIDE DEF g
  <1>2. Linked(g, k, id)
    BY <1>1 DEF Linked
  <1> QED BY <1>2 DEF g

\* A client ends.
LEMMA EndLinked ==
    ASSUME NEW cl, NEW k, NEW id, Linked(cl, k, id), NEW c \in DOMAIN cl, c \notin k.locals
    PROVE  Linked([d \in DOMAIN cl \ {c} |-> cl[d]], k, id)
  BY DEF Linked

\* The scheduler is through with some of what it knew.
LEMMA LessLinked ==
    ASSUME NEW cl, NEW k, NEW m, NEW id, Linked(cl, k, id),
           m.waiting \subseteq k.waiting, m.inbox \subseteq k.inbox, m.locals \subseteq k.locals
    PROVE  Linked(cl, m, id)
  BY DEF Linked

-----------------------------------------------------------------------------
(* The ends of handlers *)

\* All clients are gone and so is the connection.
LEMMA ClearedInv ==
    ASSUME known \in Knowledge, scheduler' = FALSE, known' = Forgotten(known), clients' = NoClients,
           current_kids' = 0, active_processes' \in Nat, new_client_id' = 0,
           phase' \in {"loop", "old", "poll"}, loaded' \in BOOLEAN
    PROVE  DaemonInv'
  <1>1. Types' /\ Offline'
    BY ForgottenTypes DEF Types, Offline
  <1>2. Sound(clients', current_kids', active_processes', new_client_id')
    BY NobodySound
  <1>3. Linked(clients', known', new_client_id')
    BY ForgottenTypes, QuietLinked
  <1> QED BY <1>1, <1>2, <1>3 DEF DaemonInv

\* A handler that leaves sound clients and counters, and a scheduler that knows of them.
LEMMA FinishInv ==
    ASSUME DaemonInv, NEW cl, NEW kids, NEW active, NEW sends, NEW k, NEW sent, NEW clears,
           Finish(cl, kids, active, sends, k, sent, clears),
           Sound(cl, kids, active, new_client_id),
           scheduler => k \in Knowledge /\ Linked(cl, k, new_client_id),
           phase' \in {"loop", "old", "poll"}, loaded' \in BOOLEAN
    PROVE  DaemonInv'
  <1>1. known \in Knowledge /\ scheduler \in BOOLEAN
    BY DEF DaemonInv, Types
  <1>2. CASE sends /\ scheduler /\ ~sent
    <2>1. CASE clears
      <3>1. active - Reserved(cl) \in Nat
        <4>1. IsFiniteSet(DOMAIN cl)
          BY ClientBound, FiniteClients DEF Sound
        <4>2. Reserved(cl) \in Nat
          BY <4>1, Books DEF Sound, SameBut
        <4> QED BY <4>2 DEF Sound
      <3> QED BY <1>1, <1>2, <2>1, <3>1, ClearedInv DEF Finish
    <2>2. CASE ~clears
      <3>1. /\ scheduler' = FALSE /\ known' = Forgotten(known) /\ clients' = cl /\ current_kids' = kids
            /\ active_processes' = active /\ new_client_id' = new_client_id
        BY <1>2, <2>2 DEF Finish
      <3>2. Types' /\ Offline'
        BY <1>1, <3>1, ForgottenTypes DEF Types, Offline
      <3>3. Linked(clients', known', new_client_id')
        BY <1>1, <3>1, ForgottenTypes, QuietLinked
      <3> QED BY <3>1, <3>2, <3>3 DEF DaemonInv
    <2> QED BY <2>1, <2>2
  <1>3. CASE ~(sends /\ scheduler /\ ~sent)
    <2>1. /\ known' = IF scheduler THEN k ELSE known
          /\ clients' = cl /\ current_kids' = kids /\ active_processes' = active
          /\ scheduler' = scheduler /\ new_client_id' = new_client_id
      BY <1>3 DEF Finish
    <2>2. Types' /\ Offline'
      BY <1>1, <2>1 DEF Types, Offline, DaemonInv
    <2>3. Linked(clients', known', new_client_id')
      <3>1. CASE scheduler
        BY <2>1, <3>1
      <3>2. CASE ~scheduler
        BY <2>1, <3>2, QuietLinked DEF DaemonInv, Offline
      <3> QED BY <3>1, <3>2
    <2> QED BY <2>1, <2>2, <2>3 DEF DaemonInv
  <1> QED BY <1>2, <1>3

\* What the invariant says of one client.
LEMMA OneClient ==
    ASSUME DaemonInv, NEW c \in DOMAIN clients
    PROVE  /\ clients[c] \in ClientState /\ Good(clients[c])
           /\ c \in ClientId /\ c \in 1 .. new_client_id
           /\ GivenBack(clients[c]) \in Nat /\ Kid(clients[c]) \in 0 .. 1
  <1>1. c \in ClientId /\ c \in 1 .. new_client_id
    BY ClientBound DEF DaemonInv, Sound, ClientId
  <1>2. Good(clients[c])
    BY DEF DaemonInv, Sound
  <1>3. GivenBack(clients[c]) \in Nat /\ Kid(clients[c]) \in 0 .. 1
    BY SlotsPositive DEF GivenBack, Weight, Kid
  <1> QED BY <1>1, <1>2, <1>3 DEF Good

\* A handler that changes one client, which stays with what the scheduler knows of it.
LEMMA ChangeInv ==
    ASSUME DaemonInv, NEW c \in DOMAIN clients, NEW r, Good(r), NEW kids \in Int, NEW active \in Int,
           kids - Kid(r) >= current_kids - Kid(clients[c]),
           active - GivenBack(r) >= active_processes - GivenBack(clients[c]),
           Served(clients[c]) => Served(r), WorksLocally(clients[c]) => WorksLocally(r),
           NEW sends, NEW k, NEW sent, NEW clears,
           Finish(Changes(c, r), kids, active, sends, k, sent, clears),
           scheduler => k \in Knowledge /\ Linked(clients, k, new_client_id),
           phase' \in {"loop", "old", "poll"}, loaded' \in BOOLEAN
    PROVE  DaemonInv'
  <1> DEFINE cl == Changes(c, r)
  <1>1. Sound(cl, kids, active, new_client_id)
    BY ChangeSound DEF DaemonInv, Changes
  <1>2. scheduler => k \in Knowledge /\ Linked(cl, k, new_client_id)
    BY ChangeLinked DEF Changes
  <1> HIDE DEF cl
  <1>3. Finish(cl, kids, active, sends, k, sent, clears)
    BY DEF cl
  <1> QED BY <1>1, <1>2, <1>3, FinishInv

\* A handler that changes one client, and sends nothing.
LEMMA BecomesInv ==
    ASSUME DaemonInv, NEW c \in DOMAIN clients, NEW r, Good(r), Becomes(c, r),
           Kid(r) <= Kid(clients[c]), GivenBack(r) <= GivenBack(clients[c]),
           Kid(r) \in Nat, GivenBack(r) \in Nat,
           Served(clients[c]) => Served(r), WorksLocally(clients[c]) => WorksLocally(r),
           phase' \in {"loop", "old", "poll"}, loaded' \in BOOLEAN
    PROVE  DaemonInv'
  <1>1. Finish(Changes(c, r), current_kids, active_processes, FALSE, known, TRUE, FALSE)
    BY DEF Becomes, Finish
  <1>2. current_kids \in Nat /\ active_processes \in Nat
    BY DEF DaemonInv, Sound
  <1>3. Kid(clients[c]) \in Nat /\ GivenBack(clients[c]) \in Nat
    BY OneClient
  <1>4. /\ current_kids - Kid(r) >= current_kids - Kid(clients[c])
        /\ active_processes - GivenBack(r) >= active_processes - GivenBack(clients[c])
    BY <1>2, <1>3
  <1>5. known \in Knowledge /\ Linked(clients, known, new_client_id)
    BY DEF DaemonInv, Types
  <1>6. current_kids \in Int /\ active_processes \in Int
    BY <1>2
  <1> QED BY <1>1, <1>4, <1>5, <1>6, ChangeInv

\* A handler after which the clients and counters are as before.
LEMMA TellsInv ==
    ASSUME DaemonInv, NEW sends, NEW sent, NEW clears,
           Finish(clients, current_kids, active_processes, sends, known, sent, clears),
           phase' \in {"loop", "old", "poll"}, loaded' \in BOOLEAN
    PROVE  DaemonInv'
  BY FinishInv DEF DaemonInv, Types

\* What handle_end reports: nothing that is not about client c, and no local job of c is left.
LEMMA ReportKnown ==
    ASSUME DaemonInv, NEW c \in DOMAIN clients, NEW goodbye \in BOOLEAN
    PROVE  /\ Report(c, goodbye) \in Knowledge
           /\ Report(c, goodbye).waiting \subseteq known.waiting
           /\ Report(c, goodbye).inbox = known.inbox
           /\ Report(c, goodbye).locals \subseteq known.locals
           /\ c \notin Report(c, goodbye).locals
  <1>1. known \in Knowledge /\ clients[c] \in ClientState /\ c \in ClientId
    BY OneClient DEF DaemonInv, Types
  <1>2. clients[c].job_id \in Nat /\ clients[c].job \in Nat
    BY <1>1 DEF ClientState
  <1>3. EndJobId(c, goodbye) \in Nat
    BY <1>2 DEF EndJobId
  <1>4. Report(c, goodbye) \in Knowledge
    BY <1>1, <1>2, <1>3, KnownTypes DEF Report
  <1>5. c \in known.locals => WorksLocally(clients[c])
    BY DEF DaemonInv, Linked
  <1>6. /\ Cancelled(c).waiting \subseteq known.waiting /\ Cancelled(c).inbox = known.inbox
        /\ Cancelled(c).locals = known.locals
    BY <1>1 DEF Cancelled, Knowledge
  <1>7. \A j \in Nat : /\ JobDone(j).waiting = known.waiting /\ JobDone(j).inbox = known.inbox
                        /\ JobDone(j).locals = known.locals
    BY <1>1 DEF JobDone, Knowledge
  <1>8. \A j \in Nat : /\ HandedOver(j).waiting = known.waiting /\ HandedOver(j).inbox = known.inbox
                        /\ HandedOver(j).locals = known.locals
    BY <1>1 DEF HandedOver, Knowledge
  <1>9. /\ LocalDone(c).waiting = known.waiting /\ LocalDone(c).inbox = known.inbox
        /\ LocalDone(c).locals = known.locals \ {c}
    BY <1>1 DEF LocalDone, Knowledge
  <1>10. WorksLocally(clients[c]) => Report(c, goodbye) = LocalDone(c)
    BY DEF WorksLocally, Report, EndJobId
  <1>11. CASE WorksLocally(clients[c])
    BY <1>4, <1>9, <1>10, <1>11
  <1>12. CASE ~WorksLocally(clients[c])
    <2>1. Report(c, goodbye) \in {Cancelled(c), HandedOver(clients[c].job_id), JobDone(EndJobId(c, goodbye)),
                                  LocalDone(c), known}
      BY DEF Report
    <2>2. c \notin known.locals
      BY <1>5, <1>12
    <2> QED BY <1>2, <1>3, <1>4, <1>6, <1>7, <1>8, <1>9, <2>1, <2>2
  <1> QED BY <1>11, <1>12

\* handle_end
LEMMA HandleEndInv ==
    ASSUME DaemonInv, NEW c \in DOMAIN clients, NEW goodbye \in BOOLEAN, NEW sent, NEW clears,
           handle_end(c, goodbye, sent, clears), phase' \in {"loop", "old", "poll"}
    PROVE  DaemonInv'
  <1> DEFINE kids == current_kids - (IF Installing(c) /\ clients[c].child THEN 1 ELSE 0)
             active == active_processes - GivenBack(clients[c])
             k == Report(c, goodbye)
  <1>1. Finish(Others(c), kids, active, EndSends(c, goodbye), k, sent, clears)
    BY DEF handle_end
  <1>2. current_kids \in Nat /\ active_processes \in Nat /\ loaded \in BOOLEAN /\ GivenBack(clients[c]) \in Nat
    BY OneClient DEF DaemonInv, Sound, Types
  <1>3. kids \in Int /\ active \in Int /\ kids >= current_kids - Kid(clients[c])
        /\ active >= active_processes - GivenBack(clients[c])
    BY <1>2 DEF Kid
  <1>4. loaded' \in BOOLEAN
    BY <1>2 DEF handle_end
  <1> HIDE DEF kids, active
  <1>5. Sound(Others(c), kids, active, new_client_id)
    BY <1>3, EndSound DEF DaemonInv, Others
  <1>6. k \in Knowledge /\ Linked(clients, k, new_client_id) /\ c \notin k.locals
    BY ReportKnown, LessLinked DEF DaemonInv
  <1>7. Linked(Others(c), k, new_client_id)
    BY <1>6, EndLinked DEF Others
  <1> HIDE DEF k
  <1> QED BY <1>1, <1>4, <1>5, <1>6, <1>7, FinishInv

-----------------------------------------------------------------------------
(* The handlers keep DaemonInv *)

\* What a reader of the counters needs of them.
LEMMA Counters ==
    ASSUME DaemonInv
    PROVE  /\ current_kids \in Int /\ active_processes \in Int /\ loaded \in BOOLEAN
           /\ phase \in {"loop", "old", "poll"}
           /\ known \in Knowledge /\ Linked(clients, known, new_client_id)
  BY DEF DaemonInv, Sound, Types

\* A client that waits for a local slot.
LEMMA StartLocalInv ==
    ASSUME DaemonInv, NEW c, NEW got \in BOOLEAN, NEW sent \in BOOLEAN, StartLocal(c, got, sent)
    PROVE  DaemonInv'
  <1>1. c \in DOMAIN clients /\ clients[c].status = "LINKJOB"
    BY DEF StartLocal, get_earliest_client
  <1>2. /\ clients[c] \in ClientState /\ Good(clients[c]) /\ c \in ClientId
    BY <1>1, OneClient
  <1>3. phase' \in {"loop", "old", "poll"}
    BY DEF StartLocal
  <1>4. CASE got
    <2> DEFINE r == [clients[c] EXCEPT !.status = "CLIENTWORK"]
               cl == Changes(c, r)
               k == LocalBegun(c)
               active == active_processes + Weight(clients[c])
    <2>1. Finish(cl, current_kids, active, TRUE, k, sent, FALSE) /\ loaded' = loaded
      BY <1>4 DEF StartLocal
    <2>2. /\ Good(r) /\ WorksLocally(r) /\ Kid(r) = Kid(clients[c])
          /\ GivenBack(r) = Weight(clients[c]) /\ GivenBack(clients[c]) = 0 /\ Weight(clients[c]) \in Nat
      BY <1>1, <1>2, SlotsPositive DEF Good, ClientState, Status, HasJob, Early, WorksLocally, Kid, GivenBack, Weight
    <2>3. ~Served(clients[c])
      BY <1>1 DEF Served
    <2>4. k \in Knowledge /\ k.waiting = known.waiting /\ k.inbox = known.inbox /\ k.locals = known.locals \cup {c}
      BY <1>2, Counters, KnownTypes DEF LocalBegun, Knowledge
    <2>5. r.status = "CLIENTWORK"
      BY <1>2 DEF ClientState
    <2> HIDE DEF r, k
    <2>6. DOMAIN cl = DOMAIN clients /\ \A d \in DOMAIN clients : cl[d] = IF d = c THEN r ELSE clients[d]
      BY DEF Changes
    <2>7. Linked(cl, k, new_client_id)
      <3> HIDE DEF cl
      <3>1. Linked(clients, known, new_client_id)
        BY Counters
      <3> QED BY <1>1, <2>2, <2>3, <2>4, <2>6, <3>1 DEF Linked
    <2>8. active \in Int /\ active - GivenBack(r) >= active_processes - GivenBack(clients[c])
      BY <2>2, Counters
    <2>9. current_kids \in Int /\ Kid(clients[c]) \in Int
      BY Counters DEF Kid
    <2>10. current_kids - Kid(r) >= current_kids - Kid(clients[c])
      BY <2>2, <2>9
    <2> HIDE DEF active
    <2>11. Sound(cl, current_kids, active, new_client_id)
      BY <1>1, <2>2, <2>8, <2>9, <2>10, ChangeSound DEF DaemonInv, Changes
    <2> HIDE DEF cl
    <2>12. loaded' \in BOOLEAN
      BY <2>1, Counters
    <2> QED BY <1>3, <2>1, <2>4, <2>7, <2>11, <2>12, FinishInv
  <1>5. CASE ~got
    <2>1. handle_end(c, FALSE, sent, FALSE)
      BY <1>5 DEF StartLocal
    <2> QED BY <1>1, <1>3, <2>1, HandleEndInv
  <1> QED BY <1>4, <1>5

\* A client that was told to compile itself.
LEMMA StartPendingInv ==
    ASSUME DaemonInv, NEW c, NEW got \in BOOLEAN, NEW sent \in BOOLEAN, StartPending(c, got, sent)
    PROVE  DaemonInv'
  <1>1. c \in DOMAIN clients /\ clients[c].status = "PENDING_USE_CS"
    BY DEF StartPending, get_earliest_client
  <1>2. /\ clients[c] \in ClientState /\ Good(clients[c])
    BY <1>1, OneClient
  <1>3. phase' \in {"loop", "old", "poll"}
    BY Counters DEF StartPending
  <1>4. CASE got
    <2> DEFINE r == [clients[c] EXCEPT !.status = "CLIENTWORK",
                                       !.told = clients[c].told \cup {clients[c].job_id}]
               active == active_processes + 1
    <2>1. Finish(Changes(c, r), current_kids, active, FALSE, known, sent, FALSE) /\ loaded' = loaded
      BY <1>4 DEF StartPending
    <2>2. /\ r \in ClientState /\ r.status = "CLIENTWORK" /\ r.child = clients[c].child
          /\ r.fulljob = clients[c].fulljob /\ r.job_id = clients[c].job_id
      BY <1>2 DEF ClientState, Status
    <2> HIDE DEF r
    <2>5. Good(r) /\ Served(r)
      BY <1>1, <1>2, <2>2 DEF Good, HasJob, Early, Served, ClientState
    <2>6. /\ Kid(r) = Kid(clients[c]) /\ GivenBack(r) = 1 /\ GivenBack(clients[c]) = 0 /\ Kid(r) \in Int
      BY <1>1, <1>2, <2>2 DEF Good, Kid, GivenBack, Weight
    <2>7. ~WorksLocally(clients[c])
      BY <1>1 DEF WorksLocally
    <2>3. /\ active \in Int /\ current_kids \in Int
          /\ active - GivenBack(r) >= active_processes - GivenBack(clients[c])
          /\ current_kids - Kid(r) >= current_kids - Kid(clients[c])
      BY <2>6, Counters
    <2>4. loaded' \in BOOLEAN /\ known \in Knowledge /\ Linked(clients, known, new_client_id)
      BY <2>1, Counters
    <2> HIDE DEF active
    <2> QED BY <1>1, <1>3, <2>1, <2>3, <2>4, <2>5, <2>7, ChangeInv
  <1>5. CASE ~got
    <2>1. handle_end(c, FALSE, sent, FALSE)
      BY <1>5 DEF StartPending
    <2> QED BY <1>1, <1>3, <2>1, HandleEndInv
  <1> QED BY <1>4, <1>5

\* A client of another machine.
LEMMA StartCompileInv ==
    ASSUME DaemonInv, NEW c, NEW forked \in BOOLEAN, NEW sent \in BOOLEAN, StartCompile(c, forked, sent)
    PROVE  DaemonInv'
  <1>1. c \in DOMAIN clients /\ clients[c].status = "TOCOMPILE"
    BY DEF StartCompile, get_earliest_client
  <1>2. /\ clients[c] \in ClientState /\ Good(clients[c])
    BY <1>1, OneClient
  <1>3. phase' \in {"loop", "old", "poll"}
    BY Counters DEF StartCompile
  <1>4. CASE forked
    <2> DEFINE r == [clients[c] EXCEPT !.status = "WAITFORCHILD", !.child = TRUE]
               kids == current_kids + 1
    <2>1. Finish(Changes(c, r), kids, active_processes, TRUE, known, sent, FALSE) /\ loaded' = loaded
      BY <1>4 DEF StartCompile
    <2>2. /\ r \in ClientState /\ r.status = "WAITFORCHILD" /\ r.child = TRUE
          /\ r.fulljob = clients[c].fulljob /\ r.job_id = clients[c].job_id
      BY <1>2 DEF ClientState, Status
    <2> HIDE DEF r
    <2>3. Good(r) /\ (Served(clients[c]) => Served(r))
      BY <1>1, <1>2, <2>2 DEF Good, HasJob, Early, Served, ClientState
    <2>6. /\ Kid(r) = 1 /\ Kid(clients[c]) \in 0 .. 1 /\ GivenBack(r) = 0 /\ GivenBack(clients[c]) = 0
      BY <1>1, <2>2 DEF Kid, GivenBack
    <2>7. ~WorksLocally(clients[c])
      BY <1>1 DEF WorksLocally
    <2>4. /\ active_processes \in Int /\ kids \in Int
          /\ active_processes - GivenBack(r) >= active_processes - GivenBack(clients[c])
          /\ kids - Kid(r) >= current_kids - Kid(clients[c])
      BY <2>6, Counters
    <2>5. loaded' \in BOOLEAN /\ known \in Knowledge /\ Linked(clients, known, new_client_id)
      BY <2>1, Counters
    <2> HIDE DEF kids
    <2> QED BY <1>1, <1>3, <2>1, <2>3, <2>4, <2>5, <2>7, ChangeInv
  <1>5. CASE ~forked
    <2>1. handle_end(c, FALSE, sent, FALSE)
      BY <1>5 DEF StartCompile
    <2> QED BY <1>1, <1>3, <2>1, HandleEndInv
  <1> QED BY <1>4, <1>5

\* The daemon dies.
LEMMA CrashInv ==
    ASSUME DaemonInv, Crash
    PROVE  DaemonInv'
  <1>1. known \in Knowledge
    BY Counters
  <1>2. /\ scheduler' = FALSE /\ known' = Forgotten(known) /\ clients' = NoClients
        /\ current_kids' = 0 /\ active_processes' \in Nat /\ new_client_id' = 0
        /\ phase' \in {"loop", "old", "poll"} /\ loaded' \in BOOLEAN
    BY DEF Crash
  <1> QED BY <1>1, <1>2, ClearedInv

\* Only the scheduler's knowledge changes.
LEMMA KnownInv ==
    ASSUME DaemonInv, known' \in Knowledge, Linked(clients, known', new_client_id), scheduler,
           UNCHANGED <<phase, scheduler, clients, current_kids, active_processes, new_client_id, loaded>>
    PROVE  DaemonInv'
  <1>1. Types' /\ Offline'
    BY DEF DaemonInv, Types, Offline
  <1> QED BY <1>1 DEF DaemonInv

\* The scheduler finds a server.
LEMMA SchedulerAnswersInv ==
    ASSUME DaemonInv, NEW w, NEW here \in BOOLEAN, SchedulerAnswers(w, here)
    PROVE  DaemonInv'
  <1> DEFINE a == [job |-> known.last + 1, client |-> w[1], here |-> here]
             k == [known EXCEPT !.waiting = known.waiting \ {w}, !.given = known.given \cup {a},
                                !.inbox = known.inbox \cup {a}, !.last = known.last + 1]
  <1>1. known \in Knowledge /\ Linked(clients, known, new_client_id) /\ w \in known.waiting
    BY Counters DEF SchedulerAnswers
  <1>2. w[1] \in Nat /\ known.last + 1 \in Nat /\ known.last + 1 > 0
    BY <1>1, ClientBound DEF Knowledge, ClientId
  <1>3. a \in Answer /\ a.job > 0 /\ a.client = w[1]
    BY <1>2 DEF Answer
  <1> HIDE DEF a
  <1>4. /\ k \in Knowledge /\ k.waiting = known.waiting \ {w} /\ k.inbox = known.inbox \cup {a}
        /\ k.locals = known.locals
    BY <1>1, <1>2, <1>3 DEF Knowledge
  <1>5. /\ known' = k /\ scheduler
        /\ UNCHANGED <<phase, scheduler, clients, current_kids, active_processes, new_client_id, loaded>>
    BY DEF SchedulerAnswers, a
  <1> HIDE DEF k
  <1>6. Linked(clients, k, new_client_id)
    BY <1>1, <1>3, <1>4 DEF Linked
  <1> QED BY <1>4, <1>5, <1>6, KnownInv

\* Reading an answer, or the end of a job, leaves no more than there was.
LEMMA ReadKnown ==
    ASSUME DaemonInv, NEW a, NEW j \in Nat
    PROVE  /\ Read(a, known) \in Knowledge /\ Linked(clients, Read(a, known), new_client_id)
           /\ JobDone(j) \in Knowledge /\ Linked(clients, JobDone(j), new_client_id)
           /\ Read(a, JobDone(j)) \in Knowledge /\ Linked(clients, Read(a, JobDone(j)), new_client_id)
  <1>1. known \in Knowledge /\ Linked(clients, known, new_client_id)
    BY Counters
  <1>2. \A k \in Knowledge : /\ Read(a, k) \in Knowledge /\ Read(a, k).waiting = k.waiting
                              /\ Read(a, k).inbox \subseteq k.inbox /\ Read(a, k).locals = k.locals
    BY DEF Read, Knowledge
  <1>3. /\ JobDone(j) \in Knowledge /\ JobDone(j).waiting = known.waiting
        /\ JobDone(j).inbox = known.inbox /\ JobDone(j).locals = known.locals
    BY <1>1 DEF JobDone, Knowledge
  <1>4. Linked(clients, Read(a, known), new_client_id)
    BY <1>1, <1>2, LessLinked
  <1>5. Linked(clients, JobDone(j), new_client_id)
    BY <1>1, <1>3, LessLinked
  <1>6. Linked(clients, Read(a, JobDone(j)), new_client_id)
    BY <1>2, <1>3, <1>5, LessLinked
  <1> QED BY <1>1, <1>2, <1>3, <1>4, <1>5, <1>6

\* Another daemon reports.
LEMMA RemoteEndsInv ==
    ASSUME DaemonInv, NEW g, RemoteEnds(g)
    PROVE  DaemonInv'
  <1>1. g.job \in Nat
    BY Counters DEF RemoteEnds, Knowledge, Answer
  <1>2. /\ known' = JobDone(g.job) /\ scheduler
        /\ UNCHANGED <<phase, scheduler, clients, current_kids, active_processes, new_client_id, loaded>>
    BY DEF RemoteEnds
  <1> QED BY <1>1, <1>2, ReadKnown, KnownInv

\* The connection is lost and the clients stay.
LEMMA LostInv ==
    ASSUME DaemonInv, known' = Forgotten(known), scheduler' = FALSE, phase' \in {"loop", "old", "poll"},
           UNCHANGED <<clients, current_kids, active_processes, new_client_id, loaded>>
    PROVE  DaemonInv'
  <1>1. known' \in Knowledge /\ Quiet(known')
    BY Counters, ForgottenTypes
  <1>2. Types' /\ Offline'
    BY <1>1, Counters DEF Types, Offline
  <1>3. Linked(clients', known', new_client_id')
    BY <1>1, QuietLinked
  <1> QED BY <1>2, <1>3 DEF DaemonInv

\* An answer for a client that is gone.
LEMMA GiveUpInv ==
    ASSUME DaemonInv, NEW a \in known.inbox, NEW sent \in BOOLEAN, scheduler, GiveUp(a, sent)
    PROVE  DaemonInv'
  <1>1. a.job \in Nat
    BY Counters DEF Knowledge, Answer
  <1>2. CASE sent
    <2>1. /\ known' = Read(a, JobDone(a.job))
          /\ UNCHANGED <<phase, scheduler, clients, current_kids, active_processes, new_client_id, loaded>>
      BY <1>2 DEF GiveUp
    <2> QED BY <1>1, <2>1, ReadKnown, KnownInv
  <1>3. CASE ~sent
    BY <1>3, LostInv DEF GiveUp
  <1> QED BY <1>2, <1>3

\* The client that an answer is for.
LEMMA AnswerFor ==
    ASSUME DaemonInv, NEW a \in known.inbox, a.client \in DOMAIN clients
    PROVE  /\ clients[a.client] \in ClientState /\ Good(clients[a.client]) /\ Served(clients[a.client])
           /\ ~WorksLocally(clients[a.client]) /\ a.job \in Nat /\ a.job > 0
  <1>1. Served(clients[a.client]) /\ a.job > 0
    BY DEF DaemonInv, Linked
  <1>2. ~WorksLocally(clients[a.client])
    BY <1>1 DEF Served, WorksLocally
  <1>3. a.job \in Nat
    BY Counters DEF Knowledge, Answer
  <1> QED BY <1>1, <1>2, <1>3, OneClient

\* An answer changes its client.
LEMMA AnswerInv ==
    ASSUME DaemonInv, NEW a \in known.inbox, a.client \in DOMAIN clients, scheduler,
           NEW st \in {"PENDING_USE_CS", "WAITCOMPILE"},
           clients' = Changes(a.client, [clients[a.client] EXCEPT !.status = st, !.job_id = a.job]),
           known' = Read(a, known),
           UNCHANGED <<phase, scheduler, current_kids, active_processes, new_client_id, loaded>>
    PROVE  DaemonInv'
  <1> DEFINE c == a.client
             r == [clients[c] EXCEPT !.status = st, !.job_id = a.job]
  <1>1. /\ clients[c] \in ClientState /\ Good(clients[c]) /\ Served(clients[c])
        /\ ~WorksLocally(clients[c]) /\ a.job \in Nat /\ a.job > 0
    BY AnswerFor
  <1>2. /\ r \in ClientState /\ r.status = st /\ r.job_id = a.job /\ r.fulljob = clients[c].fulljob
        /\ r.child = clients[c].child
    BY <1>1 DEF ClientState, Status
  <1> DEFINE k == Read(a, known)
  <1>3. Finish(Changes(c, r), current_kids, active_processes, FALSE, k, TRUE, FALSE)
    BY DEF Finish
  <1>4. k \in Knowledge /\ Linked(clients, k, new_client_id)
    BY <1>1, ReadKnown
  <1> HIDE DEF r, k
  <1>5. Good(r) /\ Served(r)
    BY <1>1, <1>2 DEF Good, Served, HasJob, Early
  <1>6. Kid(r) = Kid(clients[c]) /\ GivenBack(r) = 0 /\ GivenBack(clients[c]) \in Nat /\ Kid(r) \in Int
    BY <1>2, SlotsPositive DEF Kid, GivenBack, Weight
  <1>7. /\ current_kids \in Int /\ active_processes \in Int
        /\ current_kids - Kid(r) >= current_kids - Kid(clients[c])
        /\ active_processes - GivenBack(r) >= active_processes - GivenBack(clients[c])
    BY <1>6, Counters
  <1>8. c \in DOMAIN clients /\ phase' \in {"loop", "old", "poll"} /\ loaded' \in BOOLEAN
    BY Counters
  <1> HIDE DEF c
  <1> QED BY <1>1, <1>3, <1>4, <1>5, <1>7, <1>8, ChangeInv

\* The job is compiled here.
LEMMA CompileHereInv ==
    ASSUME DaemonInv, NEW a \in known.inbox, scheduler, CompileHere(a)
    PROVE  DaemonInv'
  BY AnswerInv DEF CompileHere

\* The job is compiled on another machine, or its client is gone.
LEMMA CompileThereInv ==
    ASSUME DaemonInv, NEW a \in known.inbox, NEW got \in BOOLEAN, NEW sent \in BOOLEAN, scheduler,
           CompileThere(a, got, sent)
    PROVE  DaemonInv'
  <1> DEFINE c == a.client
  <1>1. c \in DOMAIN clients
    BY DEF CompileThere
  <1>2. CASE got
    BY <1>1, <1>2, AnswerInv DEF CompileThere
  <1>3. CASE ~got /\ (sent \/ ~EndSends(c, FALSE))
    <2> DEFINE active == active_processes - GivenBack(clients[c])
               m == Report(c, FALSE)
               k == Read(a, m)
    <2>1. /\ m \in Knowledge /\ m.waiting \subseteq known.waiting /\ m.inbox = known.inbox
          /\ m.locals \subseteq known.locals /\ c \notin m.locals
      BY <1>1, ReportKnown
    <2> HIDE DEF m
    <2>2. /\ k \in Knowledge /\ k.waiting \subseteq known.waiting /\ k.inbox \subseteq known.inbox
          /\ k.locals \subseteq known.locals /\ c \notin k.locals
      BY <2>1 DEF Read, Knowledge
    <2>3. Finish(Others(c), current_kids, active, FALSE, k, TRUE, FALSE)
      BY <1>3 DEF CompileThere, Finish, m
    <2>4. phase' \in {"loop", "old", "poll"} /\ loaded' \in BOOLEAN
      BY <1>3, Counters DEF CompileThere
    <2> HIDE DEF k
    <2>5. Linked(clients, k, new_client_id)
      BY <2>2, Counters, LessLinked
    <2>6. Linked(Others(c), k, new_client_id)
      BY <1>1, <2>2, <2>5, EndLinked DEF Others
    <2>7. /\ active \in Int /\ current_kids \in Int /\ active >= active_processes - GivenBack(clients[c])
          /\ current_kids >= current_kids - Kid(clients[c])
      BY <1>1, Counters, OneClient
    <2> HIDE DEF active
    <2>8. Sound(Others(c), current_kids, active, new_client_id)
      BY <1>1, <2>7, EndSound DEF DaemonInv, Others
    <2> QED BY <2>2, <2>3, <2>4, <2>6, <2>8, FinishInv
  <1>4. CASE ~got /\ ~(sent \/ ~EndSends(c, FALSE))
    BY <1>4, CrashInv DEF CompileThere
  <1> QED BY <1>2, <1>3, <1>4

\* What the scheduler does.
LEMMA FromSchedulerInv ==
    ASSUME DaemonInv, FromScheduler
    PROVE  DaemonInv'
  <1>1. ASSUME NEW w \in known.waiting, NEW here \in BOOLEAN, SchedulerAnswers(w, here)
        PROVE  DaemonInv'
    BY <1>1, SchedulerAnswersInv
  <1>2. ASSUME NEW g \in known.given, RemoteEnds(g)
        PROVE  DaemonInv'
    BY <1>2, RemoteEndsInv
  <1>3. ASSUME NEW a \in known.inbox, NEW got \in BOOLEAN, NEW sent \in BOOLEAN,
               scheduler_no_cs(a, sent) \/ scheduler_use_cs(a, got, sent)
        PROVE  DaemonInv'
    BY <1>3, GiveUpInv, CompileHereInv, CompileThereInv DEF scheduler_no_cs, scheduler_use_cs
  <1>4. CASE SchedulerCloses
    <2>1. active_processes - Reserved(clients) \in Nat
      <3>1. IsFiniteSet(DOMAIN clients)
        BY ClientBound, FiniteClients DEF DaemonInv, Sound
      <3>2. Reserved(clients) \in Nat
        BY <3>1, Books DEF DaemonInv, Sound, SameBut
      <3> QED BY <3>2 DEF DaemonInv, Sound
    <2>2. /\ scheduler' = FALSE /\ known' = Forgotten(known) /\ clients' = NoClients
          /\ current_kids' = 0 /\ active_processes' \in Nat /\ new_client_id' = 0
          /\ phase' \in {"loop", "old", "poll"} /\ loaded' \in BOOLEAN
      BY <1>4, <2>1, Counters DEF SchedulerCloses, clear_children
    <2> QED BY <2>2, Counters, ClearedInv
  <1>5. CASE SchedulerFails
    BY <1>5, LostInv DEF SchedulerFails
  <1> QED BY <1>1, <1>2, <1>3, <1>4, <1>5 DEF FromScheduler

\* A round begins.
LEMMA ReconnectInv ==
    ASSUME DaemonInv, NEW found \in BOOLEAN, NEW fresh \in BOOLEAN, NEW sent \in BOOLEAN,
           reconnect(found, fresh, sent)
    PROVE  DaemonInv'
  <1>1. UNCHANGED <<clients, current_kids, active_processes, new_client_id>> /\ phase' = "old"
    BY DEF reconnect
  <1>2. CASE ~scheduler /\ found
    <2>1. /\ scheduler' = sent /\ loaded' = FALSE
          /\ known' = [known EXCEPT !.last = IF fresh THEN 0 ELSE known.last]
      BY <1>2 DEF reconnect
    <2>2. known' \in Knowledge /\ Quiet(known')
      BY <1>2, <2>1, Counters DEF DaemonInv, Offline, Quiet, Knowledge
    <2>3. Types' /\ Offline'
      BY <1>1, <2>1, <2>2 DEF Types, Offline
    <2>4. Linked(clients', known', new_client_id')
      BY <2>2, QuietLinked
    <2> QED BY <1>1, <2>3, <2>4 DEF DaemonInv
  <1>3. CASE ~(~scheduler /\ found)
    <2>1. UNCHANGED <<scheduler, known, loaded>>
      BY <1>3 DEF reconnect
    <2>2. Types' /\ Offline'
      BY <1>1, <2>1 DEF DaemonInv, Types, Offline
    <2> QED BY <1>1, <2>1, <2>2 DEF DaemonInv
  <1> QED BY <1>2, <1>3

\* A new client.
LEMMA AcceptInv ==
    ASSUME DaemonInv, Accept
    PROVE  DaemonInv'
  <1> DEFINE id == new_client_id + 1
             g == [c \in DOMAIN clients \cup {id} |-> IF c = id THEN NewClient ELSE clients[c]]
  <1>1. /\ new_client_id' = id /\ clients' = g /\ new_client_id < MaxClient
        /\ UNCHANGED <<phase, scheduler, current_kids, active_processes, loaded, known>>
    BY DEF Accept
  <1>2. new_client_id \in Nat /\ id \in 0 .. MaxClient /\ DOMAIN clients \subseteq 1 .. new_client_id
    BY <1>1, ClientBound DEF DaemonInv, Sound
  <1>3. id \notin DOMAIN clients /\ DOMAIN g \subseteq 1 .. id
    BY <1>2
  <1>4. NewClient \in ClientState /\ Good(NewClient) /\ Kid(NewClient) = 0 /\ GivenBack(NewClient) = 0
    BY DEF NewClient, ClientState, Status, Good, Kid, GivenBack
  <1>5. /\ DOMAIN g = DOMAIN clients \cup {id} /\ g[id] = NewClient
        /\ \A d \in DOMAIN clients : g[d] = clients[d]
    BY <1>3
  <1>6. g \in [DOMAIN g -> ClientState]
    BY <1>4 DEF DaemonInv, Sound
  <1>7. IsFiniteSet(DOMAIN clients) /\ IsFiniteSet(DOMAIN g)
    BY <1>2, <1>3, FiniteClients
  <1> HIDE DEF g
  <1>8. SameBut(clients, g, id)
    BY <1>3, <1>5 DEF SameBut
  <1>9. KidOf(clients, id) = 0 /\ KidOf(g, id) = 0 /\ SlotsOf(clients, id) = 0 /\ SlotsOf(g, id) = 0
    BY <1>3, <1>4, <1>5 DEF KidOf, SlotsOf
  <1> HIDE DEF id
  <1>10. clients \in [DOMAIN clients -> ClientState]
    BY DEF DaemonInv, Sound
  <1>11. /\ Cardinality(Children(clients)) \in Nat
         /\ Cardinality(Children(g)) = Cardinality(Children(clients)) - KidOf(clients, id) + KidOf(g, id)
         /\ Reserved(clients) \in Nat /\ Reserved(g) = Reserved(clients) - SlotsOf(clients, id) + SlotsOf(g, id)
    BY <1>6, <1>7, <1>8, <1>10, Books
  <1>12. Cardinality(Children(g)) = Cardinality(Children(clients)) /\ Reserved(g) = Reserved(clients)
    BY <1>9, <1>11
  <1>13. \A d \in DOMAIN g : Good(g[d])
    BY <1>4, <1>5 DEF DaemonInv, Sound
  <1>14. Sound(g, current_kids, active_processes, id)
    BY <1>2, <1>3, <1>6, <1>12, <1>13 DEF DaemonInv, Sound
  <1>15. \A i \in 1 .. new_client_id : i \in 1 .. id /\ i # id
    BY <1>2 DEF id
  <1>16. Linked(g, known, id)
    BY <1>5, <1>15 DEF DaemonInv, Linked
  <1>17. Types' /\ Offline'
    BY <1>1 DEF DaemonInv, Types, Offline
  <1> QED BY <1>1, <1>14, <1>16, <1>17 DEF DaemonInv

\* The environment is there.
LEMMA CreateEnvFinishedInv ==
    ASSUME DaemonInv, NEW gone, create_env_finished(gone)
    PROVE  DaemonInv'
  <1> DEFINE waiting == {c \in DOMAIN clients : clients[c].status = "WAITCREATEENV"}
             g == [c \in DOMAIN clients \ gone |->
                     IF c \in waiting THEN [clients[c] EXCEPT !.status = "GOTNATIVE"] ELSE clients[c]]
  <1>1. CASE Crash
    BY <1>1, CrashInv
  <1>2. CASE /\ clients' = g
             /\ UNCHANGED <<phase, scheduler, current_kids, active_processes, new_client_id, loaded, known>>
    <2>0. gone \subseteq waiting
      BY DEF create_env_finished
    <2>1. clients \in [DOMAIN clients -> ClientState] /\ \A d \in DOMAIN clients : Good(clients[d])
      BY DEF DaemonInv, Sound
    <2>2. \A r \in ClientState : r.status = "WAITCREATEENV" /\ Good(r) =>
             LET n == [r EXCEPT !.status = "GOTNATIVE"]
             IN  n \in ClientState /\ Good(n) /\ n.status = "GOTNATIVE" /\ n.child = r.child
      BY DEF Good, ClientState, Status, HasJob, Early
    <2>3. /\ DOMAIN g = DOMAIN clients \ gone /\ DOMAIN g \subseteq DOMAIN clients
          /\ \A d \in DOMAIN g : /\ Good(g[d]) /\ g[d] \in ClientState /\ g[d].child = clients[d].child
                                 /\ d \in waiting => g[d].status = "GOTNATIVE"
                                 /\ d \notin waiting => g[d] = clients[d]
      BY <2>1, <2>2
    <2>4. g \in [DOMAIN g -> ClientState]
      BY <2>3
    <2> HIDE DEF g
    <2>5. Works(g) = Works(clients) /\ \A d \in Works(g) : g[d] = clients[d]
      BY <2>0, <2>3 DEF Works
    <2>6. /\ {c \in Works(g) : ~g[c].fulljob} = {c \in Works(clients) : ~clients[c].fulljob}
          /\ {c \in Works(g) : g[c].fulljob} = {c \in Works(clients) : clients[c].fulljob}
      BY <2>5
    <2>7. Reserved(g) = Reserved(clients)
      BY <2>6 DEF Reserved
    <2>8. Children(g) \subseteq Children(clients)
      BY <2>3 DEF Children
    <2>9. IsFiniteSet(Children(clients))
      <3>1. Children(clients) \subseteq 1 .. new_client_id /\ new_client_id \in Nat
        BY ClientBound DEF Children, DaemonInv, Sound
      <3> QED BY <3>1, FiniteClients
    <2>10. /\ Cardinality(Children(g)) \in Nat /\ Cardinality(Children(clients)) \in Nat
           /\ Cardinality(Children(g)) <= Cardinality(Children(clients))
      BY <2>8, <2>9, FS_Subset, FS_CardinalityType
    <2>11. Sound(g, current_kids, active_processes, new_client_id)
      BY <2>3, <2>4, <2>7, <2>10 DEF DaemonInv, Sound
    <2>12. \A d \in DOMAIN g : clients[d].status = "WAITCREATEENV" \/ g[d] = clients[d]
      BY <2>3
    <2>13. Linked(g, known, new_client_id)
      <3>1. \A d \in DOMAIN g : Served(clients[d]) => Served(g[d])
        BY <2>12 DEF Served
      <3>2. \A d \in DOMAIN clients : WorksLocally(clients[d]) => d \in DOMAIN g /\ WorksLocally(g[d])
        BY <2>5 DEF Works, WorksLocally
      <3> QED BY <2>3, <3>1, <3>2 DEF DaemonInv, Linked
    <2>14. Types' /\ Offline'
      BY <1>2 DEF DaemonInv, Types, Offline
    <2> QED BY <1>2, <2>11, <2>13, <2>14 DEF DaemonInv
  <1> QED BY <1>1, <1>2 DEF create_env_finished

\* A client that a handler finds after a poll.
LEMMA ActiveClient ==
    ASSUME DaemonInv, NEW c, NEW states, Active(c, states)
    PROVE  /\ c \in DOMAIN clients /\ clients[c].status \in states
           /\ clients[c] \in ClientState /\ Good(clients[c]) /\ c \in ClientId
           /\ clients[c].job_id \in Nat /\ clients[c].child \in BOOLEAN
  BY OneClient DEF Active, ClientState

\* A client of no job changes to another such state.
LEMMA IdleBecomesInv ==
    ASSUME DaemonInv, NEW c \in DOMAIN clients, clients[c].status \in Early \ {"LINKJOB"},
           NEW r \in ClientState, Good(r), r.child = clients[c].child, r.status # "CLIENTWORK",
           Becomes(c, r), UNCHANGED <<phase, loaded>>
    PROVE  DaemonInv'
  <1>1. /\ Kid(r) <= Kid(clients[c]) /\ Kid(r) \in Nat /\ GivenBack(r) <= GivenBack(clients[c])
        /\ GivenBack(r) \in Nat
    BY DEF Kid, GivenBack, Early
  <1>2. ~Served(clients[c]) /\ ~WorksLocally(clients[c])
    BY DEF Served, WorksLocally, Early
  <1>3. phase' \in {"loop", "old", "poll"} /\ loaded' \in BOOLEAN
    BY Counters
  <1> QED BY <1>1, <1>2, <1>3, BecomesInv

\* A client asks for the environment.
LEMMA GetNativeEnvInv ==
    ASSUME DaemonInv, NEW c, NEW result \in {"GOTNATIVE", "WAITCREATEENV", "end"},
           handle_get_native_env(c, result)
    PROVE  DaemonInv'
  <1>1. /\ c \in DOMAIN clients /\ clients[c].status = "UNKNOWN" /\ phase' = phase
        /\ clients[c] \in ClientState /\ Good(clients[c])
    BY ActiveClient DEF handle_get_native_env
  <1>2. CASE result = "end"
    <2>1. handle_end(c, FALSE, TRUE, TRUE) /\ phase' \in {"loop", "old", "poll"}
      BY <1>1, <1>2, Counters DEF handle_get_native_env
    <2> QED BY <1>1, <2>1, HandleEndInv
  <1>3. CASE result # "end"
    <2> DEFINE r == [clients[c] EXCEPT !.status = result]
    <2>1. Becomes(c, r) /\ UNCHANGED <<phase, loaded>>
      BY <1>1, <1>3 DEF handle_get_native_env
    <2>2. /\ r \in ClientState /\ r.status = result /\ r.child = clients[c].child
          /\ r.fulljob = clients[c].fulljob /\ r.job_id = clients[c].job_id
          /\ r.told = clients[c].told /\ r.compiles = clients[c].compiles
      BY <1>1, <1>3 DEF ClientState, Status
    <2> HIDE DEF r
    <2>3. Good(r)
      BY <1>1, <1>3, <2>2 DEF Good, HasJob, Early
    <2>4. clients[c].status \in Early \ {"LINKJOB"} /\ r.status # "CLIENTWORK"
      BY <1>1, <1>3, <2>2 DEF Early
    <2> QED BY <1>1, <2>1, <2>2, <2>3, <2>4, IdleBecomesInv
  <1> QED BY <1>2, <1>3

\* A client asks for a server.
LEMMA GetCSInv ==
    ASSUME DaemonInv, NEW c, NEW nice \in Nice, NEW count \in Counts, NEW sent \in BOOLEAN,
           handle_get_cs(c, nice, count, sent)
    PROVE  DaemonInv'
  <1>1. /\ c \in DOMAIN clients /\ clients[c].status \in {"UNKNOWN", "GOTNATIVE"} /\ UNCHANGED <<phase, loaded>>
        /\ clients[c] \in ClientState /\ Good(clients[c]) /\ c \in ClientId /\ nice \in Nat
        /\ c \in 1 .. new_client_id
    BY ActiveClient, OneClient, NiceAssumption DEF handle_get_cs
  <1>2. ~Served(clients[c]) /\ ~WorksLocally(clients[c])
    BY <1>1 DEF Served, WorksLocally
  <1>3. CASE scheduler
    <2> DEFINE r == [clients[c] EXCEPT !.status = "WAITFORCS", !.niceness = nice]
               cl == Changes(c, r)
               k == Asked(c, count)
    <2>1. Finish(cl, current_kids, active_processes, TRUE, k, sent, TRUE)
      BY <1>3 DEF handle_get_cs
    <2>2. /\ r \in ClientState /\ r.status = "WAITFORCS" /\ r.child = clients[c].child
          /\ r.fulljob = clients[c].fulljob /\ r.job_id = clients[c].job_id
      BY <1>1 DEF ClientState, Status
    <2> HIDE DEF r
    <2>3. Good(r) /\ Served(r)
      BY <1>1, <2>2 DEF Good, HasJob, Early, Served
    <2>4. /\ k \in Knowledge /\ k.inbox = known.inbox /\ k.locals = known.locals
          /\ \A w \in k.waiting : w \in known.waiting \/ w[1] = c
      <3>1. known \in Knowledge /\ count \in Nat
        BY Counters, CountAssumption
      <3>2. {c} \X (1 .. count) \in SUBSET (ClientId \X Nat)
        BY <1>1, <3>1
      <3>3. \A w \in {c} \X (1 .. count) : w[1] = c
        OBVIOUS
      <3> DEFINE more == {c} \X (1 .. count)
      <3>4. k = [known EXCEPT !.waiting = known.waiting \cup more]
        BY <3>1 DEF Asked, Knowledge
      <3> HIDE DEF more, k
      <3>5. more \in SUBSET (ClientId \X Nat) /\ \A w \in more : w[1] = c
        BY <3>2, <3>3 DEF more
      <3> QED BY <3>1, <3>4, <3>5 DEF Knowledge
    <2>5. DOMAIN cl = DOMAIN clients /\ \A d \in DOMAIN clients : cl[d] = IF d = c THEN r ELSE clients[d]
      BY DEF Changes
    <2>6. /\ Kid(r) = Kid(clients[c]) /\ GivenBack(r) = 0 /\ GivenBack(clients[c]) = 0 /\ Kid(r) \in Int
      BY <1>1, <2>2 DEF Kid, GivenBack
    <2>7. /\ active_processes \in Int /\ current_kids \in Int
          /\ active_processes - GivenBack(r) >= active_processes - GivenBack(clients[c])
          /\ current_kids - Kid(r) >= current_kids - Kid(clients[c])
      BY <2>6, Counters
    <2>8. Sound(cl, current_kids, active_processes, new_client_id)
      BY <1>1, <2>3, <2>7, ChangeSound DEF DaemonInv, Changes
    <2> HIDE DEF cl, k
    <2>9. Linked(cl, k, new_client_id)
      BY <1>1, <1>2, <2>3, <2>4, <2>5, Counters DEF Linked
    <2>10. phase' \in {"loop", "old", "poll"} /\ loaded' \in BOOLEAN
      BY <1>1, Counters
    <2> QED BY <2>1, <2>4, <2>8, <2>9, <2>10, FinishInv
  <1>4. CASE ~scheduler
    <2> DEFINE r == [clients[c] EXCEPT !.status = "PENDING_USE_CS", !.niceness = nice, !.job_id = c]
    <2>1. Becomes(c, r)
      BY <1>4 DEF handle_get_cs
    <2>2. c \in Nat /\ c > 0
      BY <1>1, ClientBound DEF ClientId
    <2>3. /\ r \in ClientState /\ r.status = "PENDING_USE_CS" /\ r.child = clients[c].child
          /\ r.fulljob = clients[c].fulljob /\ r.job_id = c
      BY <1>1, <2>2 DEF ClientState, Status
    <2> HIDE DEF r
    <2>4. Good(r)
      BY <1>1, <2>2, <2>3 DEF Good, HasJob, Early
    <2>5. clients[c].status \in Early \ {"LINKJOB"} /\ r.status # "CLIENTWORK"
      BY <1>1, <2>3 DEF Early
    <2> QED BY <1>1, <2>1, <2>3, <2>4, <2>5, IdleBecomesInv
  <1> QED BY <1>3, <1>4

\* A client asks for a slot.
LEMMA LocalJobInv ==
    ASSUME DaemonInv, NEW c, NEW nice \in Nice, NEW full \in BOOLEAN, handle_local_job(c, nice, full)
    PROVE  DaemonInv'
  <1> DEFINE r == [clients[c] EXCEPT !.status = "LINKJOB", !.niceness = nice, !.fulljob = full]
  <1>1. /\ c \in DOMAIN clients /\ clients[c].status \in {"UNKNOWN", "GOTNATIVE"} /\ UNCHANGED <<phase, loaded>>
        /\ clients[c] \in ClientState /\ Good(clients[c]) /\ nice \in Nat /\ Becomes(c, r)
    BY ActiveClient, NiceAssumption DEF handle_local_job
  <1>2. /\ r \in ClientState /\ r.status = "LINKJOB" /\ r.child = clients[c].child
        /\ r.fulljob = full /\ r.job_id = clients[c].job_id
        /\ r.told = clients[c].told /\ r.compiles = clients[c].compiles
    BY <1>1 DEF ClientState, Status
  <1> HIDE DEF r
  <1>3. Good(r)
    BY <1>1, <1>2 DEF Good, HasJob, Early
  <1>4. clients[c].status \in Early \ {"LINKJOB"} /\ r.status # "CLIENTWORK"
    BY <1>1, <1>2 DEF Early
  <1> QED BY <1>1, <1>2, <1>3, <1>4, IdleBecomesInv

\* A client compiles itself, or has a file to be compiled here.
LEMMA CompileFileInv ==
    ASSUME DaemonInv, NEW c, NEW j \in 1 .. ForeignJob, NEW sent \in BOOLEAN, handle_compile_file(c, j, sent)
    PROVE  DaemonInv'
  <1> DEFINE r == [clients[c] EXCEPT !.job = j, !.told = clients[c].told \ {j},
                                     !.compiles = clients[c].compiles \cup {j}]
  <1>1. /\ c \in DOMAIN clients /\ UNCHANGED <<phase, loaded>>
        /\ clients[c] \in ClientState /\ Good(clients[c])
        /\ j \in clients[c].told \/ clients[c].status = "UNKNOWN"
    BY ActiveClient DEF handle_compile_file
  <1>2. j \in Nat
    BY ClientBound DEF ForeignJob
  <1>3. /\ r \in ClientState /\ r.status = clients[c].status /\ r.child = clients[c].child
        /\ r.fulljob = clients[c].fulljob /\ r.job_id = clients[c].job_id
    BY <1>1, <1>2 DEF ClientState
  <1>4. /\ r.status = "CLIENTWORK" =>
              Finish(Changes(c, r), current_kids, active_processes, TRUE, known, sent, TRUE)
        /\ r.status # "CLIENTWORK" => Becomes(c, [r EXCEPT !.status = "TOCOMPILE"])
    BY DEF handle_compile_file
  <1>5. ~clients[c].fulljob
    BY <1>1 DEF Good, Early
  <1>6. phase' \in {"loop", "old", "poll"} /\ loaded' \in BOOLEAN
    BY <1>1, Counters
  <1> HIDE DEF r
  <1>7. CASE r.status = "CLIENTWORK"
    <2>1. Good(r) /\ (Served(clients[c]) => Served(r)) /\ (WorksLocally(clients[c]) => WorksLocally(r))
      BY <1>1, <1>3, <1>5, <1>7 DEF Good, HasJob, Early, Served, WorksLocally
    <2>2. /\ Kid(r) = Kid(clients[c]) /\ GivenBack(r) = GivenBack(clients[c])
          /\ Kid(r) \in Int /\ GivenBack(r) \in Int
      BY <1>3, <1>5, <1>7 DEF Kid, GivenBack, Weight
    <2>3. /\ active_processes \in Int /\ current_kids \in Int
          /\ active_processes - GivenBack(r) >= active_processes - GivenBack(clients[c])
          /\ current_kids - Kid(r) >= current_kids - Kid(clients[c])
      BY <2>2, Counters
    <2>4. known \in Knowledge /\ Linked(clients, known, new_client_id)
      BY Counters
    <2> QED BY <1>1, <1>4, <1>6, <1>7, <2>1, <2>3, <2>4, ChangeInv
  <1>8. CASE r.status # "CLIENTWORK"
    <2> DEFINE n == [r EXCEPT !.status = "TOCOMPILE"]
    <2>1. /\ n \in ClientState /\ n.status = "TOCOMPILE" /\ n.child = clients[c].child
          /\ n.fulljob = clients[c].fulljob /\ n.job_id = clients[c].job_id
      BY <1>3 DEF ClientState, Status
    <2>2. Becomes(c, n)
      BY <1>4, <1>8
    <2> HIDE DEF n
    <2>3. Good(n) /\ (Served(clients[c]) => Served(n)) /\ ~WorksLocally(clients[c])
      BY <1>1, <1>3, <1>5, <1>8, <2>1 DEF Good, HasJob, Early, Served, WorksLocally
    <2>4. /\ Kid(n) <= Kid(clients[c]) /\ Kid(n) \in Nat
          /\ GivenBack(n) <= GivenBack(clients[c]) /\ GivenBack(n) \in Nat
      BY <1>3, <1>8, <2>1 DEF Kid, GivenBack
    <2> QED BY <1>1, <1>6, <2>2, <2>3, <2>4, BecomesInv
  <1> QED BY <1>7, <1>8

\* A client has compiled.
LEMMA JobDoneInv ==
    ASSUME DaemonInv, NEW c, NEW j \in 1 .. ForeignJob, NEW sent \in BOOLEAN, handle_job_done(c, j, sent)
    PROVE  DaemonInv'
  <1>1. /\ c \in DOMAIN clients /\ clients[c] \in ClientState /\ Good(clients[c])
    BY ActiveClient DEF handle_job_done
  <1>2. j \in Nat /\ j > 0
    BY ClientBound DEF ForeignJob
  <1>3. CASE j = clients[c].job_id
    <2> DEFINE r == [clients[c] EXCEPT !.status = "JOBDONE", !.fulljob = FALSE, !.job_id = 0,
                                       !.compiles = clients[c].compiles \ {j}]
               active == active_processes - GivenBack(clients[c])
               k == JobDone(j)
    <2>1. Finish(Changes(c, r), current_kids, active, TRUE, k, sent, TRUE) /\ UNCHANGED <<phase, loaded>>
      BY <1>3 DEF handle_job_done
    <2>2. /\ r \in ClientState /\ r.status = "JOBDONE" /\ r.child = clients[c].child
          /\ r.fulljob = FALSE /\ r.job_id = 0
      BY <1>1 DEF ClientState, Status
    <2> HIDE DEF r
    <2>3. Good(r) /\ Served(r) /\ ~WorksLocally(clients[c])
      BY <1>2, <1>3, <2>2 DEF Good, HasJob, Early, Served, WorksLocally
    <2>4. GivenBack(clients[c]) \in Nat /\ Kid(clients[c]) \in 0 .. 1
      BY <1>1, OneClient
    <2>5. Kid(r) = Kid(clients[c]) /\ GivenBack(r) = 0
      BY <2>2 DEF Kid, GivenBack
    <2>6. /\ active \in Int /\ current_kids \in Int
          /\ active - GivenBack(r) >= active_processes - GivenBack(clients[c])
          /\ current_kids - Kid(r) >= current_kids - Kid(clients[c])
      BY <2>4, <2>5, Counters
    <2>7. k \in Knowledge /\ Linked(clients, k, new_client_id)
      BY <1>2, ReadKnown
    <2>8. phase' \in {"loop", "old", "poll"} /\ loaded' \in BOOLEAN
      BY <2>1, Counters
    <2> HIDE DEF active, k
    <2> QED BY <1>1, <2>1, <2>3, <2>6, <2>7, <2>8, ChangeInv
  <1>4. CASE j # clients[c].job_id
    BY <1>4, CrashInv DEF handle_job_done
  <1> QED BY <1>3, <1>4

\* A client is content, or gone.
LEMMA ClientEndsInv ==
    ASSUME DaemonInv, NEW c, NEW sent \in BOOLEAN, Goodbye(c, sent) \/ Close(c, sent)
    PROVE  DaemonInv'
  <1>1. c \in DOMAIN clients /\ phase' \in {"loop", "old", "poll"}
    BY Counters DEF Goodbye, Close, Active
  <1>2. PICK goodbye \in BOOLEAN : handle_end(c, goodbye, sent, TRUE)
    BY DEF Goodbye, Close
  <1> QED BY <1>1, <1>2, HandleEndInv

\* A client could not use its server.
LEMMA BlacklistInv ==
    ASSUME DaemonInv, NEW c, NEW sent \in BOOLEAN, handle_blacklist_host_env(c, sent)
    PROVE  DaemonInv'
  <1>1. /\ Finish(clients, current_kids, active_processes, TRUE, known, sent, TRUE)
        /\ phase' \in {"loop", "old", "poll"} /\ loaded' \in BOOLEAN
    BY Counters DEF handle_blacklist_host_env
  <1> QED BY <1>1, TellsInv

\* A client sends an environment.
LEMMA TransferEnvInv ==
    ASSUME DaemonInv, NEW c, NEW forked \in BOOLEAN, handle_transfer_env(c, forked)
    PROVE  DaemonInv'
  <1>1. /\ c \in DOMAIN clients /\ clients[c].status = "UNKNOWN" /\ phase' = phase
        /\ clients[c] \in ClientState /\ Good(clients[c])
    BY ActiveClient DEF handle_transfer_env
  <1>2. phase' \in {"loop", "old", "poll"}
    BY <1>1, Counters
  <1>3. CASE forked
    <2> DEFINE r == [clients[c] EXCEPT !.status = "TOINSTALL", !.child = TRUE, !.pipe_to_child = TRUE]
               kids == current_kids + 1
    <2>1. Finish(Changes(c, r), kids, active_processes, FALSE, known, TRUE, TRUE) /\ loaded' = loaded
      BY <1>3 DEF handle_transfer_env, Finish
    <2>2. /\ r \in ClientState /\ r.status = "TOINSTALL" /\ r.child = TRUE
          /\ r.fulljob = clients[c].fulljob /\ r.job_id = clients[c].job_id
          /\ r.told = clients[c].told /\ r.compiles = clients[c].compiles
      BY <1>1 DEF ClientState, Status
    <2> HIDE DEF r
    <2>3. Good(r) /\ ~Served(clients[c]) /\ ~WorksLocally(clients[c])
      BY <1>1, <2>2 DEF Good, HasJob, Early, Served, WorksLocally
    <2>4. Kid(r) = 1 /\ Kid(clients[c]) \in 0 .. 1 /\ GivenBack(r) = 0 /\ GivenBack(clients[c]) = 0
      BY <1>1, <2>2 DEF Kid, GivenBack
    <2>5. /\ active_processes \in Int /\ kids \in Int
          /\ active_processes - GivenBack(r) >= active_processes - GivenBack(clients[c])
          /\ kids - Kid(r) >= current_kids - Kid(clients[c])
      BY <2>4, Counters
    <2>6. loaded' \in BOOLEAN /\ known \in Knowledge /\ Linked(clients, known, new_client_id)
      BY <2>1, Counters
    <2> HIDE DEF kids
    <2> QED BY <1>1, <1>2, <2>1, <2>3, <2>5, <2>6, ChangeInv
  <1>4. CASE ~forked
    <2>1. handle_end(c, FALSE, TRUE, TRUE)
      BY <1>4 DEF handle_transfer_env
    <2> QED BY <1>1, <1>2, <2>1, HandleEndInv
  <1> QED BY <1>3, <1>4

\* An installation ends; its child, if there is one, is no longer counted.
LEMMA FinishTransferInv ==
    ASSUME DaemonInv, NEW c \in DOMAIN clients, clients[c].status \in {"TOINSTALL", "WAITINSTALL"},
           NEW kids \in Int, kids >= current_kids - Kid(clients[c]), NEW sent \in BOOLEAN, NEW clears,
           finish_transfer_env(c, kids, sent, clears), phase' \in {"loop", "old", "poll"}
    PROVE  DaemonInv'
  <1> DEFINE r == [clients[c] EXCEPT !.status = "UNKNOWN", !.child = FALSE, !.pipe_to_child = FALSE]
  <1>1. clients[c] \in ClientState /\ Good(clients[c])
    BY OneClient
  <1>2. Finish(Changes(c, r), kids, active_processes, TRUE, known, sent, clears)
    BY DEF finish_transfer_env
  <1>3. /\ r \in ClientState /\ r.status = "UNKNOWN" /\ r.child = FALSE
        /\ r.fulljob = clients[c].fulljob /\ r.job_id = clients[c].job_id
        /\ r.told = clients[c].told /\ r.compiles = clients[c].compiles
    BY <1>1 DEF ClientState, Status
  <1> HIDE DEF r
  <1>4. Good(r) /\ ~Served(clients[c]) /\ ~WorksLocally(clients[c])
    BY <1>1, <1>3 DEF Good, HasJob, Early, Served, WorksLocally
  <1>5. Kid(r) = 0 /\ GivenBack(r) = 0 /\ GivenBack(clients[c]) = 0
    BY <1>3 DEF Kid, GivenBack
  <1>6. /\ active_processes \in Int
        /\ active_processes - GivenBack(r) >= active_processes - GivenBack(clients[c])
        /\ kids - Kid(r) >= current_kids - Kid(clients[c])
    BY <1>5, Counters
  <1>7. loaded' \in BOOLEAN /\ known \in Knowledge /\ Linked(clients, known, new_client_id)
    BY Counters DEF finish_transfer_env
  <1> QED BY <1>2, <1>4, <1>6, <1>7, ChangeInv

\* The environment is complete.
LEMMA FileChunkInv ==
    ASSUME DaemonInv, NEW c, NEW sent \in BOOLEAN, handle_file_chunk_env(c, sent)
    PROVE  DaemonInv'
  <1>1. /\ c \in DOMAIN clients /\ clients[c].status = "TOINSTALL" /\ phase' = phase
        /\ clients[c] \in ClientState /\ Good(clients[c])
    BY ActiveClient DEF handle_file_chunk_env
  <1>2. CASE clients[c].child
    <2> DEFINE r == [clients[c] EXCEPT !.status = "WAITINSTALL", !.pipe_to_child = FALSE]
    <2>1. Becomes(c, r) /\ UNCHANGED <<phase, loaded>>
      BY <1>1, <1>2 DEF handle_file_chunk_env
    <2>2. /\ r \in ClientState /\ r.status = "WAITINSTALL" /\ r.child = clients[c].child
          /\ r.fulljob = clients[c].fulljob /\ r.job_id = clients[c].job_id
          /\ r.told = clients[c].told /\ r.compiles = clients[c].compiles
      BY <1>1 DEF ClientState, Status
    <2> HIDE DEF r
    <2>3. Good(r)
      BY <1>1, <2>2 DEF Good, HasJob, Early
    <2>4. clients[c].status \in Early \ {"LINKJOB"} /\ r.status # "CLIENTWORK"
      BY <1>1, <2>2 DEF Early
    <2> QED BY <1>1, <2>1, <2>2, <2>3, <2>4, IdleBecomesInv
  <1>3. CASE ~clients[c].child
    <2>1. finish_transfer_env(c, current_kids, sent, TRUE)
      BY <1>3 DEF handle_file_chunk_env
    <2>2. /\ current_kids \in Int /\ current_kids >= current_kids - Kid(clients[c])
          /\ phase' \in {"loop", "old", "poll"}
      BY <1>1, Counters DEF Kid
    <2>3. clients[c].status \in {"TOINSTALL", "WAITINSTALL"}
      BY <1>1
    <2> QED BY <1>1, <2>1, <2>2, <2>3, FinishTransferInv
  <1> QED BY <1>2, <1>3

\* The child that installs is through.
LEMMA InstallDoneInv ==
    ASSUME DaemonInv, NEW c, NEW success \in BOOLEAN, NEW sent \in BOOLEAN,
           handle_env_install_child_done(c, success, sent)
    PROVE  DaemonInv'
  <1>1. /\ c \in DOMAIN clients /\ clients[c].status \in {"TOINSTALL", "WAITINSTALL"} /\ clients[c].child
        /\ clients[c] \in ClientState /\ Good(clients[c])
    BY ActiveClient DEF handle_env_install_child_done
  <1> DEFINE kids == current_kids - 1
  <1>2. kids \in Int /\ kids >= current_kids - Kid(clients[c])
    BY <1>1, Counters DEF Kid
  <1>3. CASE success /\ clients[c].pipe_to_child
    <2> DEFINE r == [clients[c] EXCEPT !.child = FALSE]
    <2>1. Finish(Changes(c, r), kids, active_processes, FALSE, known, TRUE, TRUE) /\ UNCHANGED <<phase, loaded>>
      BY <1>3 DEF handle_env_install_child_done, Finish
    <2>2. /\ r \in ClientState /\ r.status = clients[c].status /\ r.child = FALSE
          /\ r.fulljob = clients[c].fulljob /\ r.job_id = clients[c].job_id
          /\ r.told = clients[c].told /\ r.compiles = clients[c].compiles
      BY <1>1 DEF ClientState
    <2> HIDE DEF r
    <2>3. Good(r) /\ ~Served(clients[c]) /\ ~WorksLocally(clients[c])
      BY <1>1, <2>2 DEF Good, HasJob, Early, Served, WorksLocally
    <2>4. Kid(r) = 0 /\ GivenBack(r) = 0 /\ GivenBack(clients[c]) = 0
      BY <1>1, <2>2 DEF Kid, GivenBack
    <2>5. /\ active_processes \in Int
          /\ active_processes - GivenBack(r) >= active_processes - GivenBack(clients[c])
          /\ kids - Kid(r) >= current_kids - Kid(clients[c])
      BY <1>2, <2>4, Counters
    <2>6. /\ phase' \in {"loop", "old", "poll"} /\ loaded' \in BOOLEAN
          /\ known \in Knowledge /\ Linked(clients, known, new_client_id)
      BY <2>1, Counters
    <2> HIDE DEF kids
    <2> QED BY <1>1, <1>2, <2>1, <2>3, <2>5, <2>6, ChangeInv
  <1>4. CASE ~(success /\ clients[c].pipe_to_child)
    <2>1. finish_transfer_env(c, kids, sent, FALSE) /\ phase' \in {"loop", "old", "poll"}
      BY <1>4, Counters DEF handle_env_install_child_done
    <2> HIDE DEF kids
    <2> QED BY <1>1, <1>2, <2>1, FinishTransferInv
  <1> QED BY <1>3, <1>4

\* A compiler is through.
LEMMA CompileDoneInv ==
    ASSUME DaemonInv, NEW c, NEW sent \in BOOLEAN, handle_compile_done(c, sent)
    PROVE  DaemonInv'
  <1> DEFINE kids == current_kids - 1
             k == JobDone(clients[c].job)
  <1>1. /\ c \in DOMAIN clients /\ clients[c].status = "WAITFORCHILD"
        /\ clients[c] \in ClientState /\ Good(clients[c])
    BY ActiveClient DEF handle_compile_done
  <1>2. clients[c].job \in Nat /\ clients[c].child
    BY <1>1 DEF ClientState, Good
  <1>3. Finish(Others(c), kids, active_processes, TRUE, k, sent, FALSE) /\ phase' = "loop" /\ loaded' = loaded
    BY DEF handle_compile_done
  <1>4. /\ kids \in Int /\ kids >= current_kids - Kid(clients[c])
        /\ active_processes \in Int /\ active_processes >= active_processes - GivenBack(clients[c])
    BY <1>1, <1>2, Counters DEF Kid, GivenBack
  <1>5. k \in Knowledge /\ Linked(clients, k, new_client_id)
    BY <1>2, ReadKnown
  <1>6. c \notin k.locals
    BY <1>1, <1>5 DEF Linked, WorksLocally
  <1>7. phase' \in {"loop", "old", "poll"} /\ loaded' \in BOOLEAN
    BY <1>3, Counters
  <1> HIDE DEF kids, k
  <1>8. Sound(Others(c), kids, active_processes, new_client_id)
    BY <1>1, <1>4, EndSound DEF DaemonInv, Others
  <1>9. Linked(Others(c), k, new_client_id)
    BY <1>1, <1>5, <1>6, EndLinked DEF Others
  <1> QED BY <1>3, <1>5, <1>7, <1>8, <1>9, FinishInv

\* Every step keeps the invariant.
LEMMA DaemonStep ==
    ASSUME DaemonInv, [Next]_vars
    PROVE  DaemonInv'
  <1>1. ASSUME NEW found \in BOOLEAN, NEW fresh \in BOOLEAN, NEW sent \in BOOLEAN, reconnect(found, fresh, sent)
        PROVE  DaemonInv'
    BY <1>1, ReconnectInv
  <1>2. CASE handle_old_request
    <2>1. ASSUME NEW c \in DOMAIN clients, NEW ok \in BOOLEAN, NEW sent \in BOOLEAN,
                 StartLocal(c, ok, sent) \/ StartPending(c, ok, sent) \/ StartCompile(c, ok, sent)
          PROVE  DaemonInv'
      BY <2>1, StartLocalInv, StartPendingInv, StartCompileInv
    <2>2. CASE NothingToStart
      <3>1. /\ phase' = "poll"
            /\ UNCHANGED <<scheduler, clients, current_kids, active_processes, new_client_id, loaded, known>>
        BY <2>2 DEF NothingToStart
      <3>2. Types' /\ Offline'
        BY <3>1 DEF DaemonInv, Types, Offline
      <3> QED BY <3>1, <3>2 DEF DaemonInv
    <2> QED BY <1>2, <2>1, <2>2 DEF handle_old_request
  <1>3. ASSUME NEW high \in BOOLEAN, NEW sent \in BOOLEAN, maybe_stats(high, sent)
        PROVE  DaemonInv'
    <2>1. /\ Finish(clients, current_kids, active_processes, TRUE, known, sent, FALSE)
          /\ phase' \in {"loop", "old", "poll"} /\ loaded' \in BOOLEAN
      BY <1>3, Counters DEF maybe_stats
    <2> QED BY <2>1, TellsInv
  <1>4. CASE FromScheduler
    BY <1>4, FromSchedulerInv
  <1>5. CASE Accept
    BY <1>5, AcceptInv
  <1>6. ASSUME NEW c \in ClientId, FromClient(c)
        PROVE  DaemonInv'
    <2>1. CASE \E result \in {"GOTNATIVE", "WAITCREATEENV", "end"} : handle_get_native_env(c, result)
      BY <2>1, GetNativeEnvInv
    <2>2. CASE \E nice \in Nice, count \in Counts, sent \in BOOLEAN : handle_get_cs(c, nice, count, sent)
      BY <2>2, GetCSInv
    <2>3. CASE \E nice \in Nice, full \in BOOLEAN : handle_local_job(c, nice, full)
      BY <2>3, LocalJobInv
    <2>4. CASE \E j \in 1 .. ForeignJob, sent \in BOOLEAN :
                  handle_compile_file(c, j, sent) \/ handle_job_done(c, j, sent)
      BY <2>4, CompileFileInv, JobDoneInv
    <2>5. CASE \E sent \in BOOLEAN : handle_blacklist_host_env(c, sent) \/ Goodbye(c, sent) \/ Close(c, sent)
      BY <2>5, BlacklistInv, ClientEndsInv
    <2>6. CASE \E forked \in BOOLEAN : handle_transfer_env(c, forked)
      BY <2>6, TransferEnvInv
    <2>7. CASE \E sent \in BOOLEAN : handle_file_chunk_env(c, sent)
      BY <2>7, FileChunkInv
    <2> QED BY <1>6, <2>1, <2>2, <2>3, <2>4, <2>5, <2>6, <2>7 DEF FromClient
  <1>7. ASSUME NEW c \in ClientId, FromChild(c)
        PROVE  DaemonInv'
    BY <1>7, InstallDoneInv, CompileDoneInv DEF FromChild
  <1>8. ASSUME NEW gone, create_env_finished(gone)
        PROVE  DaemonInv'
    BY <1>8, CreateEnvFinishedInv
  <1>9. CASE UNCHANGED vars
    BY <1>9 DEF vars, DaemonInv, Types, Offline
  <1> QED BY <1>1, <1>2, <1>3, <1>4, <1>5, <1>6, <1>7, <1>8, <1>9 DEF Next

\* It holds at the start.
LEMMA DaemonStart ==
    ASSUME Init
    PROVE  DaemonInv
  <1>1. known \in Knowledge /\ Quiet(known)
    BY DEF Init, Knowledge, Quiet
  <1>2. Types /\ Offline
    BY <1>1 DEF Init, Types, Offline
  <1>3. Sound(clients, current_kids, active_processes, new_client_id)
    BY NobodySound DEF Init
  <1>4. Linked(clients, known, new_client_id)
    BY <1>1, QuietLinked
  <1> QED BY <1>2, <1>3, <1>4 DEF DaemonInv

\* What it says in the terms of module Daemon.
LEMMA DaemonImplies ==
    ASSUME DaemonInv
    PROVE  TypeOK /\ NoJobIdOutside /\ LocalJobsReported
  <1>1. TypeOK
    BY ClientBound DEF DaemonInv, Types, Sound, TypeOK, ClientId
  <1>2. NoJobIdOutside
    BY DEF DaemonInv, Sound, Good, HasJob, NoJobIdOutside
  <1>3. LocalJobsReported
    BY DEF DaemonInv, Linked, WorksLocally, LocalJobsReported, Works
  <1> QED BY <1>1, <1>2, <1>3

\* The variables of the daemon have their types, whatever the scheduler, the clients and
\* the children do: in particular the counters of working_loop never go below zero.
THEOREM DaemonTypes == Spec => []TypeOK
  <1>1. Init => DaemonInv
    BY DaemonStart
  <1>2. DaemonInv /\ [Next]_vars => DaemonInv'
    BY DaemonStep
  <1>3. DaemonInv => TypeOK
    BY DaemonImplies
  <1> QED BY <1>1, <1>2, <1>3, PTL DEF Spec

\* handle_end's assert(false) "should not have a job_id" never fires.
THEOREM JobIdsInPlace == Spec => []NoJobIdOutside
  <1>1. Init => DaemonInv
    BY DaemonStart
  <1>2. DaemonInv /\ [Next]_vars => DaemonInv'
    BY DaemonStep
  <1>3. DaemonInv => NoJobIdOutside
    BY DaemonImplies
  <1> QED BY <1>1, <1>2, <1>3, PTL DEF Spec

\* The scheduler counts a local job only while a client of handle_local_job works on it.
THEOREM LocalJobsAlwaysReported == Spec => []LocalJobsReported
  <1>1. Init => DaemonInv
    BY DaemonStart
  <1>2. DaemonInv /\ [Next]_vars => DaemonInv'
    BY DaemonStep
  <1>3. DaemonInv => LocalJobsReported
    BY DaemonImplies
  <1> QED BY <1>1, <1>2, <1>3, PTL DEF Spec

-----------------------------------------------------------------------------
(* Full jobs *)

\* A full job that works takes every slot.
LEMMA FullTakesAll ==
    ASSUME DaemonInv, NEW c \in Works(clients), clients[c].fulljob
    PROVE  ~SlotFree
  <1> DEFINE half == {d \in Works(clients) : ~clients[d].fulljob}
             full == {d \in Works(clients) : clients[d].fulljob}
             nh == Cardinality(half)
             nf == Cardinality(full)
  <1>1. IsFiniteSet(half) /\ IsFiniteSet(full) /\ c \in full
    <2>1. IsFiniteSet(DOMAIN clients)
      BY ClientBound, FiniteClients DEF DaemonInv, Sound
    <2> QED BY <2>1, FS_Subset DEF Works
  <1>2. nh \in Nat /\ nf \in Nat /\ nf # 0
    BY <1>1, FS_CardinalityType, FS_EmptySet
  <1>3. Reserved(clients) = nh + Slots * nf
    BY DEF Reserved
  <1> HIDE DEF nh, nf
  <1>4. Slots * nf >= Slots /\ Slots * nf \in Nat
    BY <1>2, SlotsPositive
  <1> QED BY <1>2, <1>3, <1>4, SlotsPositive DEF DaemonInv, Sound, SlotFree

\* After a step to cl a client works that did not before.
Starts(cl) == ~(Runs(cl) \subseteq Runs(clients))

\* A client that changes starts no job unless it becomes one that works.
LEMMA ChangeStartsNone ==
    ASSUME NEW c, NEW r, r.status \notin {"CLIENTWORK", "WAITFORCHILD"} \/ c \in Runs(clients)
    PROVE  ~Starts(Changes(c, r))
  BY DEF Starts, Changes, Runs

\* A client that ends starts no job, and neither does the end of all of them.
LEMMA EndStartsNone ==
    ASSUME NEW c
    PROVE  ~Starts(Others(c)) /\ ~Starts(NoClients) /\ ~Starts(clients)
  BY DEF Starts, Others, NoClients, Runs

\* A handler's end starts no job that the handler has not started.
LEMMA FinishStartsNone ==
    ASSUME NEW cl, NEW kids, NEW active, NEW sends, NEW k, NEW sent, NEW clears,
           Finish(cl, kids, active, sends, k, sent, clears), ~Starts(cl)
    PROVE  ~Starts(clients')
  BY EndStartsNone DEF Finish

\* handle_end starts none.
LEMMA HandleEndStartsNone ==
    ASSUME NEW c, NEW goodbye, NEW sent, NEW clears, handle_end(c, goodbye, sent, clears)
    PROVE  ~Starts(clients')
  BY EndStartsNone, FinishStartsNone DEF handle_end

\* A message of the scheduler, which answers a client, starts none.
LEMMA SchedulerStartsNone ==
    ASSUME DaemonInv, FromScheduler
    PROVE  ~Starts(clients')
  <1>1. ASSUME NEW w \in known.waiting, NEW here \in BOOLEAN, SchedulerAnswers(w, here)
        PROVE  ~Starts(clients')
    BY <1>1, EndStartsNone DEF SchedulerAnswers
  <1>2. ASSUME NEW g \in known.given, RemoteEnds(g)
        PROVE  ~Starts(clients')
    BY <1>2, EndStartsNone DEF RemoteEnds
  <1>3. ASSUME NEW a \in known.inbox, NEW sent \in BOOLEAN, GiveUp(a, sent)
        PROVE  ~Starts(clients')
    BY <1>3, EndStartsNone DEF GiveUp
  <1>4. ASSUME NEW a \in known.inbox, a.client \in DOMAIN clients, NEW st \in {"PENDING_USE_CS", "WAITCOMPILE"},
               clients' = Changes(a.client, [clients[a.client] EXCEPT !.status = st, !.job_id = a.job])
        PROVE  ~Starts(clients')
    <2> DEFINE r == [clients[a.client] EXCEPT !.status = st, !.job_id = a.job]
    <2>1. r.status = st
      BY <1>4, OneClient DEF ClientState
    <2> HIDE DEF r
    <2>2. clients' = Changes(a.client, r)
      BY <1>4 DEF r
    <2> QED BY <2>1, <2>2, ChangeStartsNone
  <1>5. ASSUME NEW a \in known.inbox, NEW got \in BOOLEAN, NEW sent \in BOOLEAN,
               scheduler_no_cs(a, sent) \/ scheduler_use_cs(a, got, sent)
        PROVE  ~Starts(clients')
    <2>1. CASE CompileHere(a)
      BY <1>4, <2>1 DEF CompileHere
    <2>2. CASE CompileThere(a, got, sent)
      <3>1. CASE got
        BY <1>4, <2>2, <3>1 DEF CompileThere
      <3>2. CASE ~got
        BY <2>2, <3>2, EndStartsNone DEF CompileThere, Crash
      <3> QED BY <3>1, <3>2
    <2> QED BY <1>3, <1>5, <2>1, <2>2 DEF scheduler_no_cs, scheduler_use_cs
  <1>6. CASE SchedulerCloses \/ SchedulerFails
    BY <1>6, EndStartsNone DEF SchedulerCloses, SchedulerFails, clear_children
  <1> QED BY <1>1, <1>2, <1>5, <1>6 DEF FromScheduler

\* A message of a client starts none: only handle_old_request does.
LEMMA ClientStartsNone ==
    ASSUME DaemonInv, NEW c, FromClient(c)
    PROVE  ~Starts(clients')
  <1>1. ASSUME NEW r, Becomes(c, r), r.status \notin {"CLIENTWORK", "WAITFORCHILD"}
        PROVE  ~Starts(clients')
    BY <1>1, ChangeStartsNone DEF Becomes
  <1>2. c \in DOMAIN clients => clients[c] \in ClientState
    BY OneClient
  <1>3. ASSUME NEW result \in {"GOTNATIVE", "WAITCREATEENV", "end"}, handle_get_native_env(c, result)
        PROVE  ~Starts(clients')
    <2> DEFINE r == [clients[c] EXCEPT !.status = result]
    <2>1. r.status = result
      BY <1>2, <1>3 DEF handle_get_native_env, Active, ClientState
    <2>2. handle_end(c, FALSE, TRUE, TRUE) \/ (result # "end" /\ Becomes(c, r))
      BY <1>3 DEF handle_get_native_env
    <2> HIDE DEF r
    <2> QED BY <1>1, <2>1, <2>2, HandleEndStartsNone
  <1>4. ASSUME NEW nice \in Nice, NEW count \in Counts, NEW sent \in BOOLEAN, handle_get_cs(c, nice, count, sent)
        PROVE  ~Starts(clients')
    <2> DEFINE r == [clients[c] EXCEPT !.status = "WAITFORCS", !.niceness = nice]
               n == [clients[c] EXCEPT !.status = "PENDING_USE_CS", !.niceness = nice, !.job_id = c]
    <2>1. r.status = "WAITFORCS" /\ n.status = "PENDING_USE_CS"
      BY <1>2, <1>4 DEF handle_get_cs, Active, ClientState
    <2>2. \/ Finish(Changes(c, r), current_kids, active_processes, TRUE, Asked(c, count), sent, TRUE)
          \/ Becomes(c, n)
      BY <1>4 DEF handle_get_cs
    <2> HIDE DEF r, n
    <2>3. ~Starts(Changes(c, r))
      BY <2>1, ChangeStartsNone
    <2> QED BY <1>1, <2>1, <2>2, <2>3, FinishStartsNone
  <1>5. ASSUME NEW nice \in Nice, NEW full \in BOOLEAN, handle_local_job(c, nice, full)
        PROVE  ~Starts(clients')
    <2> DEFINE r == [clients[c] EXCEPT !.status = "LINKJOB", !.niceness = nice, !.fulljob = full]
    <2>1. r.status = "LINKJOB" /\ Becomes(c, r)
      BY <1>2, <1>5 DEF handle_local_job, Active, ClientState
    <2> HIDE DEF r
    <2> QED BY <1>1, <2>1
  <1>6. ASSUME NEW j \in 1 .. ForeignJob, NEW sent \in BOOLEAN, handle_compile_file(c, j, sent)
        PROVE  ~Starts(clients')
    <2> DEFINE r == [clients[c] EXCEPT !.job = j, !.told = clients[c].told \ {j},
                                       !.compiles = clients[c].compiles \cup {j}]
               n == [r EXCEPT !.status = "TOCOMPILE"]
    <2>1. c \in DOMAIN clients /\ r.status = clients[c].status /\ n.status = "TOCOMPILE"
      BY <1>2, <1>6 DEF handle_compile_file, Active, ClientState
    <2>2. \/ /\ r.status = "CLIENTWORK"
             /\ Finish(Changes(c, r), current_kids, active_processes, TRUE, known, sent, TRUE)
          \/ Becomes(c, n)
      BY <1>6 DEF handle_compile_file
    <2> HIDE DEF r, n
    <2>3. r.status = "CLIENTWORK" => ~Starts(Changes(c, r))
      BY <2>1, ChangeStartsNone DEF Runs
    <2> QED BY <1>1, <2>1, <2>2, <2>3, FinishStartsNone
  <1>7. ASSUME NEW j \in 1 .. ForeignJob, NEW sent \in BOOLEAN, handle_job_done(c, j, sent)
        PROVE  ~Starts(clients')
    <2> DEFINE r == [clients[c] EXCEPT !.status = "JOBDONE", !.fulljob = FALSE, !.job_id = 0,
                                       !.compiles = clients[c].compiles \ {j}]
               active == active_processes - GivenBack(clients[c])
    <2>1. r.status = "JOBDONE"
      BY <1>2, <1>7 DEF handle_job_done, Active, ClientState
    <2>2. Finish(Changes(c, r), current_kids, active, TRUE, JobDone(j), sent, TRUE) \/ clients' = NoClients
      BY <1>7 DEF handle_job_done, Crash
    <2> HIDE DEF r, active
    <2>3. ~Starts(Changes(c, r))
      BY <2>1, ChangeStartsNone
    <2> QED BY <2>2, <2>3, FinishStartsNone, EndStartsNone
  <1>8. ASSUME NEW sent \in BOOLEAN, handle_blacklist_host_env(c, sent) \/ Goodbye(c, sent) \/ Close(c, sent)
        PROVE  ~Starts(clients')
    <2>1. CASE handle_blacklist_host_env(c, sent)
      BY <2>1, EndStartsNone, FinishStartsNone DEF handle_blacklist_host_env
    <2> QED BY <1>8, <2>1, HandleEndStartsNone DEF Goodbye, Close
  <1>9. ASSUME NEW forked \in BOOLEAN, handle_transfer_env(c, forked)
        PROVE  ~Starts(clients')
    <2> DEFINE r == [clients[c] EXCEPT !.status = "TOINSTALL", !.child = TRUE, !.pipe_to_child = TRUE]
    <2>1. r.status = "TOINSTALL"
      BY <1>2, <1>9 DEF handle_transfer_env, Active, ClientState
    <2>2. clients' = Changes(c, r) \/ handle_end(c, FALSE, TRUE, TRUE)
      BY <1>9 DEF handle_transfer_env
    <2> HIDE DEF r
    <2> QED BY <2>1, <2>2, ChangeStartsNone, HandleEndStartsNone
  <1>10. ASSUME NEW sent \in BOOLEAN, handle_file_chunk_env(c, sent)
         PROVE  ~Starts(clients')
    <2> DEFINE r == [clients[c] EXCEPT !.status = "WAITINSTALL", !.pipe_to_child = FALSE]
               n == [clients[c] EXCEPT !.status = "UNKNOWN", !.child = FALSE, !.pipe_to_child = FALSE]
    <2>1. r.status = "WAITINSTALL" /\ n.status = "UNKNOWN"
      BY <1>2, <1>10 DEF handle_file_chunk_env, Active, ClientState
    <2>2. \/ Becomes(c, r)
          \/ Finish(Changes(c, n), current_kids, active_processes, TRUE, known, sent, TRUE)
      BY <1>10 DEF handle_file_chunk_env, finish_transfer_env
    <2> HIDE DEF r, n
    <2>3. ~Starts(Changes(c, n))
      BY <2>1, ChangeStartsNone
    <2> QED BY <1>1, <2>1, <2>2, <2>3, FinishStartsNone
  <1> QED BY <1>3, <1>4, <1>5, <1>6, <1>7, <1>8, <1>9, <1>10 DEF FromClient

\* The end of a child starts none.
LEMMA ChildStartsNone ==
    ASSUME DaemonInv, NEW c, FromChild(c)
    PROVE  ~Starts(clients')
  <1>1. ASSUME NEW success \in BOOLEAN, NEW sent \in BOOLEAN, handle_env_install_child_done(c, success, sent)
        PROVE  ~Starts(clients')
    <2> DEFINE r == [clients[c] EXCEPT !.child = FALSE]
               n == [clients[c] EXCEPT !.status = "UNKNOWN", !.child = FALSE, !.pipe_to_child = FALSE]
               kids == current_kids - 1
    <2>1. r.status \in {"TOINSTALL", "WAITINSTALL"} /\ n.status = "UNKNOWN"
      BY <1>1, OneClient DEF handle_env_install_child_done, Active, ClientState
    <2>2. \/ clients' = Changes(c, r)
          \/ Finish(Changes(c, n), kids, active_processes, TRUE, known, sent, FALSE)
      BY <1>1 DEF handle_env_install_child_done, finish_transfer_env
    <2> HIDE DEF r, n, kids
    <2>3. ~Starts(Changes(c, r)) /\ ~Starts(Changes(c, n))
      BY <2>1, ChangeStartsNone
    <2> QED BY <2>2, <2>3, FinishStartsNone
  <1>2. ASSUME NEW sent \in BOOLEAN, handle_compile_done(c, sent)
        PROVE  ~Starts(clients')
    <2> DEFINE kids == current_kids - 1
    <2>1. Finish(Others(c), kids, active_processes, TRUE, JobDone(clients[c].job), sent, FALSE)
      BY <1>2 DEF handle_compile_done
    <2> HIDE DEF kids
    <2> QED BY <2>1, EndStartsNone, FinishStartsNone
  <1> QED BY <1>1, <1>2 DEF FromChild

\* Only handle_old_request starts jobs.
LEMMA OnlyOldRequestsStart ==
    ASSUME DaemonInv, Next, ~handle_old_request
    PROVE  ~Starts(clients')
  <1>1. ASSUME NEW found \in BOOLEAN, NEW fresh \in BOOLEAN, NEW sent \in BOOLEAN, reconnect(found, fresh, sent)
        PROVE  ~Starts(clients')
    BY <1>1, EndStartsNone DEF reconnect
  <1>3. ASSUME NEW high \in BOOLEAN, NEW sent \in BOOLEAN, maybe_stats(high, sent)
        PROVE  ~Starts(clients')
    BY <1>3, EndStartsNone, FinishStartsNone DEF maybe_stats
  <1>4. CASE Accept
    BY <1>4 DEF Accept, Starts, Runs, NewClient
  <1>5. ASSUME NEW gone, create_env_finished(gone)
        PROVE  ~Starts(clients')
    <2> DEFINE waiting == {d \in DOMAIN clients : clients[d].status = "WAITCREATEENV"}
               g == [d \in DOMAIN clients \ gone |->
                       IF d \in waiting THEN [clients[d] EXCEPT !.status = "GOTNATIVE"] ELSE clients[d]]
    <2>1. \A d \in DOMAIN clients : clients[d] \in ClientState
      BY OneClient
    <2>2. \A r \in ClientState : [r EXCEPT !.status = "GOTNATIVE"].status = "GOTNATIVE"
      BY DEF ClientState
    <2>3. /\ DOMAIN g \subseteq DOMAIN clients
          /\ \A d \in DOMAIN g : g[d].status = "GOTNATIVE" \/ g[d] = clients[d]
      BY <2>1, <2>2
    <2>4. clients' = g \/ clients' = NoClients
      BY <1>5 DEF create_env_finished, Crash
    <2> HIDE DEF g
    <2>5. ~Starts(g)
      BY <2>3 DEF Starts, Runs
    <2> QED BY <2>4, <2>5, EndStartsNone
  <1> QED BY <1>1, <1>3, <1>4, <1>5, SchedulerStartsNone, ClientStartsNone, ChildStartsNone DEF Next

\* While a full job works, no step starts another job.
LEMMA FullStep ==
    ASSUME DaemonInv, Next, NEW c \in Works(clients), clients[c].fulljob
    PROVE  Runs(clients') \subseteq Runs(clients)
  <1> SUFFICES ~Starts(clients')
    BY DEF Starts
  <1>1. CASE handle_old_request
    <2>1. ~SlotFree
      BY FullTakesAll
    <2>2. NothingToStart
      BY <1>1, <2>1 DEF handle_old_request, StartLocal, StartPending, StartCompile
    <2> QED BY <2>2, EndStartsNone DEF NothingToStart
  <1> QED BY <1>1, OnlyOldRequestsStart

\* While a full job works (handle_old_request adds max_kids to active_processes for it,
\* "reserve the entire node"), no client begins to work and no compiler is started.
THEOREM FullJobsReserveAll == Spec => FullJobReservesAll
  <1>1. Init => DaemonInv
    BY DaemonStart
  <1>2. DaemonInv /\ [Next]_vars => DaemonInv'
    BY DaemonStep
  <1>3. DaemonInv /\ [Next]_vars =>
           [(\E c \in Works(clients) : clients[c].fulljob) => Runs(clients') \subseteq Runs(clients)]_vars
    BY FullStep
  <1> QED BY <1>1, <1>2, <1>3, PTL DEF Spec, FullJobReservesAll

-----------------------------------------------------------------------------
(* The limit of slots *)

\* Whatever runs has a slot or is a child.
LEMMA RunningBound ==
    ASSUME NEW cl, NEW kids, NEW active, NEW id, Sound(cl, kids, active, id)
    PROVE  /\ Running(cl) = Cardinality(Runs(cl)) /\ IsFiniteSet(Runs(cl))
           /\ Running(cl) \in Nat /\ Running(cl) <= kids + active
  <1> DEFINE half == {c \in Works(cl) : ~cl[c].fulljob}
             full == {c \in Works(cl) : cl[c].fulljob}
  <1>1. IsFiniteSet(DOMAIN cl)
    BY ClientBound, FiniteClients DEF Sound
  <1>2. IsFiniteSet(Children(cl)) /\ IsFiniteSet(Works(cl)) /\ IsFiniteSet(half) /\ IsFiniteSet(full)
    BY <1>1, FS_Subset DEF Children, Works
  <1>3. Compilers(cl) \subseteq Children(cl)
    BY DEF Compilers, Children, Sound, Good
  <1>4. /\ Cardinality(Compilers(cl)) \in Nat /\ Cardinality(Children(cl)) \in Nat
        /\ Cardinality(Compilers(cl)) <= Cardinality(Children(cl))
    <2>1. IsFiniteSet(Compilers(cl)) /\ Cardinality(Compilers(cl)) <= Cardinality(Children(cl))
      BY <1>2, <1>3, FS_Subset
    <2> QED BY <1>2, <2>1, FS_CardinalityType
  <1>5. half \cup full = Works(cl) /\ half \cap full = {}
    BY DEF Sound
  <1>6. /\ Cardinality(half) \in Nat /\ Cardinality(full) \in Nat
    BY <1>2, FS_CardinalityType
  <1>7. Reserved(cl) = Cardinality(half) + Slots * Cardinality(full)
    BY DEF Reserved
  <1>8. Cardinality(half \cup full) = Cardinality(half) + Cardinality(full) - Cardinality(half \cap full)
    BY <1>2, FS_Union
  <1>9. Cardinality({}) = 0
    BY FS_EmptySet
  <1> DEFINE nh == Cardinality(half)
             nf == Cardinality(full)
  <1>10. Cardinality(Works(cl)) = nh + nf
    <2>1. Cardinality(half \cap full) = 0
      BY <1>5, <1>9
    <2>2. Cardinality(Works(cl)) = Cardinality(half \cup full)
      BY <1>5
    <2> QED BY <1>6, <1>8, <2>1, <2>2
  <1>11. nh \in Nat /\ nf \in Nat /\ Reserved(cl) = nh + Slots * nf
    BY <1>6, <1>7
  <1> HIDE DEF nh, nf
  <1>12. Slots * nf >= nf /\ Slots * nf \in Nat
    BY <1>11, SlotsPositive
  <1>13. Running(cl) \in Nat /\ Running(cl) <= kids + active
    BY <1>4, <1>10, <1>11, <1>12 DEF Running, Sound
  <1>14. /\ Runs(cl) = Works(cl) \cup Compilers(cl) /\ Works(cl) \cap Compilers(cl) = {}
         /\ IsFiniteSet(Compilers(cl)) /\ IsFiniteSet(Runs(cl))
    BY <1>1, FS_Subset DEF Runs, Works, Compilers
  <1>15. Running(cl) = Cardinality(Runs(cl))
    <2>1. Cardinality(Works(cl) \cup Compilers(cl)) =
             Cardinality(Works(cl)) + Cardinality(Compilers(cl)) - Cardinality(Works(cl) \cap Compilers(cl))
      BY <1>2, <1>14, FS_Union
    <2>2. Cardinality(Works(cl)) \in Nat /\ Cardinality(Works(cl) \cap Compilers(cl)) = 0
      BY <1>2, <1>9, <1>14, FS_CardinalityType
    <2> QED BY <1>4, <1>14, <2>1, <2>2 DEF Running
  <1> QED BY <1>13, <1>14, <1>15

\* A handler's end starts at most the job that the handler has started.
LEMMA FinishStartsOne ==
    ASSUME NEW c \in DOMAIN clients, NEW r, NEW kids, NEW active, NEW sends, NEW k, NEW sent, NEW clears,
           Finish(Changes(c, r), kids, active, sends, k, sent, clears)
    PROVE  Runs(clients') \subseteq Runs(clients) \cup {c}
  BY DEF Finish, Changes, NoClients, Runs

\* handle_old_request starts one job at most, and only where there is a slot for it.
LEMMA OldRequestsStartOne ==
    ASSUME DaemonInv, handle_old_request
    PROVE  \/ Runs(clients') \subseteq Runs(clients)
           \/ SlotFree /\ \E c \in DOMAIN clients : Runs(clients') \subseteq Runs(clients) \cup {c}
  <1>1. CASE NothingToStart
    BY <1>1 DEF NothingToStart
  <1>2. ASSUME NEW c \in DOMAIN clients, NEW goodbye, NEW sent, NEW clears, handle_end(c, goodbye, sent, clears)
        PROVE  Runs(clients') \subseteq Runs(clients)
    BY <1>2, HandleEndStartsNone DEF Starts
  <1>3. ASSUME NEW c \in DOMAIN clients, NEW ok \in BOOLEAN, NEW sent \in BOOLEAN, StartLocal(c, ok, sent)
        PROVE  SlotFree /\ Runs(clients') \subseteq Runs(clients) \cup {c}
    <2>1. SlotFree
      BY <1>3 DEF StartLocal
    <2>2. CASE ok
      BY <1>3, <2>1, <2>2, FinishStartsOne DEF StartLocal
    <2>3. CASE ~ok
      BY <1>2, <1>3, <2>1, <2>3 DEF StartLocal
    <2> QED BY <2>2, <2>3
  <1>4. ASSUME NEW c \in DOMAIN clients, NEW ok \in BOOLEAN, NEW sent \in BOOLEAN, StartPending(c, ok, sent)
        PROVE  SlotFree /\ Runs(clients') \subseteq Runs(clients) \cup {c}
    <2>1. SlotFree
      BY <1>4 DEF StartPending
    <2>2. CASE ok
      BY <1>4, <2>1, <2>2, FinishStartsOne DEF StartPending
    <2>3. CASE ~ok
      BY <1>2, <1>4, <2>1, <2>3 DEF StartPending
    <2> QED BY <2>2, <2>3
  <1>5. ASSUME NEW c \in DOMAIN clients, NEW ok \in BOOLEAN, NEW sent \in BOOLEAN, StartCompile(c, ok, sent)
        PROVE  SlotFree /\ Runs(clients') \subseteq Runs(clients) \cup {c}
    <2>1. SlotFree
      BY <1>5 DEF StartCompile
    <2>2. CASE ok
      BY <1>5, <2>1, <2>2, FinishStartsOne DEF StartCompile
    <2>3. CASE ~ok
      BY <1>2, <1>5, <2>1, <2>3 DEF StartCompile
    <2> QED BY <2>2, <2>3
  <1> QED BY <1>1, <1>3, <1>4, <1>5 DEF handle_old_request

\* No step exceeds the limit: a job starts only while the counters, which are never below
\* what runs, leave a slot.
LEMMA LimitStep ==
    ASSUME DaemonInv, SlotLimit, Next, DaemonInv'
    PROVE  SlotLimit'
  <1> DEFINE now == Runs(clients)
             then == Runs(clients')
  <1>1. /\ IsFiniteSet(now) /\ Cardinality(now) \in Nat /\ Cardinality(now) <= Slots
        /\ Cardinality(now) <= current_kids + active_processes
    <2>1. Sound(clients, current_kids, active_processes, new_client_id)
      BY DEF DaemonInv
    <2>2. Running(clients) <= Slots
      BY DEF SlotLimit, Running, Compilers
    <2> QED BY <2>1, <2>2, RunningBound
  <1>2. IsFiniteSet(then) /\ Running(clients') = Cardinality(then)
    <2>1. Sound(clients', current_kids', active_processes', new_client_id')
      BY DEF DaemonInv
    <2> QED BY <2>1, RunningBound
  <1>3. SlotLimit' <=> Cardinality(then) <= Slots
    <2>1. SlotLimit' <=> Running(clients') <= Slots
      BY DEF SlotLimit, Running, Compilers
    <2> QED BY <1>2, <2>1
  <1> HIDE DEF now, then
  <1>4. CASE then \subseteq now
    <2>1. Cardinality(then) \in Nat /\ Cardinality(then) <= Cardinality(now)
      BY <1>1, <1>2, <1>4, FS_Subset, FS_CardinalityType
    <2> QED BY <1>1, <1>3, <2>1, SlotsPositive
  <1>5. ASSUME SlotFree, NEW c, then \subseteq now \cup {c}
        PROVE  SlotLimit'
    <2>1. IsFiniteSet(now \cup {c}) /\ Cardinality(now \cup {c}) <= Cardinality(now) + 1
          /\ Cardinality(now \cup {c}) \in Nat
      BY <1>1, FS_AddElement, FS_CardinalityType
    <2>2. Cardinality(then) \in Nat /\ Cardinality(then) <= Cardinality(now \cup {c})
      BY <1>2, <1>5, <2>1, FS_Subset, FS_CardinalityType
    <2>3. current_kids \in Nat /\ active_processes \in Nat /\ current_kids + active_processes < Slots
      BY <1>5 DEF SlotFree, DaemonInv, Sound
    <2> QED BY <1>1, <1>3, <2>1, <2>2, <2>3, SlotsPositive
  <1>6. CASE handle_old_request
    BY <1>4, <1>5, <1>6, OldRequestsStartOne DEF now, then
  <1>7. CASE ~handle_old_request
    BY <1>4, <1>7, OnlyOldRequestsStart DEF Starts, now, then
  <1> QED BY <1>6, <1>7

\* No more jobs run on the machine than std::max(1, max_kids), whoever runs them and however
\* many servers a client asks for: handle_old_request tests current_kids + active_processes
\* before it starts one.
THEOREM SlotsNeverExceeded == Spec => []SlotLimit
  <1>1. Init => DaemonInv
    BY DaemonStart
  <1>2. DaemonInv /\ [Next]_vars => DaemonInv'
    BY DaemonStep
  <1>3. Init => SlotLimit
    <2> SUFFICES ASSUME Init PROVE SlotLimit
      OBVIOUS
    <2>1. DOMAIN clients = {}
      BY DEF Init, NoClients
    <2>2. Works(clients) = {} /\ {c \in DOMAIN clients : clients[c].status = "WAITFORCHILD"} = {}
      BY <2>1 DEF Works
    <2> QED BY <2>2, FS_EmptySet, SlotsPositive DEF SlotLimit
  <1>4. DaemonInv /\ SlotLimit /\ [Next]_vars /\ DaemonInv' => SlotLimit'
    <2>1. ASSUME UNCHANGED vars, SlotLimit PROVE SlotLimit'
      BY <2>1 DEF vars, SlotLimit, Works, Slots
    <2> QED BY <2>1, LimitStep
  <1> QED BY <1>1, <1>2, <1>3, <1>4, PTL DEF Spec

-----------------------------------------------------------------------------
(***************************************************************************)
(* The case in which every client asks for one server (Counts = {1}), as   *)
(* clients do unless ICECC_REPEAT_RATE is set: then an answer of the       *)
(* scheduler always finds its client where it left it, in WAITFORCS.  With *)
(* more than one answer for a client none of the theorems of this part     *)
(* holds, as TLC shows: the second finds the client at work and takes its  *)
(* slot and its first job from it.                                         *)
(***************************************************************************)

-----------------------------------------------------------------------------
(* The invariant *)

\* A client has one job at most, and children only where they are waited for.
Single(r) ==
    /\ r.child => r.status \in {"TOINSTALL", "WAITINSTALL", "WAITFORCHILD"}
    /\ r.status \in {"WAITFORCS", "TOCOMPILE", "WAITFORCHILD"} => r.job_id = 0
    /\ r.status \notin {"CLIENTWORK", "TOCOMPILE", "WAITFORCHILD"} => r.told = {} /\ r.compiles = {}
    /\ r.status \in {"TOCOMPILE", "WAITFORCHILD"} => r.told = {}
    /\ r.status = "CLIENTWORK" => /\ r.told \subseteq {r.job_id} /\ r.compiles \subseteq {r.job_id}
                                  /\ r.told = {} \/ r.compiles = {}

\* The counters are what the clients' states say.
Exact(cl, kids, active) ==
    /\ kids = Cardinality(Children(cl))
    /\ active = Reserved(cl)
    /\ \A d \in DOMAIN cl : Single(cl[d])

SettledIn(cl, k, g) ==
    \/ g \in k.inbox
    \/ g.job \in k.handed
    \/ g.client \in DOMAIN cl /\ cl[g.client].job_id = g.job

\* A request of a client that waits for it, for one server, with no answer yet.
AskedOnce(cl, k) ==
    \A w \in k.waiting : /\ w[2] = 1
                         /\ w[1] \in DOMAIN cl => cl[w[1]].status = "WAITFORCS"
                         /\ \A a \in k.inbox : a.client # w[1]

\* One answer for a client, which waits for it.
AnsweredOnce(cl, k) ==
    \A a \in k.inbox : /\ a.client \in DOMAIN cl => cl[a.client].status = "WAITFORCS"
                       /\ \A b \in k.inbox : a.client = b.client => a = b

\* What the scheduler has given to this machine is settled.
SettledAll(cl, k) == \A g \in k.given : g.job > 0 /\ (g.here => SettledIn(cl, k, g))

Fair(cl, k) == AskedOnce(cl, k) /\ AnsweredOnce(cl, k) /\ SettledAll(cl, k)

OnceInv ==
    /\ DaemonInv
    /\ Exact(clients, current_kids, active_processes)
    /\ Fair(clients, known)

-----------------------------------------------------------------------------
(* Counting *)

\* A client changes.
LEMMA ChangeExact ==
    ASSUME NEW cl, NEW kids, NEW active, NEW id, Sound(cl, kids, active, id), Exact(cl, kids, active),
           NEW c \in DOMAIN cl, NEW r \in ClientState, Single(r), NEW kids2 \in Int, NEW active2 \in Int,
           kids2 - Kid(r) = kids - Kid(cl[c]),
           active2 - GivenBack(r) = active - GivenBack(cl[c])
    PROVE  Exact([cl EXCEPT ![c] = r], kids2, active2)
  <1> DEFINE g == [cl EXCEPT ![c] = r]
  <1>1. IsFiniteSet(DOMAIN cl)
    BY ClientBound, FiniteClients DEF Sound
  <1>2. DOMAIN g = DOMAIN cl /\ g[c] = r /\ \A d \in DOMAIN cl \ {c} : g[d] = cl[d]
    BY DEF Sound
  <1>3. g \in [DOMAIN g -> ClientState] /\ SameBut(cl, g, c) /\ \A d \in DOMAIN g : Single(g[d])
    BY DEF Sound, Exact, SameBut
  <1> HIDE DEF g
  <1>4. /\ SlotsOf(cl, c) = GivenBack(cl[c]) /\ SlotsOf(g, c) = GivenBack(r)
        /\ KidOf(cl, c) = Kid(cl[c]) /\ KidOf(g, c) = Kid(r)
    BY <1>2 DEF SlotsOf, KidOf
  <1>5. /\ GivenBack(r) \in Nat /\ GivenBack(cl[c]) \in Nat /\ Kid(cl[c]) \in Nat /\ Kid(r) \in Nat
    BY SlotsPositive DEF GivenBack, Weight, Kid
  <1>6. kids2 = Cardinality(Children(g))
    BY <1>1, <1>2, <1>3, <1>4, <1>5, Books DEF Sound, Exact
  <1>7. active2 = Reserved(g)
    BY <1>1, <1>2, <1>3, <1>4, <1>5, Books DEF Sound, Exact
  <1> QED BY <1>3, <1>6, <1>7 DEF Exact, g

\* A client ends.
LEMMA EndExact ==
    ASSUME NEW cl, NEW kids, NEW active, NEW id, Sound(cl, kids, active, id), Exact(cl, kids, active),
           NEW c \in DOMAIN cl, NEW kids2 \in Int, NEW active2 \in Int,
           kids2 = kids - Kid(cl[c]), active2 = active - GivenBack(cl[c])
    PROVE  Exact([d \in DOMAIN cl \ {c} |-> cl[d]], kids2, active2)
  <1> DEFINE g == [d \in DOMAIN cl \ {c} |-> cl[d]]
  <1>1. IsFiniteSet(DOMAIN cl) /\ IsFiniteSet(DOMAIN cl \ {c})
    BY ClientBound, FiniteClients DEF Sound
  <1>2. DOMAIN g = DOMAIN cl \ {c} /\ \A d \in DOMAIN g : g[d] = cl[d]
    OBVIOUS
  <1>3. g \in [DOMAIN g -> ClientState] /\ SameBut(cl, g, c) /\ \A d \in DOMAIN g : Single(g[d])
    BY DEF Sound, SameBut, Exact
  <1> HIDE DEF g
  <1>4. /\ SlotsOf(cl, c) = GivenBack(cl[c]) /\ SlotsOf(g, c) = 0
        /\ KidOf(cl, c) = Kid(cl[c]) /\ KidOf(g, c) = 0
    BY <1>2 DEF SlotsOf, KidOf
  <1>5. GivenBack(cl[c]) \in Nat /\ Kid(cl[c]) \in Nat
    BY SlotsPositive DEF GivenBack, Weight, Kid
  <1>6. kids2 = Cardinality(Children(g))
    BY <1>1, <1>2, <1>3, <1>4, <1>5, Books DEF Sound, Exact
  <1>7. active2 = Reserved(g)
    BY <1>1, <1>2, <1>3, <1>4, <1>5, Books DEF Sound, Exact
  <1> QED BY <1>3, <1>6, <1>7 DEF Exact, g

\* No clients.
LEMMA NobodyExact == Exact(NoClients, 0, 0)
  <1>1. DOMAIN NoClients = {}
    BY DEF NoClients
  <1>2. Children(NoClients) = {} /\ Works(NoClients) = {}
    BY <1>1 DEF Children, Works
  <1>3. /\ {c \in Works(NoClients) : ~NoClients[c].fulljob} = {}
        /\ {c \in Works(NoClients) : NoClients[c].fulljob} = {}
    BY <1>2
  <1>4. Cardinality({}) = 0
    BY FS_EmptySet
  <1>5. Cardinality(Children(NoClients)) = 0 /\ Reserved(NoClients) = 0
    BY <1>2, <1>3, <1>4, SlotsPositive DEF Reserved
  <1> QED BY <1>1, <1>5, SlotsPositive DEF Exact

-----------------------------------------------------------------------------
(* What the scheduler knows *)

\* Who knows nothing has nothing wrong.
LEMMA QuietFair ==
    ASSUME NEW cl, NEW k, Quiet(k)
    PROVE  Fair(cl, k)
  BY DEF Quiet, Fair, AskedOnce, AnsweredOnce, SettledAll

\* A client changes that does not wait for the scheduler.
LEMMA ChangeFair ==
    ASSUME NEW cl, NEW k, Fair(cl, k), NEW c \in DOMAIN cl, NEW r, cl[c].status # "WAITFORCS",
           r.job_id = cl[c].job_id \/ \A g \in k.given : g.job # cl[c].job_id
    PROVE  Fair([cl EXCEPT ![c] = r], k)
  <1> DEFINE n == [cl EXCEPT ![c] = r]
  <1>1. DOMAIN n = DOMAIN cl /\ \A d \in DOMAIN cl : n[d] = IF d = c THEN r ELSE cl[d]
    OBVIOUS
  <1> HIDE DEF n
  <1>2. \A g \in k.given : g.job > 0 /\ (g.here => SettledIn(n, k, g))
    BY <1>1 DEF Fair, AskedOnce, AnsweredOnce, SettledAll, SettledIn
  <1>3. Fair(n, k)
    BY <1>1, <1>2 DEF Fair, AskedOnce, AnsweredOnce, SettledAll
  <1> QED BY <1>3 DEF n

\* A client ends, and its job was done or handed over.
LEMMA EndFair ==
    ASSUME NEW cl, NEW k, Fair(cl, k), NEW c \in DOMAIN cl,
           \A g \in k.given : g.job # cl[c].job_id \/ g.job \in k.handed
    PROVE  Fair([d \in DOMAIN cl \ {c} |-> cl[d]], k)
  <1> DEFINE n == [d \in DOMAIN cl \ {c} |-> cl[d]]
  <1>1. DOMAIN n = DOMAIN cl \ {c} /\ \A d \in DOMAIN n : n[d] = cl[d]
    OBVIOUS
  <1> HIDE DEF n
  <1>2. \A g \in k.given : g.job > 0 /\ (g.here => SettledIn(n, k, g))
    BY <1>1 DEF Fair, AskedOnce, AnsweredOnce, SettledAll, SettledIn
  <1>3. Fair(n, k)
    BY <1>1, <1>2 DEF Fair, AskedOnce, AnsweredOnce, SettledAll
  <1> QED BY <1>3 DEF n

\* The daemon's messages leave what is settled settled.
LEMMA MessagesFair ==
    ASSUME NEW cl, known \in Knowledge, Fair(cl, known), NEW c, NEW j \in Nat
    PROVE  /\ Fair(cl, Cancelled(c)) /\ Cancelled(c).given = known.given
           /\ Fair(cl, JobDone(j)) /\ \A g \in JobDone(j).given : g \in known.given /\ g.job # j
           /\ Fair(cl, HandedOver(j)) /\ HandedOver(j).given = known.given /\ j \in HandedOver(j).handed
           /\ Fair(cl, LocalBegun(c)) /\ LocalBegun(c).given = known.given
           /\ Fair(cl, LocalDone(c)) /\ LocalDone(c).given = known.given
  <1>1. Fair(cl, Cancelled(c)) /\ Cancelled(c).given = known.given
    <2>1. /\ Cancelled(c).waiting \subseteq known.waiting /\ Cancelled(c).inbox = known.inbox
          /\ Cancelled(c).given = known.given /\ Cancelled(c).handed = known.handed
      BY DEF Cancelled, Knowledge
    <2> QED BY <2>1 DEF Fair, AskedOnce, AnsweredOnce, SettledAll, SettledIn
  <1>2. Fair(cl, JobDone(j)) /\ \A g \in JobDone(j).given : g \in known.given /\ g.job # j
    <2>1. /\ JobDone(j).waiting = known.waiting /\ JobDone(j).inbox = known.inbox
          /\ JobDone(j).given = {g \in known.given : g.job # j} /\ JobDone(j).handed = known.handed \ {j}
      BY DEF JobDone, Knowledge
    <2> QED BY <2>1 DEF Fair, AskedOnce, AnsweredOnce, SettledAll, SettledIn
  <1>3. Fair(cl, HandedOver(j)) /\ HandedOver(j).given = known.given /\ j \in HandedOver(j).handed
    <2>1. /\ HandedOver(j).waiting = known.waiting /\ HandedOver(j).inbox = known.inbox
          /\ HandedOver(j).given = known.given /\ HandedOver(j).handed = known.handed \cup {j}
      BY DEF HandedOver, Knowledge
    <2> QED BY <2>1 DEF Fair, AskedOnce, AnsweredOnce, SettledAll, SettledIn
  <1>4. Fair(cl, LocalBegun(c)) /\ LocalBegun(c).given = known.given
    <2>1. /\ LocalBegun(c).waiting = known.waiting /\ LocalBegun(c).inbox = known.inbox
          /\ LocalBegun(c).given = known.given /\ LocalBegun(c).handed = known.handed
      BY DEF LocalBegun, Knowledge
    <2> QED BY <2>1 DEF Fair, AskedOnce, AnsweredOnce, SettledAll, SettledIn
  <1>5. Fair(cl, LocalDone(c)) /\ LocalDone(c).given = known.given
    <2>1. /\ LocalDone(c).waiting = known.waiting /\ LocalDone(c).inbox = known.inbox
          /\ LocalDone(c).given = known.given /\ LocalDone(c).handed = known.handed
      BY DEF LocalDone, Knowledge
    <2> QED BY <2>1 DEF Fair, AskedOnce, AnsweredOnce, SettledAll, SettledIn
  <1> QED BY <1>1, <1>2, <1>3, <1>4, <1>5

-----------------------------------------------------------------------------
(* The ends of handlers *)

\* What the steps add to DaemonInv.
Once == Exact(clients, current_kids, active_processes) /\ Fair(clients, known)

\* All clients are gone and so is the connection.
LEMMA ClearedOnce ==
    ASSUME known \in Knowledge, known' = Forgotten(known), clients' = NoClients,
           current_kids' = 0, active_processes' = 0
    PROVE  Once'
  <1>1. Fair(clients', known')
    BY ForgottenTypes, QuietFair
  <1>2. Exact(clients', current_kids', active_processes')
    BY NobodyExact
  <1> QED BY <1>1, <1>2 DEF Once

\* A handler that leaves exact counters.
LEMMA FinishOnce ==
    ASSUME OnceInv, NEW cl, NEW kids, NEW active, NEW sends, NEW k, NEW sent, NEW clears,
           Finish(cl, kids, active, sends, k, sent, clears),
           Exact(cl, kids, active), Sound(cl, kids, active, new_client_id), scheduler => Fair(cl, k)
    PROVE  Once'
  <1>1. known \in Knowledge
    BY Counters DEF OnceInv
  <1>2. CASE sends /\ scheduler /\ ~sent
    <2>1. CASE clears
      <3>1. active - Reserved(cl) = 0
        BY DEF Exact, Sound
      <3> QED BY <1>1, <1>2, <2>1, <3>1, ClearedOnce DEF Finish
    <2>2. CASE ~clears
      <3>1. known' = Forgotten(known) /\ clients' = cl /\ current_kids' = kids /\ active_processes' = active
        BY <1>2, <2>2 DEF Finish
      <3>2. Fair(clients', known')
        BY <1>1, <3>1, ForgottenTypes, QuietFair
      <3> QED BY <3>1, <3>2 DEF Once
    <2> QED BY <2>1, <2>2
  <1>3. CASE ~(sends /\ scheduler /\ ~sent)
    <2>1. /\ known' = IF scheduler THEN k ELSE known
          /\ clients' = cl /\ current_kids' = kids /\ active_processes' = active
      BY <1>3 DEF Finish
    <2>2. Fair(clients', known')
      <3>1. CASE scheduler
        BY <2>1, <3>1
      <3>2. CASE ~scheduler
        BY <2>1, <3>2, QuietFair DEF OnceInv, DaemonInv, Offline
      <3> QED BY <3>1, <3>2
    <2> QED BY <2>1, <2>2 DEF Once
  <1> QED BY <1>2, <1>3

\* What the invariant says of one client.
LEMMA OneClientOnce ==
    ASSUME OnceInv, NEW c \in DOMAIN clients
    PROVE  /\ clients[c] \in ClientState /\ Good(clients[c]) /\ Single(clients[c])
           /\ GivenBack(clients[c]) \in Nat /\ Kid(clients[c]) \in 0 .. 1
           /\ clients[c].job_id \in Nat /\ clients[c].job \in Nat
  BY OneClient DEF OnceInv, Exact, ClientState

\* What handlers need of the counters and of the scheduler.
LEMMA CountersOnce ==
    ASSUME OnceInv
    PROVE  /\ current_kids \in Int /\ active_processes \in Int
           /\ known \in Knowledge /\ Fair(clients, known)
           /\ Sound(clients, current_kids, active_processes, new_client_id)
           /\ Exact(clients, current_kids, active_processes)
  BY Counters DEF OnceInv, DaemonInv

\* A handler that changes one client that does not wait for the scheduler.
LEMMA ChangeOnce ==
    ASSUME OnceInv, NEW c \in DOMAIN clients, NEW r, Good(r), Single(r), NEW kids \in Int, NEW active \in Int,
           kids - Kid(r) = current_kids - Kid(clients[c]),
           active - GivenBack(r) = active_processes - GivenBack(clients[c]),
           clients[c].status # "WAITFORCS",
           NEW sends, NEW k, NEW sent, NEW clears,
           Finish(Changes(c, r), kids, active, sends, k, sent, clears),
           Fair(clients, k), r.job_id = clients[c].job_id \/ \A g \in k.given : g.job # clients[c].job_id
    PROVE  Once'
  <1> DEFINE cl == Changes(c, r)
  <1>1. kids - Kid(r) >= current_kids - Kid(clients[c]) /\ active - GivenBack(r) >= active_processes - GivenBack(clients[c])
    <2>1. GivenBack(r) \in Nat /\ Kid(r) \in Nat
      BY SlotsPositive DEF GivenBack, Weight, Kid
    <2> QED BY <2>1, OneClientOnce, CountersOnce
  <1>2. Sound(cl, kids, active, new_client_id)
    BY <1>1, ChangeSound, CountersOnce DEF Changes
  <1>4. r \in ClientState
    BY DEF Good
  <1>5. Exact(cl, kids, active)
    BY <1>4, ChangeExact, CountersOnce DEF Changes
  <1>6. Fair(cl, k)
    BY ChangeFair DEF Changes
  <1> HIDE DEF cl
  <1>7. Finish(cl, kids, active, sends, k, sent, clears)
    BY DEF cl
  <1> QED BY <1>2, <1>5, <1>6, <1>7, FinishOnce

\* A handler that changes one client, and sends nothing.
LEMMA BecomesOnce ==
    ASSUME OnceInv, NEW c \in DOMAIN clients, NEW r, Good(r), Single(r), Becomes(c, r),
           r.child = clients[c].child, GivenBack(r) = GivenBack(clients[c]),
           clients[c].status # "WAITFORCS",
           r.job_id = clients[c].job_id \/ ~scheduler
    PROVE  Once'
  <1>1. Finish(Changes(c, r), current_kids, active_processes, FALSE, known, TRUE, FALSE)
    BY DEF Becomes, Finish
  <1>2. current_kids \in Int /\ active_processes \in Int /\ Fair(clients, known)
    BY CountersOnce
  <1>3. Kid(r) = Kid(clients[c])
    BY DEF Kid
  <1>4. /\ current_kids - Kid(r) = current_kids - Kid(clients[c])
        /\ active_processes - GivenBack(r) = active_processes - GivenBack(clients[c])
    BY <1>3
  <1>5. r.job_id = clients[c].job_id \/ \A g \in known.given : g.job # clients[c].job_id
    BY DEF OnceInv, DaemonInv, Offline, Quiet
  <1> QED BY <1>1, <1>2, <1>4, <1>5, ChangeOnce

\* A handler after which the clients and counters are as before.
LEMMA TellsOnce ==
    ASSUME OnceInv, NEW sends, NEW sent, NEW clears,
           Finish(clients, current_kids, active_processes, sends, known, sent, clears)
    PROVE  Once'
  BY CountersOnce, FinishOnce

\* What a client that ends reports leaves nothing of its job that is not handed over.
LEMMA ReportFair ==
    ASSUME OnceInv, NEW c \in DOMAIN clients, NEW goodbye \in BOOLEAN
    PROVE  /\ Fair(clients, Report(c, goodbye))
           /\ \A g \in Report(c, goodbye).given :
                 g.job # clients[c].job_id \/ g.job \in Report(c, goodbye).handed
  <1>1. known \in Knowledge /\ Fair(clients, known) /\ \A g \in known.given : g.job > 0
    BY CountersOnce DEF Fair, AskedOnce, AnsweredOnce, SettledAll
  <1>2. /\ clients[c].job_id \in Nat /\ clients[c].job \in Nat /\ Single(clients[c])
    BY OneClientOnce
  <1>3. EndJobId(c, goodbye) \in Nat
    BY <1>2 DEF EndJobId
  <1>4. CASE clients[c].job_id = 0
    <2>1. Report(c, goodbye) \in {Cancelled(c), HandedOver(clients[c].job_id), JobDone(EndJobId(c, goodbye)),
                                  LocalDone(c), known}
      BY DEF Report
    <2> QED BY <1>1, <1>2, <1>3, <1>4, <2>1, MessagesFair
  <1>5. CASE clients[c].job_id # 0
    <2>1. clients[c].status \notin {"WAITFORCS", "TOCOMPILE", "WAITFORCHILD"}
      BY <1>2, <1>5 DEF Single
    <2>2. CASE clients[c].status = "WAITCOMPILE" /\ goodbye
      <3>1. Report(c, goodbye) = HandedOver(clients[c].job_id)
        BY <2>2 DEF Report
      <3>2. /\ HandedOver(clients[c].job_id).given = known.given
            /\ clients[c].job_id \in HandedOver(clients[c].job_id).handed
            /\ Fair(clients, HandedOver(clients[c].job_id))
        BY <1>1, <1>2, MessagesFair
      <3> QED BY <3>1, <3>2
    <2>3. CASE ~(clients[c].status = "WAITCOMPILE" /\ goodbye)
      <3>1. EndJobId(c, goodbye) = clients[c].job_id
        BY <2>1, <2>3 DEF EndJobId
      <3>2. Report(c, goodbye) = JobDone(clients[c].job_id)
        BY <1>2, <1>5, <2>1, <2>3, <3>1 DEF Report
      <3> QED BY <1>1, <1>2, <3>2, MessagesFair
    <2> QED BY <2>2, <2>3
  <1> QED BY <1>4, <1>5

\* handle_end, of a client without a compiler
LEMMA HandleEndOnce ==
    ASSUME OnceInv, NEW c \in DOMAIN clients, clients[c].status # "WAITFORCHILD", NEW goodbye \in BOOLEAN,
           NEW sent, NEW clears, handle_end(c, goodbye, sent, clears)
    PROVE  Once'
  <1> DEFINE kids == current_kids - (IF Installing(c) /\ clients[c].child THEN 1 ELSE 0)
             active == active_processes - GivenBack(clients[c])
             k == Report(c, goodbye)
  <1>1. Finish(Others(c), kids, active, EndSends(c, goodbye), k, sent, clears)
    BY DEF handle_end
  <1>2. /\ GivenBack(clients[c]) \in Nat /\ Kid(clients[c]) \in 0 .. 1
        /\ current_kids \in Int /\ active_processes \in Int
    BY OneClientOnce, CountersOnce
  <1>3. Kid(clients[c]) = IF Installing(c) /\ clients[c].child THEN 1 ELSE 0
    BY OneClientOnce DEF Single, Kid, Installing
  <1>4. /\ kids \in Int /\ active \in Int /\ kids = current_kids - Kid(clients[c])
        /\ active = active_processes - GivenBack(clients[c])
        /\ kids >= current_kids - Kid(clients[c]) /\ active >= active_processes - GivenBack(clients[c])
    BY <1>2, <1>3
  <1> HIDE DEF kids, active
  <1>5. Sound(Others(c), kids, active, new_client_id)
    BY <1>4, EndSound, CountersOnce DEF Others
  <1>6. Exact(Others(c), kids, active)
    BY <1>4, EndExact, CountersOnce DEF Others
  <1>7. Fair(Others(c), k)
    BY ReportFair, EndFair DEF Others
  <1> HIDE DEF k
  <1> QED BY <1>1, <1>5, <1>6, <1>7, FinishOnce

-----------------------------------------------------------------------------
(* The handlers *)

\* A client that waits for a local slot.
LEMMA StartLocalOnce ==
    ASSUME OnceInv, NEW c, NEW got \in BOOLEAN, NEW sent \in BOOLEAN, StartLocal(c, got, sent)
    PROVE  Once'
  <1>1. c \in DOMAIN clients /\ clients[c].status = "LINKJOB"
    BY DEF StartLocal, get_earliest_client
  <1>2. clients[c] \in ClientState /\ Good(clients[c]) /\ Single(clients[c])
    BY <1>1, OneClientOnce
  <1>3. CASE got
    <2> DEFINE r == [clients[c] EXCEPT !.status = "CLIENTWORK"]
               k == LocalBegun(c)
               active == active_processes + Weight(clients[c])
    <2>1. Finish(Changes(c, r), current_kids, active, TRUE, k, sent, FALSE)
      BY <1>3 DEF StartLocal
    <2>2. /\ r \in ClientState /\ r.status = "CLIENTWORK" /\ r.child = clients[c].child
          /\ r.fulljob = clients[c].fulljob /\ r.job_id = clients[c].job_id
          /\ r.told = clients[c].told /\ r.compiles = clients[c].compiles
      BY <1>2 DEF ClientState, Status
    <2> HIDE DEF r
    <2>3. Good(r) /\ Single(r)
      BY <1>1, <1>2, <2>2 DEF Good, Single, HasJob, Early
    <2>4. /\ Kid(r) = Kid(clients[c]) /\ Kid(r) \in Int /\ GivenBack(clients[c]) = 0
          /\ GivenBack(r) = Weight(clients[c]) /\ Weight(clients[c]) \in Int
      BY <1>1, <2>2, SlotsPositive DEF Kid, GivenBack, Weight
    <2>5. /\ current_kids \in Int /\ active \in Int
          /\ current_kids - Kid(r) = current_kids - Kid(clients[c])
          /\ active - GivenBack(r) = active_processes - GivenBack(clients[c])
      BY <2>4, CountersOnce
    <2>6. Fair(clients, k)
      BY CountersOnce, MessagesFair
    <2>7. clients[c].status # "WAITFORCS"
      BY <1>1
    <2> HIDE DEF active, k
    <2> QED BY <1>1, <2>1, <2>2, <2>3, <2>5, <2>6, <2>7, ChangeOnce
  <1>4. CASE ~got
    <2>1. handle_end(c, FALSE, sent, FALSE) /\ clients[c].status # "WAITFORCHILD"
      BY <1>1, <1>4 DEF StartLocal
    <2> QED BY <1>1, <2>1, HandleEndOnce
  <1> QED BY <1>3, <1>4

\* A client that was told to compile itself.
LEMMA StartPendingOnce ==
    ASSUME OnceInv, NEW c, NEW got \in BOOLEAN, NEW sent \in BOOLEAN, StartPending(c, got, sent)
    PROVE  Once'
  <1>1. c \in DOMAIN clients /\ clients[c].status = "PENDING_USE_CS"
    BY DEF StartPending, get_earliest_client
  <1>2. clients[c] \in ClientState /\ Good(clients[c]) /\ Single(clients[c])
    BY <1>1, OneClientOnce
  <1>3. CASE got
    <2> DEFINE r == [clients[c] EXCEPT !.status = "CLIENTWORK",
                                       !.told = clients[c].told \cup {clients[c].job_id}]
               active == active_processes + 1
    <2>1. Finish(Changes(c, r), current_kids, active, FALSE, known, sent, FALSE)
      BY <1>3 DEF StartPending
    <2>2. /\ r \in ClientState /\ r.status = "CLIENTWORK" /\ r.child = clients[c].child
          /\ r.fulljob = clients[c].fulljob /\ r.job_id = clients[c].job_id
          /\ r.told = clients[c].told \cup {clients[c].job_id} /\ r.compiles = clients[c].compiles
      BY <1>2 DEF ClientState, Status
    <2> HIDE DEF r
    <2>3. Good(r) /\ Single(r)
      BY <1>1, <1>2, <2>2 DEF Good, Single, HasJob, Early
    <2>4. /\ Kid(r) = Kid(clients[c]) /\ Kid(r) \in Int /\ GivenBack(clients[c]) = 0 /\ GivenBack(r) = 1
      BY <1>1, <1>2, <2>2 DEF Kid, GivenBack, Weight, Good
    <2>5. /\ current_kids \in Int /\ active \in Int
          /\ current_kids - Kid(r) = current_kids - Kid(clients[c])
          /\ active - GivenBack(r) = active_processes - GivenBack(clients[c])
      BY <2>4, CountersOnce
    <2>6. Fair(clients, known) /\ clients[c].status # "WAITFORCS"
      BY <1>1, CountersOnce
    <2> HIDE DEF active
    <2> QED BY <1>1, <2>1, <2>2, <2>3, <2>5, <2>6, ChangeOnce
  <1>4. CASE ~got
    <2>1. handle_end(c, FALSE, sent, FALSE) /\ clients[c].status # "WAITFORCHILD"
      BY <1>1, <1>4 DEF StartPending
    <2> QED BY <1>1, <2>1, HandleEndOnce
  <1> QED BY <1>3, <1>4

\* A client of another machine.
LEMMA StartCompileOnce ==
    ASSUME OnceInv, NEW c, NEW forked \in BOOLEAN, NEW sent \in BOOLEAN, StartCompile(c, forked, sent)
    PROVE  Once'
  <1>1. c \in DOMAIN clients /\ clients[c].status = "TOCOMPILE"
    BY DEF StartCompile, get_earliest_client
  <1>2. clients[c] \in ClientState /\ Good(clients[c]) /\ Single(clients[c])
    BY <1>1, OneClientOnce
  <1>3. CASE forked
    <2> DEFINE r == [clients[c] EXCEPT !.status = "WAITFORCHILD", !.child = TRUE]
               kids == current_kids + 1
    <2>1. Finish(Changes(c, r), kids, active_processes, TRUE, known, sent, FALSE)
      BY <1>3 DEF StartCompile
    <2>2. /\ r \in ClientState /\ r.status = "WAITFORCHILD" /\ r.child = TRUE
          /\ r.fulljob = clients[c].fulljob /\ r.job_id = clients[c].job_id
          /\ r.told = clients[c].told /\ r.compiles = clients[c].compiles
      BY <1>2 DEF ClientState, Status
    <2> HIDE DEF r
    <2>3. Good(r) /\ Single(r)
      BY <1>1, <1>2, <2>2 DEF Good, Single, HasJob, Early
    <2>4. Kid(r) = 1 /\ Kid(clients[c]) = 0 /\ GivenBack(clients[c]) = 0 /\ GivenBack(r) = 0
      BY <1>1, <1>2, <2>2 DEF Kid, GivenBack, Single
    <2>5. /\ kids \in Int /\ active_processes \in Int
          /\ kids - Kid(r) = current_kids - Kid(clients[c])
          /\ active_processes - GivenBack(r) = active_processes - GivenBack(clients[c])
      BY <2>4, CountersOnce
    <2>6. Fair(clients, known) /\ clients[c].status # "WAITFORCS"
      BY <1>1, CountersOnce
    <2> HIDE DEF kids
    <2> QED BY <1>1, <2>1, <2>2, <2>3, <2>5, <2>6, ChangeOnce
  <1>4. CASE ~forked
    <2>1. handle_end(c, FALSE, sent, FALSE) /\ clients[c].status # "WAITFORCHILD"
      BY <1>1, <1>4 DEF StartCompile
    <2> QED BY <1>1, <2>1, HandleEndOnce
  <1> QED BY <1>3, <1>4

\* The daemon dies.
LEMMA CrashOnce ==
    ASSUME OnceInv, Crash
    PROVE  Once'
  BY CountersOnce, ClearedOnce DEF Crash

\* Only the scheduler's knowledge changes.
LEMMA KnownOnce ==
    ASSUME OnceInv, Fair(clients, known'), UNCHANGED <<clients, current_kids, active_processes>>
    PROVE  Once'
  BY DEF OnceInv, Once

\* The connection is lost and the clients stay.
LEMMA LostOnce ==
    ASSUME OnceInv, known' = Forgotten(known), UNCHANGED <<clients, current_kids, active_processes>>
    PROVE  Once'
  BY CountersOnce, ForgottenTypes, QuietFair, KnownOnce

\* The scheduler finds a server.
LEMMA SchedulerAnswersOnce ==
    ASSUME OnceInv, NEW w, NEW here \in BOOLEAN, SchedulerAnswers(w, here)
    PROVE  Once'
  <1> DEFINE a == [job |-> known.last + 1, client |-> w[1], here |-> here]
             k == [known EXCEPT !.waiting = known.waiting \ {w}, !.given = known.given \cup {a},
                                !.inbox = known.inbox \cup {a}, !.last = known.last + 1]
  <1>1. known \in Knowledge /\ Fair(clients, known) /\ w \in known.waiting
    BY CountersOnce DEF SchedulerAnswers
  <1>2. a.job > 0 /\ a.client = w[1]
    BY <1>1 DEF Knowledge
  <1>3. known' = k /\ UNCHANGED <<clients, current_kids, active_processes>>
    BY DEF SchedulerAnswers
  <1> HIDE DEF a
  <1>4. /\ k.waiting = known.waiting \ {w} /\ k.inbox = known.inbox \cup {a}
        /\ k.given = known.given \cup {a} /\ k.handed = known.handed
    BY <1>1 DEF Knowledge
  <1> HIDE DEF k
  <1>5. AskedOnce(clients, k)
    <2> SUFFICES ASSUME NEW v \in k.waiting
                 PROVE  /\ v[2] = 1
                        /\ v[1] \in DOMAIN clients => clients[v[1]].status = "WAITFORCS"
                        /\ \A b \in k.inbox : b.client # v[1]
      BY DEF AskedOnce
    <2>1. v \in known.waiting /\ v # w /\ v[2] = 1 /\ w[2] = 1
      BY <1>1, <1>4 DEF Fair, AskedOnce
    <2>2. v[1] # w[1]
      BY <1>1, <2>1 DEF Knowledge
    <2> QED BY <1>1, <1>2, <1>4, <2>1, <2>2 DEF Fair, AskedOnce
  <1>6. AnsweredOnce(clients, k)
    BY <1>1, <1>2, <1>4 DEF Fair, AskedOnce, AnsweredOnce
  <1>7. SettledAll(clients, k)
    BY <1>1, <1>2, <1>4 DEF Fair, SettledAll, SettledIn
  <1>8. Fair(clients, known')
    BY <1>3, <1>5, <1>6, <1>7 DEF Fair
  <1> QED BY <1>3, <1>8, KnownOnce

\* Another daemon reports.
LEMMA RemoteEndsOnce ==
    ASSUME OnceInv, NEW g, RemoteEnds(g)
    PROVE  Once'
  <1>1. g.job \in Nat
    BY CountersOnce DEF RemoteEnds, Knowledge, Answer
  <1> QED BY <1>1, CountersOnce, MessagesFair, KnownOnce DEF RemoteEnds

\* An answer for a client that is gone: its job is no longer given to anyone.
LEMMA GiveUpOnce ==
    ASSUME OnceInv, NEW a \in known.inbox, NEW sent \in BOOLEAN, GiveUp(a, sent)
    PROVE  Once'
  <1>1. a.job \in Nat /\ known \in Knowledge
    BY CountersOnce DEF Knowledge, Answer
  <1>2. CASE sent
    <2> DEFINE m == JobDone(a.job)
               k == Read(a, m)
    <2>1. Fair(clients, m) /\ m \in Knowledge /\ \A g \in m.given : g.job # a.job
      BY <1>1, CountersOnce, MessagesFair DEF JobDone, Knowledge
    <2>2. known' = k /\ UNCHANGED <<clients, current_kids, active_processes>>
      BY <1>2 DEF GiveUp
    <2> HIDE DEF m
    <2>3. /\ k.waiting = m.waiting /\ k.inbox = m.inbox \ {a} /\ k.given = m.given /\ k.handed = m.handed
      BY <2>1 DEF Read, Knowledge
    <2> HIDE DEF k
    <2>4. Fair(clients, k)
      BY <2>1, <2>3 DEF Fair, AskedOnce, AnsweredOnce, SettledAll, SettledIn
    <2> QED BY <2>2, <2>4, KnownOnce
  <1>3. CASE ~sent
    BY <1>3, LostOnce DEF GiveUp
  <1> QED BY <1>2, <1>3

\* An answer finds its client waiting.
LEMMA AnswerOnce ==
    ASSUME OnceInv, NEW a \in known.inbox, a.client \in DOMAIN clients,
           NEW st \in {"PENDING_USE_CS", "WAITCOMPILE"},
           clients' = Changes(a.client, [clients[a.client] EXCEPT !.status = st, !.job_id = a.job]),
           known' = Read(a, known), UNCHANGED <<current_kids, active_processes>>
    PROVE  Once'
  <1> DEFINE c == a.client
             r == [clients[c] EXCEPT !.status = st, !.job_id = a.job]
             k == Read(a, known)
             cl == Changes(c, r)
  <1>1. known \in Knowledge /\ Fair(clients, known) /\ clients[c].status = "WAITFORCS"
    BY CountersOnce DEF Fair, AskedOnce, AnsweredOnce, SettledAll
  <1>2. clients[c] \in ClientState /\ Good(clients[c]) /\ Single(clients[c]) /\ clients[c].job_id = 0
    BY <1>1, OneClientOnce DEF Single
  <1>3. a.job \in Nat
    BY <1>1 DEF Knowledge, Answer
  <1>4. /\ r \in ClientState /\ r.status = st /\ r.job_id = a.job /\ r.child = clients[c].child
        /\ r.told = clients[c].told /\ r.compiles = clients[c].compiles
    BY <1>2, <1>3 DEF ClientState, Status
  <1>5. /\ k.waiting = known.waiting /\ k.inbox = known.inbox \ {a} /\ k.given = known.given
        /\ k.handed = known.handed
    BY <1>1 DEF Read, Knowledge
  <1> HIDE DEF r, k
  <1>6. DOMAIN cl = DOMAIN clients /\ \A d \in DOMAIN clients : cl[d] = IF d = c THEN r ELSE clients[d]
    BY DEF Changes
  <1>7. Single(r)
    BY <1>1, <1>2, <1>4 DEF Single
  <1>8. /\ current_kids \in Int /\ active_processes \in Int
        /\ current_kids - Kid(r) = current_kids - Kid(clients[c])
        /\ active_processes - GivenBack(r) = active_processes - GivenBack(clients[c])
    BY <1>1, <1>4, CountersOnce DEF Kid, GivenBack
  <1>9. c \in DOMAIN clients
    OBVIOUS
  <1>10. clients' = cl /\ known' = k
    BY DEF r, k
  <1> HIDE DEF c
  <1>11. Exact(cl, current_kids, active_processes)
    BY <1>4, <1>7, <1>8, <1>9, CountersOnce, ChangeExact DEF Changes
  <1> HIDE DEF cl
  <1>12. /\ \A w \in k.waiting : w[1] # c
         /\ \A b \in k.inbox : b.client # c
    BY <1>1, <1>5 DEF Fair, AskedOnce, AnsweredOnce, SettledAll, c
  <1>13. \A g \in k.given : g.job > 0 /\ (g.here => SettledIn(cl, k, g))
    <2> SUFFICES ASSUME NEW g \in k.given PROVE g.job > 0 /\ (g.here => SettledIn(cl, k, g))
      OBVIOUS
    <2>1. g.job > 0 /\ (g.here => SettledIn(clients, known, g))
      BY <1>1, <1>5 DEF Fair, AskedOnce, AnsweredOnce, SettledAll
    <2>2. CASE g = a
      BY <1>4, <1>6, <1>9, <2>1, <2>2 DEF SettledIn, c
    <2>3. CASE g # a
      BY <1>2, <1>5, <1>6, <2>1, <2>3 DEF SettledIn
    <2> QED BY <2>2, <2>3
  <1>14. Fair(cl, k)
    BY <1>1, <1>5, <1>6, <1>12, <1>13 DEF Fair, AskedOnce, AnsweredOnce, SettledAll
  <1>15. Exact(clients', current_kids', active_processes') /\ Fair(clients', known')
    BY <1>10, <1>11, <1>14
  <1> QED BY <1>15 DEF Once

\* The job is compiled on another machine, or its client is gone.
LEMMA CompileThereOnce ==
    ASSUME OnceInv, NEW a \in known.inbox, NEW got \in BOOLEAN, NEW sent \in BOOLEAN,
           CompileThere(a, got, sent)
    PROVE  Once'
  <1> DEFINE c == a.client
  <1>1. c \in DOMAIN clients /\ ~a.here
    BY DEF CompileThere
  <1>2. CASE got
    BY <1>1, <1>2, AnswerOnce DEF CompileThere
  <1>3. CASE ~got /\ (sent \/ ~EndSends(c, FALSE))
    <2> DEFINE m == Report(c, FALSE)
               k == Read(a, m)
               active == active_processes - GivenBack(clients[c])
    <2>1. known \in Knowledge /\ Fair(clients, known) /\ clients[c].status = "WAITFORCS"
      BY <1>1, CountersOnce DEF Fair, AskedOnce, AnsweredOnce, SettledAll
    <2>2. clients[c].job_id = 0 /\ GivenBack(clients[c]) = 0 /\ Kid(clients[c]) = 0
      BY <1>1, <2>1, OneClientOnce DEF Single, GivenBack, Kid
    <2>3. m = Cancelled(c)
      BY <2>1 DEF Report
    <2>4. m \in Knowledge /\ Fair(clients, m) /\ m.given = known.given
      <3>1. Cancelled(c) \in Knowledge
        BY <2>1 DEF Cancelled, Knowledge
      <3>2. Fair(clients, Cancelled(c)) /\ Cancelled(c).given = known.given
        <4>1. 0 \in Nat
          OBVIOUS
        <4> QED BY <2>1, <4>1, MessagesFair
      <3> QED BY <2>3, <3>1, <3>2
    <2>5. clients' = Others(c) /\ active_processes' = active /\ current_kids' = current_kids /\ known' = k
      BY <1>3 DEF CompileThere
    <2> HIDE DEF m
    <2>6. k.waiting = m.waiting /\ k.inbox = m.inbox \ {a} /\ k.given = m.given /\ k.handed = m.handed
      BY <2>4 DEF Read, Knowledge
    <2> HIDE DEF k
    <2>7. \A g \in k.given : g.job > 0 /\ (g.here => SettledIn(clients, k, g))
      BY <1>1, <2>4, <2>6 DEF Fair, AskedOnce, AnsweredOnce, SettledAll, SettledIn
    <2>8. Fair(clients, k)
      BY <2>4, <2>6, <2>7 DEF Fair, AskedOnce, AnsweredOnce, SettledAll
    <2>9. \A g \in k.given : g.job # clients[c].job_id
      BY <2>2, <2>7
    <2>10. Fair(Others(c), k)
      BY <1>1, <2>8, <2>9, EndFair DEF Others
    <2>11. /\ active \in Int /\ current_kids \in Int /\ active = active_processes - GivenBack(clients[c])
           /\ current_kids = current_kids - Kid(clients[c])
      BY <2>2, CountersOnce
    <2> HIDE DEF active
    <2>12. Exact(Others(c), current_kids, active)
      BY <1>1, <2>11, EndExact, CountersOnce DEF Others
    <2>13. Exact(clients', current_kids', active_processes') /\ Fair(clients', known')
      BY <2>5, <2>10, <2>12
    <2> QED BY <2>13 DEF Once
  <1>4. CASE ~got /\ ~(sent \/ ~EndSends(c, FALSE))
    BY <1>4, CrashOnce DEF CompileThere
  <1> QED BY <1>2, <1>3, <1>4

\* What the scheduler does.
LEMMA FromSchedulerOnce ==
    ASSUME OnceInv, FromScheduler
    PROVE  Once'
  <1>1. ASSUME NEW w \in known.waiting, NEW here \in BOOLEAN, SchedulerAnswers(w, here)
        PROVE  Once'
    BY <1>1, SchedulerAnswersOnce
  <1>2. ASSUME NEW g \in known.given, RemoteEnds(g)
        PROVE  Once'
    BY <1>2, RemoteEndsOnce
  <1>3. ASSUME NEW a \in known.inbox, CompileHere(a)
        PROVE  Once'
    BY <1>3, AnswerOnce DEF CompileHere
  <1>4. ASSUME NEW a \in known.inbox, NEW got \in BOOLEAN, NEW sent \in BOOLEAN,
               scheduler_no_cs(a, sent) \/ scheduler_use_cs(a, got, sent)
        PROVE  Once'
    BY <1>3, <1>4, GiveUpOnce, CompileThereOnce DEF scheduler_no_cs, scheduler_use_cs
  <1>5. CASE SchedulerCloses
    <2>1. active_processes - Reserved(clients) = 0
      BY CountersOnce DEF Exact
    <2> QED BY <1>5, <2>1, CountersOnce, ClearedOnce DEF SchedulerCloses, clear_children
  <1>6. CASE SchedulerFails
    BY <1>6, LostOnce DEF SchedulerFails
  <1> QED BY <1>1, <1>2, <1>4, <1>5, <1>6 DEF FromScheduler

\* A round begins.
LEMMA ReconnectOnce ==
    ASSUME OnceInv, NEW found \in BOOLEAN, NEW fresh \in BOOLEAN, NEW sent \in BOOLEAN,
           reconnect(found, fresh, sent)
    PROVE  Once'
  <1>1. UNCHANGED <<clients, current_kids, active_processes>>
    BY DEF reconnect
  <1>2. CASE ~scheduler /\ found
    <2>1. known' = [known EXCEPT !.last = IF fresh THEN 0 ELSE known.last]
      BY <1>2 DEF reconnect
    <2>2. Quiet(known')
      BY <1>2, <2>1, CountersOnce DEF OnceInv, DaemonInv, Offline, Quiet, Knowledge
    <2> QED BY <1>1, <2>2, QuietFair, KnownOnce
  <1>3. CASE ~(~scheduler /\ found)
    <2>1. known' = known
      BY <1>3 DEF reconnect
    <2> QED BY <1>1, <2>1, CountersOnce, KnownOnce
  <1> QED BY <1>2, <1>3

\* A new client.
LEMMA AcceptOnce ==
    ASSUME OnceInv, Accept
    PROVE  Once'
  <1> DEFINE id == new_client_id + 1
             g == [c \in DOMAIN clients \cup {id} |-> IF c = id THEN NewClient ELSE clients[c]]
  <1>1. /\ clients' = g /\ UNCHANGED <<current_kids, active_processes, known>>
    BY DEF Accept
  <1>2. new_client_id \in Nat /\ DOMAIN clients \subseteq 1 .. new_client_id
    BY ClientBound, CountersOnce DEF Sound
  <1>3. id \notin DOMAIN clients /\ DOMAIN g \subseteq 1 .. id /\ id \in Nat
    BY <1>2
  <1>4. /\ NewClient \in ClientState /\ Kid(NewClient) = 0 /\ GivenBack(NewClient) = 0 /\ Single(NewClient)
        /\ NewClient.status = "UNKNOWN"
    BY DEF NewClient, ClientState, Status, Kid, GivenBack, Single
  <1>5. /\ DOMAIN g = DOMAIN clients \cup {id} /\ g[id] = NewClient
        /\ \A d \in DOMAIN clients : g[d] = clients[d]
    BY <1>3
  <1>6. g \in [DOMAIN g -> ClientState] /\ clients \in [DOMAIN clients -> ClientState]
    BY <1>4, CountersOnce DEF Sound
  <1>7. IsFiniteSet(DOMAIN clients) /\ IsFiniteSet(DOMAIN g)
    BY <1>2, <1>3, FiniteClients
  <1>8. \A i \in 1 .. new_client_id : i # id
    BY <1>2
  <1> HIDE DEF g, id
  <1>9. SameBut(clients, g, id)
    BY <1>3, <1>5 DEF SameBut
  <1>10. /\ KidOf(clients, id) = 0 /\ KidOf(g, id) = 0 /\ SlotsOf(clients, id) = 0 /\ SlotsOf(g, id) = 0
    BY <1>3, <1>4, <1>5 DEF KidOf, SlotsOf
  <1>11. /\ Cardinality(Children(clients)) \in Nat
         /\ Cardinality(Children(g)) = Cardinality(Children(clients)) - KidOf(clients, id) + KidOf(g, id)
         /\ Reserved(clients) \in Nat /\ Reserved(g) = Reserved(clients) - SlotsOf(clients, id) + SlotsOf(g, id)
    BY <1>6, <1>7, <1>9, Books
  <1>12. /\ Cardinality(Children(g)) = Cardinality(Children(clients)) /\ Reserved(g) = Reserved(clients)
    BY <1>10, <1>11
  <1>13. \A d \in DOMAIN g : Single(g[d])
    BY <1>4, <1>5, CountersOnce DEF Exact
  <1>14. Exact(g, current_kids, active_processes)
    BY <1>12, <1>13, CountersOnce DEF Exact
  <1>15. Fair(clients, known) /\ Linked(clients, known, new_client_id)
    BY CountersOnce DEF OnceInv, DaemonInv
  <1>16. AskedOnce(g, known)
    BY <1>5, <1>8, <1>15 DEF Fair, AskedOnce, Linked
  <1>17. AnsweredOnce(g, known)
    BY <1>5, <1>8, <1>15 DEF Fair, AnsweredOnce, Linked
  <1>18. SettledAll(g, known)
    BY <1>5, <1>15 DEF Fair, SettledAll, SettledIn
  <1>19. Exact(clients', current_kids', active_processes') /\ Fair(clients', known')
    BY <1>1, <1>14, <1>16, <1>17, <1>18 DEF Fair
  <1> QED BY <1>19 DEF Once

\* The environment is there.
LEMMA CreateEnvFinishedOnce ==
    ASSUME OnceInv, NEW gone, create_env_finished(gone)
    PROVE  Once'
  <1> DEFINE waiting == {c \in DOMAIN clients : clients[c].status = "WAITCREATEENV"}
             g == [c \in DOMAIN clients \ gone |->
                     IF c \in waiting THEN [clients[c] EXCEPT !.status = "GOTNATIVE"] ELSE clients[c]]
  <1>1. CASE Crash
    BY <1>1, CrashOnce
  <1>2. CASE /\ clients' = g
             /\ UNCHANGED <<phase, scheduler, current_kids, active_processes, new_client_id, loaded, known>>
    <2>1. gone \subseteq waiting
      BY DEF create_env_finished
    <2>2. \A d \in DOMAIN clients : /\ clients[d] \in ClientState /\ Good(clients[d]) /\ Single(clients[d])
      BY OneClientOnce
    <2>3. \A r \in ClientState : r.status = "WAITCREATEENV" /\ Good(r) /\ Single(r) =>
             LET n == [r EXCEPT !.status = "GOTNATIVE"]
             IN  Single(n) /\ n.status = "GOTNATIVE" /\ ~n.child /\ ~r.child /\ n.job_id = r.job_id
                 /\ r.job_id = 0
      BY DEF Good, Single, ClientState, HasJob
    <2>4. /\ DOMAIN g = DOMAIN clients \ gone
          /\ \A d \in DOMAIN g : /\ Single(g[d]) /\ g[d].job_id = clients[d].job_id
                                 /\ d \in waiting => g[d].status = "GOTNATIVE" /\ ~g[d].child
                                 /\ d \notin waiting => g[d] = clients[d]
      BY <2>2, <2>3
    <2>5. \A d \in waiting : ~clients[d].child /\ clients[d].job_id = 0
      BY <2>2, <2>3
    <2> HIDE DEF g
    <2>6. /\ Works(g) = Works(clients) /\ \A d \in Works(g) : g[d] = clients[d]
          /\ Children(g) = Children(clients)
      BY <2>1, <2>4, <2>5 DEF Works, Children
    <2>7. /\ {c \in Works(g) : ~g[c].fulljob} = {c \in Works(clients) : ~clients[c].fulljob}
          /\ {c \in Works(g) : g[c].fulljob} = {c \in Works(clients) : clients[c].fulljob}
      BY <2>6
    <2>8. /\ Reserved(g) = Reserved(clients)
          /\ Cardinality(Children(g)) = Cardinality(Children(clients))
      BY <2>6, <2>7 DEF Reserved
    <2>9. Exact(g, current_kids, active_processes)
      BY <2>4, <2>8, CountersOnce DEF Exact
    <2>10. Fair(clients, known)
      BY CountersOnce
    <2>11. AskedOnce(g, known)
      BY <2>4, <2>10 DEF Fair, AskedOnce
    <2>12. AnsweredOnce(g, known)
      BY <2>4, <2>10 DEF Fair, AnsweredOnce
    <2>13. SettledAll(g, known)
      <3>1. \A d \in DOMAIN clients : d \in DOMAIN g \/ clients[d].job_id = 0
        BY <2>1, <2>4, <2>5
      <3> QED BY <2>4, <2>10, <3>1 DEF Fair, SettledAll, SettledIn
    <2>14. Exact(clients', current_kids', active_processes') /\ Fair(clients', known')
      BY <1>2, <2>9, <2>11, <2>12, <2>13 DEF Fair
    <2> QED BY <2>14 DEF Once
  <1> QED BY <1>1, <1>2 DEF create_env_finished

\* A client asks for the environment.
LEMMA GetNativeEnvOnce ==
    ASSUME OnceInv, NEW c, NEW result \in {"GOTNATIVE", "WAITCREATEENV", "end"},
           handle_get_native_env(c, result)
    PROVE  Once'
  <1>1. c \in DOMAIN clients /\ clients[c].status = "UNKNOWN"
    BY DEF handle_get_native_env, Active
  <1>2. clients[c] \in ClientState /\ Good(clients[c]) /\ Single(clients[c])
    BY <1>1, OneClientOnce
  <1>3. CASE result = "end"
    <2>1. handle_end(c, FALSE, TRUE, TRUE) /\ clients[c].status # "WAITFORCHILD"
      BY <1>1, <1>3 DEF handle_get_native_env
    <2> QED BY <1>1, <2>1, HandleEndOnce
  <1>4. CASE result # "end"
    <2> DEFINE r == [clients[c] EXCEPT !.status = result]
    <2>1. Becomes(c, r)
      BY <1>1, <1>4 DEF handle_get_native_env
    <2>2. /\ r \in ClientState /\ r.status = result /\ r.child = clients[c].child
          /\ r.fulljob = clients[c].fulljob /\ r.job_id = clients[c].job_id
          /\ r.told = clients[c].told /\ r.compiles = clients[c].compiles
      BY <1>2, <1>4 DEF ClientState, Status
    <2> HIDE DEF r
    <2>3. Good(r) /\ Single(r)
      BY <1>1, <1>2, <1>4, <2>2 DEF Good, Single, HasJob, Early
    <2>4. GivenBack(r) = GivenBack(clients[c]) /\ clients[c].status # "WAITFORCS"
      BY <1>1, <1>4, <2>2 DEF GivenBack
    <2> QED BY <1>1, <2>1, <2>2, <2>3, <2>4, BecomesOnce
  <1> QED BY <1>3, <1>4

\* A client asks for a server.
LEMMA GetCSOnce ==
    ASSUME Counts = {1}, OnceInv, NEW c, NEW nice \in Nice, NEW count \in Counts, NEW sent \in BOOLEAN,
           handle_get_cs(c, nice, count, sent)
    PROVE  Once'
  <1>1. c \in DOMAIN clients /\ clients[c].status \in {"UNKNOWN", "GOTNATIVE"} /\ nice \in Nat
    BY NiceAssumption DEF handle_get_cs, Active
  <1>2. /\ clients[c] \in ClientState /\ Good(clients[c]) /\ Single(clients[c]) /\ clients[c].job_id = 0
        /\ clients[c].told = {} /\ clients[c].compiles = {} /\ ~clients[c].fulljob /\ ~clients[c].child
    BY <1>1, OneClientOnce DEF Good, Single, HasJob, ClientState
  <1>3. CASE scheduler
    <2> DEFINE r == [clients[c] EXCEPT !.status = "WAITFORCS", !.niceness = nice]
               cl == Changes(c, r)
               k == Asked(c, 1)
    <2>1. Finish(cl, current_kids, active_processes, TRUE, k, sent, TRUE)
      BY <1>3 DEF handle_get_cs
    <2>2. /\ r \in ClientState /\ r.status = "WAITFORCS" /\ r.child = clients[c].child
          /\ r.fulljob = clients[c].fulljob /\ r.job_id = clients[c].job_id
          /\ r.told = clients[c].told /\ r.compiles = clients[c].compiles
      BY <1>1, <1>2 DEF ClientState, Status
    <2>3. DOMAIN cl = DOMAIN clients /\ \A d \in DOMAIN clients : cl[d] = IF d = c THEN r ELSE clients[d]
      BY DEF Changes
    <2> HIDE DEF r
    <2>4. Good(r) /\ Single(r)
      BY <1>2, <2>2 DEF Good, Single, HasJob, Early
    <2>5. /\ Kid(r) = 0 /\ Kid(clients[c]) = 0 /\ GivenBack(r) = 0 /\ GivenBack(clients[c]) = 0
      BY <1>1, <1>2, <2>2 DEF Kid, GivenBack
    <2>6. /\ current_kids \in Int /\ active_processes \in Int
          /\ current_kids - Kid(r) = current_kids - Kid(clients[c])
          /\ active_processes - GivenBack(r) = active_processes - GivenBack(clients[c])
          /\ current_kids - Kid(r) >= current_kids - Kid(clients[c])
          /\ active_processes - GivenBack(r) >= active_processes - GivenBack(clients[c])
      BY <2>5, CountersOnce
    <2>7. Sound(cl, current_kids, active_processes, new_client_id)
      BY <1>1, <2>4, <2>6, ChangeSound, CountersOnce DEF Changes
    <2>8. Exact(cl, current_kids, active_processes)
      BY <1>1, <2>2, <2>4, <2>6, ChangeExact, CountersOnce DEF Changes
    <2>9. /\ k.waiting = known.waiting \cup {<<c, 1>>} /\ k.inbox = known.inbox /\ k.given = known.given
          /\ k.handed = known.handed
      <3>1. known \in Knowledge /\ {c} \X (1 .. 1) = {<<c, 1>>}
        BY CountersOnce
      <3> QED BY <3>1 DEF Asked, Knowledge
    <2>10. known \in Knowledge /\ Fair(clients, known) /\ Linked(clients, known, new_client_id)
      BY CountersOnce DEF OnceInv, DaemonInv
    <2>11. (\A w \in known.waiting : w[1] # c) /\ (\A a \in known.inbox : a.client # c)
      BY <1>1, <2>10 DEF Linked, Served
    <2> HIDE DEF cl, k
    <2>12. AskedOnce(cl, k)
      <3> SUFFICES ASSUME NEW w \in k.waiting
                   PROVE  /\ w[2] = 1
                          /\ w[1] \in DOMAIN cl => cl[w[1]].status = "WAITFORCS"
                          /\ \A a \in k.inbox : a.client # w[1]
        BY DEF AskedOnce
      <3>1. CASE w = <<c, 1>>
        BY <1>1, <2>2, <2>3, <2>9, <2>11, <3>1
      <3>2. CASE w \in known.waiting
        BY <2>3, <2>9, <2>10, <2>11, <3>2 DEF Fair, AskedOnce
      <3> QED BY <2>9, <3>1, <3>2
    <2>13. AnsweredOnce(cl, k)
      BY <2>3, <2>9, <2>10, <2>11 DEF Fair, AnsweredOnce
    <2>14. SettledAll(cl, k)
      BY <2>2, <2>3, <2>9, <2>10 DEF Fair, SettledAll, SettledIn
    <2>15. Fair(cl, k)
      BY <2>12, <2>13, <2>14 DEF Fair
    <2> QED BY <2>1, <2>7, <2>8, <2>15, FinishOnce
  <1>4. CASE ~scheduler
    <2> DEFINE r == [clients[c] EXCEPT !.status = "PENDING_USE_CS", !.niceness = nice, !.job_id = c]
    <2>1. Becomes(c, r)
      BY <1>4 DEF handle_get_cs
    <2>2. c \in Nat /\ c > 0
      BY <1>1, ClientBound, CountersOnce DEF Sound
    <2>3. /\ r \in ClientState /\ r.status = "PENDING_USE_CS" /\ r.child = clients[c].child
          /\ r.fulljob = clients[c].fulljob /\ r.job_id = c
          /\ r.told = clients[c].told /\ r.compiles = clients[c].compiles
      BY <1>1, <1>2, <2>2 DEF ClientState, Status
    <2> HIDE DEF r
    <2>4. Good(r) /\ Single(r)
      BY <1>2, <2>2, <2>3 DEF Good, Single, HasJob, Early
    <2>5. /\ GivenBack(r) = GivenBack(clients[c])
          /\ clients[c].status # "WAITFORCS"
      BY <1>1, <2>3 DEF GivenBack
    <2> QED BY <1>1, <1>4, <2>1, <2>3, <2>4, <2>5, BecomesOnce
  <1> QED BY <1>3, <1>4

\* A client asks for a slot.
LEMMA LocalJobOnce ==
    ASSUME OnceInv, NEW c, NEW nice \in Nice, NEW full \in BOOLEAN, handle_local_job(c, nice, full)
    PROVE  Once'
  <1> DEFINE r == [clients[c] EXCEPT !.status = "LINKJOB", !.niceness = nice, !.fulljob = full]
  <1>1. c \in DOMAIN clients /\ clients[c].status \in {"UNKNOWN", "GOTNATIVE"} /\ nice \in Nat
    BY NiceAssumption DEF handle_local_job, Active
  <1>2. clients[c] \in ClientState /\ Good(clients[c]) /\ Single(clients[c])
    BY <1>1, OneClientOnce
  <1>3. Becomes(c, r)
    BY DEF handle_local_job
  <1>4. /\ r \in ClientState /\ r.status = "LINKJOB" /\ r.child = clients[c].child
        /\ r.job_id = clients[c].job_id /\ r.told = clients[c].told /\ r.compiles = clients[c].compiles
    BY <1>1, <1>2 DEF ClientState, Status
  <1> HIDE DEF r
  <1>5. Good(r) /\ Single(r)
    BY <1>1, <1>2, <1>4 DEF Good, Single, HasJob, Early
  <1>6. GivenBack(r) = GivenBack(clients[c]) /\ clients[c].status # "WAITFORCS"
    BY <1>1, <1>4 DEF GivenBack
  <1> QED BY <1>1, <1>3, <1>4, <1>5, <1>6, BecomesOnce

\* A client begins with its job, or another machine's client sends a file.
LEMMA CompileFileOnce ==
    ASSUME OnceInv, NEW c, NEW j \in 1 .. ForeignJob, NEW sent \in BOOLEAN, handle_compile_file(c, j, sent)
    PROVE  Once'
  <1> DEFINE r == [clients[c] EXCEPT !.job = j, !.told = clients[c].told \ {j},
                                     !.compiles = clients[c].compiles \cup {j}]
  <1>1. /\ c \in DOMAIN clients /\ clients[c].status \notin Unread
        /\ j \in clients[c].told \/ clients[c].status = "UNKNOWN"
    BY DEF handle_compile_file, Active
  <1>2. clients[c] \in ClientState /\ Good(clients[c]) /\ Single(clients[c]) /\ j \in Nat
    BY <1>1, OneClientOnce, ClientBound DEF ForeignJob
  <1>3. /\ r \in ClientState /\ r.status = clients[c].status /\ r.child = clients[c].child
        /\ r.fulljob = clients[c].fulljob /\ r.job_id = clients[c].job_id
        /\ r.told = clients[c].told \ {j} /\ r.compiles = clients[c].compiles \cup {j}
    BY <1>2 DEF ClientState
  <1>4. IF r.status = "CLIENTWORK"
        THEN Finish(Changes(c, r), current_kids, active_processes, TRUE, known, sent, TRUE)
        ELSE Becomes(c, [r EXCEPT !.status = "TOCOMPILE"])
    BY DEF handle_compile_file
  <1> HIDE DEF r
  <1>5. CASE clients[c].status = "CLIENTWORK"
    <2>1. j \in clients[c].told
      BY <1>1, <1>5
    <2>2. Good(r) /\ Single(r)
      BY <1>2, <1>3, <1>5, <2>1 DEF Good, Single, HasJob, Early
    <2>3. /\ Kid(r) = Kid(clients[c]) /\ GivenBack(r) = GivenBack(clients[c])
      BY <1>3 DEF Kid, GivenBack, Weight
    <2>4. /\ current_kids \in Int /\ active_processes \in Int /\ Fair(clients, known)
          /\ current_kids - Kid(r) = current_kids - Kid(clients[c])
          /\ active_processes - GivenBack(r) = active_processes - GivenBack(clients[c])
          /\ clients[c].status # "WAITFORCS"
      BY <1>5, <2>3, CountersOnce
    <2>5. Finish(Changes(c, r), current_kids, active_processes, TRUE, known, sent, TRUE)
      BY <1>3, <1>4, <1>5
    <2> QED BY <1>1, <1>3, <2>2, <2>3, <2>4, <2>5, ChangeOnce
  <1>6. CASE clients[c].status # "CLIENTWORK"
    <2> DEFINE n == [r EXCEPT !.status = "TOCOMPILE"]
    <2>1. clients[c].status = "UNKNOWN" /\ clients[c].told = {}
      BY <1>1, <1>2, <1>6 DEF Single, Unread
    <2>2. /\ n \in ClientState /\ n.status = "TOCOMPILE" /\ n.child = clients[c].child
          /\ n.fulljob = clients[c].fulljob /\ n.job_id = clients[c].job_id
          /\ n.told = clients[c].told \ {j}
      BY <1>3 DEF ClientState, Status
    <2>3. Becomes(c, n)
      BY <1>3, <1>4, <1>6
    <2> HIDE DEF n
    <2>4. Good(n) /\ Single(n)
      BY <1>2, <2>1, <2>2 DEF Good, Single, HasJob, Early, ClientState
    <2>5. /\ GivenBack(n) = GivenBack(clients[c])
          /\ clients[c].status # "WAITFORCS"
      BY <2>1, <2>2 DEF GivenBack
    <2> QED BY <1>1, <2>2, <2>3, <2>4, <2>5, BecomesOnce
  <1> QED BY <1>5, <1>6

\* A client has compiled.
LEMMA JobDoneOnce ==
    ASSUME OnceInv, NEW c, NEW j \in 1 .. ForeignJob, NEW sent \in BOOLEAN, handle_job_done(c, j, sent)
    PROVE  Once'
  <1>1. /\ c \in DOMAIN clients /\ clients[c].status \notin Unread /\ j \in clients[c].compiles
    BY DEF handle_job_done, Active
  <1>2. /\ clients[c] \in ClientState /\ Good(clients[c]) /\ Single(clients[c])
        /\ GivenBack(clients[c]) \in Nat /\ Kid(clients[c]) \in 0 .. 1 /\ j \in Nat
    BY <1>1, OneClientOnce, ClientBound DEF ForeignJob
  <1>3. clients[c].status = "CLIENTWORK" /\ clients[c].compiles = {j} /\ clients[c].told = {}
    BY <1>1, <1>2 DEF Single, Unread
  <1>4. CASE j = clients[c].job_id
    <2> DEFINE r == [clients[c] EXCEPT !.status = "JOBDONE", !.fulljob = FALSE, !.job_id = 0,
                                       !.compiles = clients[c].compiles \ {j}]
               active == active_processes - GivenBack(clients[c])
               k == JobDone(j)
    <2>1. Finish(Changes(c, r), current_kids, active, TRUE, k, sent, TRUE)
      BY <1>4 DEF handle_job_done
    <2>2. /\ r \in ClientState /\ r.status = "JOBDONE" /\ r.child = clients[c].child
          /\ r.fulljob = FALSE /\ r.job_id = 0 /\ r.told = clients[c].told
          /\ r.compiles = clients[c].compiles \ {j}
      BY <1>2 DEF ClientState, Status
    <2> HIDE DEF r
    <2>3. Good(r) /\ Single(r)
      BY <1>2, <1>3, <2>2 DEF Good, Single, HasJob, Early
    <2>4. Kid(r) = Kid(clients[c]) /\ GivenBack(r) = 0
      BY <1>3, <2>2 DEF Kid, GivenBack
    <2>5. /\ active \in Int /\ current_kids \in Int
          /\ active - GivenBack(r) = active_processes - GivenBack(clients[c])
          /\ current_kids - Kid(r) = current_kids - Kid(clients[c])
          /\ clients[c].status # "WAITFORCS"
      BY <1>2, <1>3, <2>4, CountersOnce
    <2>6. Fair(clients, k) /\ \A g \in k.given : g.job # clients[c].job_id
      BY <1>2, <1>4, CountersOnce, MessagesFair
    <2> HIDE DEF active, k
    <2> QED BY <1>1, <2>1, <2>3, <2>4, <2>5, <2>6, ChangeOnce
  <1>5. CASE j # clients[c].job_id
    BY <1>5, CrashOnce DEF handle_job_done
  <1> QED BY <1>4, <1>5

\* A client is content, or gone.
LEMMA ClientEndsOnce ==
    ASSUME OnceInv, NEW c, NEW sent \in BOOLEAN, Goodbye(c, sent) \/ Close(c, sent)
    PROVE  Once'
  <1>1. c \in DOMAIN clients /\ clients[c].status # "WAITFORCHILD"
    BY DEF Goodbye, Close, Active
  <1>2. PICK goodbye \in BOOLEAN : handle_end(c, goodbye, sent, TRUE)
    BY DEF Goodbye, Close
  <1> QED BY <1>1, <1>2, HandleEndOnce

\* A client could not use its server.
LEMMA BlacklistOnce ==
    ASSUME OnceInv, NEW c, NEW sent \in BOOLEAN, handle_blacklist_host_env(c, sent)
    PROVE  Once'
  <1>1. Finish(clients, current_kids, active_processes, TRUE, known, sent, TRUE)
    BY DEF handle_blacklist_host_env
  <1> QED BY <1>1, TellsOnce

\* A client sends an environment.
LEMMA TransferEnvOnce ==
    ASSUME OnceInv, NEW c, NEW forked \in BOOLEAN, handle_transfer_env(c, forked)
    PROVE  Once'
  <1>1. c \in DOMAIN clients /\ clients[c].status = "UNKNOWN"
    BY DEF handle_transfer_env, Active
  <1>2. clients[c] \in ClientState /\ Good(clients[c]) /\ Single(clients[c])
    BY <1>1, OneClientOnce
  <1>3. CASE forked
    <2> DEFINE r == [clients[c] EXCEPT !.status = "TOINSTALL", !.child = TRUE, !.pipe_to_child = TRUE]
               kids == current_kids + 1
    <2>1. Finish(Changes(c, r), kids, active_processes, FALSE, known, TRUE, TRUE)
      BY <1>3 DEF handle_transfer_env, Finish
    <2>2. /\ r \in ClientState /\ r.status = "TOINSTALL" /\ r.child = TRUE
          /\ r.fulljob = clients[c].fulljob /\ r.job_id = clients[c].job_id
          /\ r.told = clients[c].told /\ r.compiles = clients[c].compiles
      BY <1>2 DEF ClientState, Status
    <2> HIDE DEF r
    <2>3. Good(r) /\ Single(r)
      BY <1>1, <1>2, <2>2 DEF Good, Single, HasJob, Early
    <2>4. /\ Kid(r) = 1 /\ Kid(clients[c]) = 0 /\ GivenBack(r) = 0 /\ GivenBack(clients[c]) = 0
      BY <1>1, <1>2, <2>2 DEF Kid, GivenBack, Single
    <2>5. /\ active_processes \in Int /\ kids \in Int
          /\ active_processes - GivenBack(r) = active_processes - GivenBack(clients[c])
          /\ kids - Kid(r) = current_kids - Kid(clients[c])
      BY <2>4, CountersOnce
    <2>6. Fair(clients, known) /\ clients[c].status # "WAITFORCS"
      BY <1>1, CountersOnce
    <2> HIDE DEF kids
    <2> QED BY <1>1, <2>1, <2>2, <2>3, <2>4, <2>5, <2>6, ChangeOnce
  <1>4. CASE ~forked
    <2>1. handle_end(c, FALSE, TRUE, TRUE) /\ clients[c].status # "WAITFORCHILD"
      BY <1>1, <1>4 DEF handle_transfer_env
    <2> QED BY <1>1, <2>1, HandleEndOnce
  <1> QED BY <1>3, <1>4

\* An installation ends; its child, if there is one, is no longer counted.
LEMMA FinishTransferOnce ==
    ASSUME OnceInv, NEW c \in DOMAIN clients, clients[c].status \in {"TOINSTALL", "WAITINSTALL"},
           NEW kids \in Int, kids = current_kids - Kid(clients[c]), NEW sent \in BOOLEAN, NEW clears,
           finish_transfer_env(c, kids, sent, clears)
    PROVE  Once'
  <1> DEFINE r == [clients[c] EXCEPT !.status = "UNKNOWN", !.child = FALSE, !.pipe_to_child = FALSE]
  <1>1. clients[c] \in ClientState /\ Good(clients[c]) /\ Single(clients[c]) /\ Kid(clients[c]) \in 0 .. 1
    BY OneClientOnce
  <1>2. Finish(Changes(c, r), kids, active_processes, TRUE, known, sent, clears)
    BY DEF finish_transfer_env
  <1>3. /\ r \in ClientState /\ r.status = "UNKNOWN" /\ r.child = FALSE
        /\ r.fulljob = clients[c].fulljob /\ r.job_id = clients[c].job_id
        /\ r.told = clients[c].told /\ r.compiles = clients[c].compiles
    BY <1>1 DEF ClientState, Status
  <1> HIDE DEF r
  <1>4. Good(r) /\ Single(r)
    BY <1>1, <1>3 DEF Good, Single, HasJob, Early
  <1>5. Kid(r) = 0 /\ GivenBack(r) = 0 /\ GivenBack(clients[c]) = 0
    BY <1>3 DEF Kid, GivenBack
  <1>6. /\ active_processes \in Int
        /\ active_processes - GivenBack(r) = active_processes - GivenBack(clients[c])
        /\ kids - Kid(r) = current_kids - Kid(clients[c])
    BY <1>1, <1>5, CountersOnce
  <1>7. Fair(clients, known) /\ clients[c].status # "WAITFORCS"
    BY CountersOnce
  <1> QED BY <1>2, <1>3, <1>4, <1>5, <1>6, <1>7, ChangeOnce

\* The environment is complete.
LEMMA FileChunkOnce ==
    ASSUME OnceInv, NEW c, NEW sent \in BOOLEAN, handle_file_chunk_env(c, sent)
    PROVE  Once'
  <1>1. c \in DOMAIN clients /\ clients[c].status = "TOINSTALL"
    BY DEF handle_file_chunk_env, Active
  <1>2. clients[c] \in ClientState /\ Good(clients[c]) /\ Single(clients[c])
    BY <1>1, OneClientOnce
  <1>3. CASE clients[c].child
    <2> DEFINE r == [clients[c] EXCEPT !.status = "WAITINSTALL", !.pipe_to_child = FALSE]
    <2>1. Becomes(c, r)
      BY <1>1, <1>3 DEF handle_file_chunk_env
    <2>2. /\ r \in ClientState /\ r.status = "WAITINSTALL" /\ r.child = clients[c].child
          /\ r.fulljob = clients[c].fulljob /\ r.job_id = clients[c].job_id
          /\ r.told = clients[c].told /\ r.compiles = clients[c].compiles
      BY <1>2 DEF ClientState, Status
    <2> HIDE DEF r
    <2>3. Good(r) /\ Single(r)
      BY <1>1, <1>2, <2>2 DEF Good, Single, HasJob, Early
    <2>4. GivenBack(r) = GivenBack(clients[c]) /\ clients[c].status # "WAITFORCS"
      BY <1>1, <2>2 DEF GivenBack
    <2> QED BY <1>1, <2>1, <2>2, <2>3, <2>4, BecomesOnce
  <1>4. CASE ~clients[c].child
    <2>1. finish_transfer_env(c, current_kids, sent, TRUE)
      BY <1>4 DEF handle_file_chunk_env
    <2>2. current_kids \in Int /\ current_kids = current_kids - Kid(clients[c])
      BY <1>4, CountersOnce DEF Kid
    <2>3. clients[c].status \in {"TOINSTALL", "WAITINSTALL"}
      BY <1>1
    <2> QED BY <1>1, <2>1, <2>2, <2>3, FinishTransferOnce
  <1> QED BY <1>3, <1>4

\* The child that installs is through.
LEMMA InstallDoneOnce ==
    ASSUME OnceInv, NEW c, NEW success \in BOOLEAN, NEW sent \in BOOLEAN,
           handle_env_install_child_done(c, success, sent)
    PROVE  Once'
  <1>1. c \in DOMAIN clients /\ clients[c].status \in {"TOINSTALL", "WAITINSTALL"} /\ clients[c].child
    BY DEF handle_env_install_child_done, Active
  <1>2. clients[c] \in ClientState /\ Good(clients[c]) /\ Single(clients[c])
    BY <1>1, OneClientOnce
  <1> DEFINE kids == current_kids - 1
  <1>3. Kid(clients[c]) = 1 /\ kids \in Int /\ kids = current_kids - Kid(clients[c])
    BY <1>1, CountersOnce DEF Kid
  <1>4. CASE success /\ clients[c].pipe_to_child
    <2> DEFINE r == [clients[c] EXCEPT !.child = FALSE]
    <2>1. Finish(Changes(c, r), kids, active_processes, FALSE, known, TRUE, TRUE)
      BY <1>4 DEF handle_env_install_child_done, Finish
    <2>2. /\ r \in ClientState /\ r.status = clients[c].status /\ r.child = FALSE
          /\ r.fulljob = clients[c].fulljob /\ r.job_id = clients[c].job_id
          /\ r.told = clients[c].told /\ r.compiles = clients[c].compiles
      BY <1>2 DEF ClientState
    <2> HIDE DEF r
    <2>3. Good(r) /\ Single(r)
      BY <1>1, <1>2, <2>2 DEF Good, Single, HasJob, Early
    <2>4. Kid(r) = 0 /\ GivenBack(r) = 0 /\ GivenBack(clients[c]) = 0
      BY <1>1, <2>2 DEF Kid, GivenBack
    <2>5. /\ active_processes \in Int
          /\ active_processes - GivenBack(r) = active_processes - GivenBack(clients[c])
          /\ kids - Kid(r) = current_kids - Kid(clients[c])
      BY <1>3, <2>4, CountersOnce
    <2>6. Fair(clients, known) /\ clients[c].status # "WAITFORCS"
      BY <1>1, CountersOnce
    <2> HIDE DEF kids
    <2> QED BY <1>1, <1>3, <2>1, <2>2, <2>3, <2>4, <2>5, <2>6, ChangeOnce
  <1>5. CASE ~(success /\ clients[c].pipe_to_child)
    <2>1. finish_transfer_env(c, kids, sent, FALSE)
      BY <1>5 DEF handle_env_install_child_done
    <2> HIDE DEF kids
    <2> QED BY <1>1, <1>3, <2>1, FinishTransferOnce
  <1> QED BY <1>4, <1>5

\* A compiler is through.
LEMMA CompileDoneOnce ==
    ASSUME OnceInv, NEW c, NEW sent \in BOOLEAN, handle_compile_done(c, sent)
    PROVE  Once'
  <1> DEFINE kids == current_kids - 1
             k == JobDone(clients[c].job)
  <1>1. c \in DOMAIN clients /\ clients[c].status = "WAITFORCHILD"
    BY DEF handle_compile_done, Active
  <1>2. clients[c].job \in Nat /\ clients[c].child /\ clients[c].job_id = 0
    BY <1>1, OneClientOnce DEF ClientState, Good, Single
  <1>3. Finish(Others(c), kids, active_processes, TRUE, k, sent, FALSE)
    BY DEF handle_compile_done
  <1>4. /\ kids \in Int /\ kids = current_kids - Kid(clients[c]) /\ kids >= current_kids - Kid(clients[c])
        /\ active_processes \in Int /\ active_processes = active_processes - GivenBack(clients[c])
        /\ active_processes >= active_processes - GivenBack(clients[c])
    BY <1>1, <1>2, CountersOnce DEF Kid, GivenBack
  <1>5. Fair(clients, k) /\ known \in Knowledge
    BY <1>2, CountersOnce, MessagesFair
  <1> HIDE DEF kids, k
  <1>6. \A g \in k.given : g.job # clients[c].job_id \/ g.job \in k.handed
    BY <1>2, <1>5 DEF Fair, SettledAll
  <1>7. Sound(Others(c), kids, active_processes, new_client_id)
    BY <1>1, <1>4, EndSound, CountersOnce DEF Others
  <1>8. Exact(Others(c), kids, active_processes)
    BY <1>1, <1>4, EndExact, CountersOnce DEF Others
  <1>9. Fair(Others(c), k)
    BY <1>1, <1>5, <1>6, EndFair DEF Others
  <1> QED BY <1>3, <1>7, <1>8, <1>9, FinishOnce

-----------------------------------------------------------------------------
(* The invariant holds *)

\* Every step keeps the invariant.
LEMMA OnceStep ==
    ASSUME Counts = {1}, OnceInv, [Next]_vars
    PROVE  OnceInv'
  <1> SUFFICES Once'
    BY DaemonStep DEF OnceInv, Once
  <1>1. ASSUME NEW found \in BOOLEAN, NEW fresh \in BOOLEAN, NEW sent \in BOOLEAN, reconnect(found, fresh, sent)
        PROVE  Once'
    BY <1>1, ReconnectOnce
  <1>2. CASE handle_old_request
    <2>1. ASSUME NEW c \in DOMAIN clients, NEW ok \in BOOLEAN, NEW sent \in BOOLEAN,
                 StartLocal(c, ok, sent) \/ StartPending(c, ok, sent) \/ StartCompile(c, ok, sent)
          PROVE  Once'
      BY <2>1, StartLocalOnce, StartPendingOnce, StartCompileOnce
    <2>2. CASE NothingToStart
      BY <2>2, CountersOnce, KnownOnce DEF NothingToStart
    <2> QED BY <1>2, <2>1, <2>2 DEF handle_old_request
  <1>3. ASSUME NEW high \in BOOLEAN, NEW sent \in BOOLEAN, maybe_stats(high, sent)
        PROVE  Once'
    <2>1. Finish(clients, current_kids, active_processes, TRUE, known, sent, FALSE)
      BY <1>3 DEF maybe_stats
    <2> QED BY <2>1, TellsOnce
  <1>4. CASE FromScheduler
    BY <1>4, FromSchedulerOnce
  <1>5. CASE Accept
    BY <1>5, AcceptOnce
  <1>6. ASSUME NEW c \in ClientId, FromClient(c)
        PROVE  Once'
    <2>1. CASE \E result \in {"GOTNATIVE", "WAITCREATEENV", "end"} : handle_get_native_env(c, result)
      BY <2>1, GetNativeEnvOnce
    <2>2. CASE \E nice \in Nice, count \in Counts, sent \in BOOLEAN : handle_get_cs(c, nice, count, sent)
      BY <2>2, GetCSOnce
    <2>3. CASE \E nice \in Nice, full \in BOOLEAN : handle_local_job(c, nice, full)
      BY <2>3, LocalJobOnce
    <2>4. CASE \E j \in 1 .. ForeignJob, sent \in BOOLEAN :
                  handle_compile_file(c, j, sent) \/ handle_job_done(c, j, sent)
      BY <2>4, CompileFileOnce, JobDoneOnce
    <2>5. CASE \E sent \in BOOLEAN : handle_blacklist_host_env(c, sent) \/ Goodbye(c, sent) \/ Close(c, sent)
      BY <2>5, BlacklistOnce, ClientEndsOnce
    <2>6. CASE \E forked \in BOOLEAN : handle_transfer_env(c, forked)
      BY <2>6, TransferEnvOnce
    <2>7. CASE \E sent \in BOOLEAN : handle_file_chunk_env(c, sent)
      BY <2>7, FileChunkOnce
    <2> QED BY <1>6, <2>1, <2>2, <2>3, <2>4, <2>5, <2>6, <2>7 DEF FromClient
  <1>7. ASSUME NEW c \in ClientId, FromChild(c)
        PROVE  Once'
    BY <1>7, InstallDoneOnce, CompileDoneOnce DEF FromChild
  <1>8. ASSUME NEW gone, create_env_finished(gone)
        PROVE  Once'
    BY <1>8, CreateEnvFinishedOnce
  <1>9. CASE UNCHANGED vars
    BY <1>9, CountersOnce, KnownOnce DEF vars
  <1> QED BY <1>1, <1>2, <1>3, <1>4, <1>5, <1>6, <1>7, <1>8, <1>9 DEF Next

\* It holds at the start.
LEMMA OnceStart ==
    ASSUME Init
    PROVE  OnceInv
  <1>1. Exact(clients, current_kids, active_processes)
    BY NobodyExact DEF Init
  <1>2. Fair(clients, known)
    <2>1. Quiet(known)
      BY DEF Init, Quiet
    <2> QED BY <2>1, QuietFair
  <1> QED BY <1>1, <1>2, DaemonStart DEF OnceInv

\* What it says in the terms of module Daemon.
LEMMA OnceImplies ==
    ASSUME OnceInv
    PROVE  SlotsAddUp /\ NoJobForgottenHere
  <1>1. SlotsAddUp
    BY DaemonImplies DEF OnceInv, Exact, SlotsAddUp
  <1>2. NoJobForgottenHere
    BY DEF OnceInv, Fair, SettledAll, SettledIn, NoJobForgottenHere, Settled
  <1> QED BY <1>1, <1>2

\* With one server per request, the counters that working_loop compares with max_kids say
\* what the clients' states say: no slot is lost and none is counted twice.
THEOREM SlotsAlwaysAddUp == Counts = {1} => (Spec => []SlotsAddUp)
  <1> SUFFICES ASSUME Counts = {1} PROVE Spec => []SlotsAddUp
    OBVIOUS
  <1>1. Init => OnceInv
    BY OnceStart
  <1>2. OnceInv /\ [Next]_vars => OnceInv'
    BY OnceStep
  <1>3. OnceInv => SlotsAddUp
    BY OnceImplies
  <1> QED BY <1>1, <1>2, <1>3, PTL DEF Spec

\* With one server per request, every job that the scheduler gave to this machine is one
\* whose client has it or whose answer is on its way: handle_end and handle_job_done
\* report all others.
THEOREM JobsNeverForgottenHere == Counts = {1} => (Spec => []NoJobForgottenHere)
  <1> SUFFICES ASSUME Counts = {1} PROVE Spec => []NoJobForgottenHere
    OBVIOUS
  <1>1. Init => OnceInv
    BY OnceStart
  <1>2. OnceInv /\ [Next]_vars => OnceInv'
    BY OnceStep
  <1>3. OnceInv => NoJobForgottenHere
    BY OnceImplies
  <1> QED BY <1>1, <1>2, <1>3, PTL DEF Spec
=============================================================================
