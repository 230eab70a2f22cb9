--------------------------- MODULE JobQueueProofs ---------------------------
(***************************************************************************)
(* Theorems about module JobQueue: the list of groups stays well formed,   *)
(* nobody is overtaken, and the list implements FairQueue.                 *)
(*                                                                         *)
(* Every operation on the list is one of three edits, or some of them in   *)
(* turn: it is thinned (groups leave, or lose some of their jobs), a group *)
(* is put behind those of its niceness, or a group grows by a job.         *)
(***************************************************************************)
EXTENDS JobQueue, Loops

-----------------------------------------------------------------------------
(* Lists *)

Job == 1 .. MaxJobs
Group == [submitter : Submitter, niceness : Nice, l : Seq(Job)]

KeyOf(o) == <<o.submitter, o.niceness>>
JobsOf(o) == ToSet(o.l)

\* Two groups of a list, the first before the second.
Apart(a, b) ==
    /\ a.niceness <= b.niceness
    /\ KeyOf(a) # KeyOf(b)
    /\ JobsOf(a) \cap JobsOf(b) = {}

\* The jobs of a group, in the order of their ids.
Ascending(l) == \A i, k \in 1 .. Len(l) : i < k => l[i] < l[k]
Proper(o) == o \in Group /\ Len(o.l) > 0 /\ Ascending(o.l)

\* What WellFormed says of a list.
Formed(q) ==
    /\ q \in Seq(Group)
    /\ \A i \in 1 .. Len(q) : Proper(q[i])
    /\ \A i, k \in 1 .. Len(q) : i < k => Apart(q[i], q[k])

\* The least of a set of positions.
LEMMA MinIn ==
    ASSUME NEW I, I \subseteq Nat, I # {}
    PROVE  Min(I) \in I /\ \A y \in I : Min(I) <= y
  <1>1. \E x \in I : \A y \in I : x =< y
    BY Least
  <1> QED BY <1>1 DEF Min

\* Two sequences in one.
LEMMA Joined ==
    ASSUME NEW T, NEW a \in Seq(T), NEW b \in Seq(T)
    PROVE  /\ a \o b \in Seq(T) /\ Len(a \o b) = Len(a) + Len(b)
           /\ \A k \in 1 .. Len(a) : (a \o b)[k] = a[k]
           /\ \A k \in 1 .. Len(b) : (a \o b)[Len(a) + k] = b[k]
  OBVIOUS

\* A list of groups and its elements.
LEMMA ListType ==
    ASSUME NEW q \in Seq(Group)
    PROVE  /\ Len(q) \in Nat /\ DOMAIN q = 1 .. Len(q)
           /\ \A i \in 1 .. Len(q) : q[i] \in Group
  OBVIOUS

\* The fields of a group.
LEMMA GroupType ==
    ASSUME NEW o \in Group
    PROVE  /\ o.submitter \in Submitter /\ o.niceness \in Nice /\ o.niceness \in Int
           /\ o.l \in Seq(Job) /\ Len(o.l) \in Nat /\ DOMAIN o.l = 1 .. Len(o.l)
           /\ \A i \in 1 .. Len(o.l) : o.l[i] \in Job /\ o.l[i] \in JobsOf(o)
           /\ \A j : j \in JobsOf(o) <=> \E i \in 1 .. Len(o.l) : o.l[i] = j
           /\ JobsOf(o) \subseteq Job
  <1>1. /\ o.submitter \in Submitter /\ o.niceness \in Nice /\ o.niceness \in Int
        /\ o.l \in Seq(Job)
    BY NumberAssumption DEF Group
  <1>2. Len(o.l) \in Nat /\ DOMAIN o.l = 1 .. Len(o.l) /\ \A i \in 1 .. Len(o.l) : o.l[i] \in Job
    BY <1>1
  <1>3. \A j : j \in JobsOf(o) <=> \E i \in 1 .. Len(o.l) : o.l[i] = j
    BY <1>2 DEF JobsOf, ToSet
  <1> QED BY <1>1, <1>2, <1>3

-----------------------------------------------------------------------------
(* Thinning *)

\* Position k of the new list is position m[k] of the old one.
Thins(q, r, m) ==
    /\ m \in [1 .. Len(r) -> 1 .. Len(q)]
    /\ \A i, k \in 1 .. Len(r) : i < k => m[i] < m[k]
    /\ \A k \in 1 .. Len(r) : /\ KeyOf(r[k]) = KeyOf(q[m[k]])
                              /\ JobsOf(r[k]) \subseteq JobsOf(q[m[k]])

Thinned(q, r) ==
    /\ r \in Seq(Group)
    /\ \A i \in 1 .. Len(r) : Proper(r[i])
    /\ \E m : Thins(q, r, m)

\* A list is well formed when it is thinned.
LEMMA ThinnedFormed ==
    ASSUME NEW q, NEW r, Formed(q), Thinned(q, r)
    PROVE  Formed(r)
  <1>1. PICK m : Thins(q, r, m)
    BY DEF Thinned
  <1>2. ASSUME NEW i \in 1 .. Len(r), NEW k \in 1 .. Len(r), i < k PROVE Apart(r[i], r[k])
    <2>1. m[i] \in 1 .. Len(q) /\ m[k] \in 1 .. Len(q) /\ m[i] < m[k]
      BY <1>1, <1>2 DEF Thins
    <2>2. Apart(q[m[i]], q[m[k]])
      BY <2>1 DEF Formed
    <2>3. /\ KeyOf(r[i]) = KeyOf(q[m[i]]) /\ JobsOf(r[i]) \subseteq JobsOf(q[m[i]])
          /\ KeyOf(r[k]) = KeyOf(q[m[k]]) /\ JobsOf(r[k]) \subseteq JobsOf(q[m[k]])
      BY <1>1 DEF Thins
    <2>4. r[i].niceness = q[m[i]].niceness /\ r[k].niceness = q[m[k]].niceness
      BY <2>3 DEF KeyOf
    <2> QED BY <2>2, <2>3, <2>4 DEF Apart
  <1> QED BY <1>2 DEF Formed, Thinned

\* Thinning twice is thinning.
LEMMA ThinnedTwice ==
    ASSUME NEW q, NEW r, NEW s, Thinned(q, r), Thinned(r, s)
    PROVE  Thinned(q, s)
  <1>1. PICK m : Thins(q, r, m)
    BY DEF Thinned
  <1>2. PICK n : Thins(r, s, n)
    BY DEF Thinned
  <1> DEFINE o == [k \in 1 .. Len(s) |-> m[n[k]]]
  <1>3. m \in [1 .. Len(r) -> 1 .. Len(q)] /\ n \in [1 .. Len(s) -> 1 .. Len(r)]
    BY <1>1, <1>2 DEF Thins
  <1>4. o \in [1 .. Len(s) -> 1 .. Len(q)]
    BY <1>3
  <1>5. ASSUME NEW i \in 1 .. Len(s), NEW k \in 1 .. Len(s), i < k PROVE o[i] < o[k]
    <2>1. n[i] \in 1 .. Len(r) /\ n[k] \in 1 .. Len(r) /\ n[i] < n[k]
      BY <1>2, <1>3, <1>5 DEF Thins
    <2> QED BY <1>1, <2>1 DEF Thins
  <1>6. ASSUME NEW k \in 1 .. Len(s)
        PROVE  KeyOf(s[k]) = KeyOf(q[o[k]]) /\ JobsOf(s[k]) \subseteq JobsOf(q[o[k]])
    <2>1. n[k] \in 1 .. Len(r)
      BY <1>3
    <2>2. KeyOf(s[k]) = KeyOf(r[n[k]]) /\ JobsOf(s[k]) \subseteq JobsOf(r[n[k]])
      BY <1>2 DEF Thins
    <2>3. KeyOf(r[n[k]]) = KeyOf(q[m[n[k]]]) /\ JobsOf(r[n[k]]) \subseteq JobsOf(q[m[n[k]]])
      BY <1>1, <2>1 DEF Thins
    <2> QED BY <2>2, <2>3
  <1> HIDE DEF o
  <1>7. Thins(q, s, o)
    BY <1>4, <1>5, <1>6 DEF Thins
  <1> QED BY <1>7 DEF Thinned

\* A list is its own thinning.
LEMMA ThinnedSelf ==
    ASSUME NEW q, Formed(q)
    PROVE  Thinned(q, q)
  <1> DEFINE m == [k \in 1 .. Len(q) |-> k]
  <1>1. q \in Seq(Group) /\ Len(q) \in Nat
    BY DEF Formed
  <1>2. Thins(q, q, m)
    BY <1>1 DEF Thins
  <1> QED BY <1>2 DEF Thinned, Formed

\* The list without position i.
Dropped(q, r, i) ==
    /\ r \in Seq(Group) /\ Len(r) = Len(q) - 1
    /\ \A k \in 1 .. Len(r) : r[k] = IF k < i THEN q[k] ELSE q[k + 1]

LEMMA DroppedThinned ==
    ASSUME NEW q, NEW r, Formed(q), NEW i \in 1 .. Len(q), Dropped(q, r, i)
    PROVE  Thinned(q, r)
  <1> DEFINE m == [k \in 1 .. Len(r) |-> IF k < i THEN k ELSE k + 1]
  <1>1. Len(q) \in Nat /\ Len(r) \in Nat /\ Len(r) = Len(q) - 1 /\ r \in Seq(Group)
    BY DEF Formed, Dropped
  <1>2. m \in [1 .. Len(r) -> 1 .. Len(q)]
    BY <1>1
  <1>3. \A j, k \in 1 .. Len(r) : j < k => m[j] < m[k]
    BY <1>1
  <1>4. ASSUME NEW k \in 1 .. Len(r) PROVE r[k] = q[m[k]]
    BY DEF Dropped
  <1> HIDE DEF m
  <1>5. Thins(q, r, m)
    BY <1>2, <1>3, <1>4 DEF Thins
  <1>6. \A k \in 1 .. Len(r) : Proper(r[k])
    BY <1>2, <1>4 DEF Formed
  <1> QED BY <1>1, <1>5, <1>6 DEF Thinned

\* Tail and RemoveAt drop a position.
LEMMA TailDrops ==
    ASSUME NEW q \in Seq(Group), q # <<>>
    PROVE  Dropped(q, Tail(q), 1)
  <1>1. Tail(q) \in Seq(Group) /\ Len(Tail(q)) = Len(q) - 1 /\ Len(q) \in Nat
    OBVIOUS
  <1>2. \A k \in 1 .. Len(q) - 1 : Tail(q)[k] = q[k + 1] /\ ~(k < 1)
    OBVIOUS
  <1> QED BY <1>1, <1>2 DEF Dropped

LEMMA RemoveAtDrops ==
    ASSUME NEW T, NEW q \in Seq(T), NEW i \in 1 .. Len(q)
    PROVE  /\ RemoveAt(q, i) \in Seq(T) /\ Len(RemoveAt(q, i)) = Len(q) - 1
           /\ \A k \in 1 .. Len(q) - 1 : RemoveAt(q, i)[k] = IF k < i THEN q[k] ELSE q[k + 1]
  <1> DEFINE a == SubSeq(q, 1, i - 1)
             b == SubSeq(q, i + 1, Len(q))
             r == a \o b
  <1>1. Len(q) \in Nat /\ i \in Nat /\ i - 1 \in Nat /\ Len(q) - i \in Nat
    OBVIOUS
  <1>2. a \in Seq(T) /\ Len(a) = i - 1 /\ \A k \in 1 .. i - 1 : a[k] = q[k]
    OBVIOUS
  <1>3. b \in Seq(T) /\ Len(b) = Len(q) - i /\ \A k \in 1 .. Len(q) - i : b[k] = q[i + k]
    OBVIOUS
  <1> HIDE DEF a, b
  <1>4. /\ r \in Seq(T) /\ Len(r) = Len(q) - 1
        /\ \A k \in 1 .. i - 1 : r[k] = a[k]
        /\ \A k \in 1 .. Len(q) - i : r[(i - 1) + k] = b[k]
    <2>1. /\ r \in Seq(T) /\ Len(r) = Len(a) + Len(b)
          /\ \A k \in 1 .. Len(a) : r[k] = a[k]
          /\ \A k \in 1 .. Len(b) : r[Len(a) + k] = b[k]
      <3>1. a \in Seq(T) /\ b \in Seq(T)
        BY <1>2, <1>3
      <3> QED BY <3>1, Joined
    <2> HIDE DEF r
    <2> QED BY <1>1, <1>2, <1>3, <2>1
  <1>5. ASSUME NEW k \in 1 .. Len(q) - 1 PROVE r[k] = IF k < i THEN q[k] ELSE q[k + 1]
    <2>1. CASE k < i
      BY <1>2, <1>4, <2>1
    <2>2. CASE ~(k < i)
      <3> DEFINE j == k - (i - 1)
      <3>1. j \in 1 .. Len(q) - i /\ (i - 1) + j = k /\ i + j = k + 1
        BY <1>1, <2>2
      <3> HIDE DEF j
      <3>2. r[(i - 1) + j] = b[j] /\ b[j] = q[i + j]
        BY <1>3, <1>4, <3>1
      <3> QED BY <2>2, <3>1, <3>2
    <2> QED BY <2>1, <2>2
  <1>6. RemoveAt(q, i) = r
    BY DEF RemoveAt, a, b, r
  <1> HIDE DEF r
  <1> QED BY <1>4, <1>5, <1>6

\* A group loses some of its jobs.
LEMMA LessThinned ==
    ASSUME NEW q, Formed(q), NEW i \in 1 .. Len(q), NEW x \in Seq(Job), Len(x) > 0, Ascending(x),
           ToSet(x) \subseteq JobsOf(q[i])
    PROVE  Thinned(q, [q EXCEPT ![i].l = x])
  <1> DEFINE g == [q[i] EXCEPT !.l = x]
             r == [q EXCEPT ![i] = g]
             m == [k \in 1 .. Len(q) |-> k]
  <1>1. q \in Seq(Group) /\ Len(q) \in Nat /\ q[i] \in Group
    BY DEF Formed
  <1>2. g \in Group /\ KeyOf(g) = KeyOf(q[i]) /\ g.l = x
    BY <1>1 DEF Group, KeyOf
  <1>3. Proper(g) /\ JobsOf(g) = ToSet(x)
    BY <1>2 DEF Proper, JobsOf
  <1> HIDE DEF g
  <1>4. r \in Seq(Group) /\ Len(r) = Len(q) /\ \A k \in 1 .. Len(q) : r[k] = IF k = i THEN g ELSE q[k]
    BY <1>1, <1>2
  <1> HIDE DEF r
  <1>5. \A k \in 1 .. Len(q) : Proper(r[k])
    BY <1>3, <1>4 DEF Formed
  <1>6. \A k \in 1 .. Len(q) : KeyOf(r[k]) = KeyOf(q[k]) /\ JobsOf(r[k]) \subseteq JobsOf(q[k])
    BY <1>2, <1>3, <1>4
  <1>7. Thins(q, r, m)
    BY <1>1, <1>4, <1>6 DEF Thins
  <1>8. Thinned(q, r)
    BY <1>4, <1>5, <1>7 DEF Thinned
  <1> QED BY <1>8 DEF r, g

-----------------------------------------------------------------------------
(* Putting a group into the list *)

PutAt(q, r, i, g) ==
    /\ r \in Seq(Group) /\ Len(r) = Len(q) + 1
    /\ \A k \in 1 .. Len(r) : r[k] = IF k < i THEN q[k] ELSE IF k = i THEN g ELSE q[k - 1]

\* Position i is behind the groups of g's niceness, and before those of a lower priority.
Place(q, i, g) ==
    /\ i \in 1 .. Len(q) + 1
    /\ \A k \in 1 .. Len(q) : IF k < i THEN q[k].niceness <= g.niceness ELSE q[k].niceness > g.niceness

\* g is a group of its own.
Foreign(q, g) ==
    \A k \in 1 .. Len(q) : KeyOf(q[k]) # KeyOf(g) /\ JobsOf(q[k]) \cap JobsOf(g) = {}

LEMMA PutFormed ==
    ASSUME NEW q, NEW r, NEW i, NEW g, Formed(q), Proper(g), Place(q, i, g), Foreign(q, g),
           PutAt(q, r, i, g)
    PROVE  Formed(r)
  <1>1. /\ Len(q) \in Nat /\ i \in Nat /\ Len(r) = Len(q) + 1 /\ r \in Seq(Group) /\ i \in 1 .. Len(q) + 1
    BY DEF Formed, PutAt, Place
  <1>2. ASSUME NEW k \in 1 .. Len(r)
        PROVE  /\ k < i => k \in 1 .. Len(q) /\ r[k] = q[k]
               /\ k = i => r[k] = g
               /\ k > i => k - 1 \in 1 .. Len(q) /\ r[k] = q[k - 1]
    BY <1>1 DEF PutAt
  <1>3. ASSUME NEW k \in 1 .. Len(r) PROVE Proper(r[k])
    <2>1. k < i \/ k = i \/ k > i
      BY <1>1
    <2> QED BY <1>2, <2>1 DEF Formed
  <1>4. ASSUME NEW j \in 1 .. Len(q)
        PROVE  (j < i => Apart(q[j], g)) /\ (~(j < i) => Apart(g, q[j]))
    <2>1. q[j].niceness \in Int /\ g.niceness \in Int
      BY GroupType DEF Formed, Proper
    <2>2. IF j < i THEN q[j].niceness <= g.niceness ELSE q[j].niceness > g.niceness
      BY DEF Place
    <2>3. KeyOf(q[j]) # KeyOf(g) /\ JobsOf(q[j]) \cap JobsOf(g) = {}
      BY DEF Foreign
    <2> QED BY <2>1, <2>2, <2>3 DEF Apart
  <1>5. ASSUME NEW j \in 1 .. Len(r), NEW k \in 1 .. Len(r), j < k PROVE Apart(r[j], r[k])
    <2>1. \A a, b \in 1 .. Len(q) : a < b => Apart(q[a], q[b])
      BY DEF Formed
    <2>2. CASE k < i
      BY <1>1, <1>2, <1>5, <2>1, <2>2
    <2>3. CASE k = i
      BY <1>1, <1>2, <1>4, <1>5, <2>3
    <2>4. CASE k > i /\ j < i
      <3>1. /\ j \in 1 .. Len(q) /\ r[j] = q[j] /\ k - 1 \in 1 .. Len(q) /\ r[k] = q[k - 1]
            /\ j < k - 1
        BY <1>1, <1>2, <2>4
      <3> QED BY <2>1, <3>1
    <2>5. CASE k > i /\ j = i
      <3>1. k - 1 \in 1 .. Len(q) /\ ~(k - 1 < i) /\ r[j] = g /\ r[k] = q[k - 1]
        BY <1>1, <1>2, <2>5
      <3> QED BY <1>4, <3>1
    <2>6. CASE k > i /\ j > i
      <3>1. /\ j - 1 \in 1 .. Len(q) /\ r[j] = q[j - 1] /\ k - 1 \in 1 .. Len(q) /\ r[k] = q[k - 1]
            /\ j - 1 < k - 1
        BY <1>1, <1>2, <1>5, <2>6
      <3> QED BY <2>1, <3>1
    <2> QED BY <1>1, <2>2, <2>3, <2>4, <2>5, <2>6
  <1> QED BY <1>1, <1>3, <1>5 DEF Formed

\* Append and InsertAt put a group into the list.
LEMMA AppendPuts ==
    ASSUME NEW q \in Seq(Group), NEW g \in Group
    PROVE  PutAt(q, Append(q, g), Len(q) + 1, g)
  <1>1. Len(q) \in Nat /\ Append(q, g) \in Seq(Group) /\ Len(Append(q, g)) = Len(q) + 1
    OBVIOUS
  <1>2. \A k \in 1 .. Len(q) + 1 : Append(q, g)[k] = IF k < Len(q) + 1 THEN q[k] ELSE g
    BY <1>1
  <1> QED BY <1>1, <1>2 DEF PutAt

LEMMA InsertAtPuts ==
    ASSUME NEW q \in Seq(Group), NEW g \in Group, NEW i \in 1 .. Len(q)
    PROVE  PutAt(q, InsertAt(q, i, g), i, g)
  <1> DEFINE a == SubSeq(q, 1, i - 1)
             b == SubSeq(q, i, Len(q))
             c == a \o <<g>>
             r == c \o b
  <1>1. Len(q) \in Nat /\ i \in Nat /\ i - 1 \in Nat /\ (Len(q) - i) + 1 \in Nat
    OBVIOUS
  <1>2. a \in Seq(Group) /\ Len(a) = i - 1 /\ \A k \in 1 .. i - 1 : a[k] = q[k]
    OBVIOUS
  <1>3. /\ b \in Seq(Group) /\ Len(b) = (Len(q) - i) + 1
        /\ \A k \in 1 .. (Len(q) - i) + 1 : b[k] = q[(i - 1) + k]
    OBVIOUS
  <1> HIDE DEF a, b
  <1>4. c \in Seq(Group) /\ Len(c) = i /\ c[i] = g /\ \A k \in 1 .. i - 1 : c[k] = a[k]
    BY <1>1, <1>2
  <1> HIDE DEF c
  <1>5. /\ r \in Seq(Group) /\ Len(r) = Len(q) + 1
        /\ \A k \in 1 .. i : r[k] = c[k]
        /\ \A k \in 1 .. (Len(q) - i) + 1 : r[i + k] = b[k]
    <2>1. /\ r \in Seq(Group) /\ Len(r) = Len(c) + Len(b)
          /\ \A k \in 1 .. Len(c) : r[k] = c[k]
          /\ \A k \in 1 .. Len(b) : r[Len(c) + k] = b[k]
      <3>1. c \in Seq(Group) /\ b \in Seq(Group)
        BY <1>3, <1>4
      <3> QED BY <3>1, Joined
    <2> HIDE DEF r
    <2> QED BY <1>1, <1>3, <1>4, <2>1
  <1>6. ASSUME NEW k \in 1 .. Len(q) + 1
        PROVE  r[k] = IF k < i THEN q[k] ELSE IF k = i THEN g ELSE q[k - 1]
    <2>1. CASE k < i
      BY <1>1, <1>2, <1>4, <1>5, <2>1
    <2>2. CASE k = i
      BY <1>1, <1>4, <1>5, <2>2
    <2>3. CASE k > i
      <3> HIDE DEF r
      <3> DEFINE j == k - i
      <3>1. j \in 1 .. (Len(q) - i) + 1 /\ i + j = k /\ (i - 1) + j = k - 1
        BY <1>1, <2>3
      <3> HIDE DEF j
      <3>2. r[i + j] = b[j] /\ b[j] = q[(i - 1) + j]
        BY <1>3, <1>5, <3>1
      <3>3. r[k] = q[k - 1]
        BY <3>1, <3>2
      <3>4. ~(k < i) /\ k # i
        BY <1>1, <2>3
      <3> QED BY <3>3, <3>4
    <2>4. k < i \/ k = i \/ k > i
      BY <1>1
    <2> QED BY <2>1, <2>2, <2>3, <2>4
  <1>7. InsertAt(q, i, g) = r
    BY DEF InsertAt, a, b, c, r
  <1> HIDE DEF r
  <1> QED BY <1>1, <1>5, <1>6, <1>7 DEF PutAt

-----------------------------------------------------------------------------
(* A group grows *)

GrownAt(q, r, i, g) ==
    /\ r \in Seq(Group) /\ Len(r) = Len(q)
    /\ \A k \in 1 .. Len(q) : r[k] = IF k = i THEN g ELSE q[k]

\* The job is a new one: its id is larger than those of the jobs in the list.
Newer(q, job) == \A k \in 1 .. Len(q) : \A j \in JobsOf(q[k]) : j < job

\* A group and a new job.
Larger(o, g, job) == KeyOf(g) = KeyOf(o) /\ JobsOf(g) = JobsOf(o) \cup {job} /\ Proper(g)

\* A sequence of jobs gets one more.
LEMMA AppendJob ==
    ASSUME NEW x \in Seq(Job), NEW job \in Job, Ascending(x), \A k \in 1 .. Len(x) : x[k] < job
    PROVE  /\ Append(x, job) \in Seq(Job) /\ Len(Append(x, job)) > 0 /\ Ascending(Append(x, job))
           /\ ToSet(Append(x, job)) = ToSet(x) \cup {job}
  <1> DEFINE y == Append(x, job)
  <1>1. /\ y \in Seq(Job) /\ Len(y) = Len(x) + 1 /\ Len(x) \in Nat /\ y[Len(x) + 1] = job
        /\ \A k \in 1 .. Len(x) : y[k] = x[k]
    OBVIOUS
  <1> HIDE DEF y
  <1>2. ASSUME NEW i \in 1 .. Len(y), NEW k \in 1 .. Len(y), i < k PROVE y[i] < y[k]
    <2>1. i \in 1 .. Len(x) /\ y[i] = x[i]
      BY <1>1, <1>2
    <2>2. CASE k = Len(x) + 1
      BY <1>1, <2>1, <2>2
    <2>3. CASE k # Len(x) + 1
      <3>1. k \in 1 .. Len(x) /\ y[k] = x[k]
        BY <1>1, <2>3
      <3> QED BY <1>2, <2>1, <3>1 DEF Ascending
    <2> QED BY <2>2, <2>3
  <1>3. DOMAIN x = 1 .. Len(x) /\ DOMAIN y = 1 .. Len(x) + 1
    BY <1>1
  <1>4. ASSUME NEW j PROVE j \in ToSet(y) <=> j \in ToSet(x) \cup {job}
    <2>1. j \in ToSet(y) <=> \E k \in 1 .. Len(x) + 1 : y[k] = j
      BY <1>3 DEF ToSet
    <2>2. j \in ToSet(x) <=> \E k \in 1 .. Len(x) : x[k] = j
      BY <1>3 DEF ToSet
    <2>3. \A k \in 1 .. Len(x) + 1 : k \in 1 .. Len(x) \/ k = Len(x) + 1
      BY <1>1
    <2>4. 1 .. Len(x) \subseteq 1 .. Len(x) + 1 /\ Len(x) + 1 \in 1 .. Len(x) + 1
      BY <1>1
    <2> QED BY <1>1, <2>1, <2>2, <2>3, <2>4
  <1>5. y \in Seq(Job) /\ Len(y) > 0 /\ Ascending(y) /\ ToSet(y) = ToSet(x) \cup {job}
    BY <1>1, <1>2, <1>4 DEF Ascending
  <1> QED BY <1>5 DEF y

\* push_back into the group at position i.
LEMMA Grows ==
    ASSUME NEW q, Formed(q), NEW i \in 1 .. Len(q), NEW job \in Job, Newer(q, job)
    PROVE  \E g : /\ Larger(q[i], g, job)
                  /\ GrownAt(q, [q EXCEPT ![i].l = Append(@, job)], i, g)
  <1> DEFINE x == Append(q[i].l, job)
             g == [q[i] EXCEPT !.l = x]
             r == [q EXCEPT ![i] = g]
  <1>1. q \in Seq(Group) /\ q[i] \in Group /\ Ascending(q[i].l)
    BY DEF Formed, Proper
  <1>2. q[i].l \in Seq(Job) /\ \A k \in 1 .. Len(q[i].l) : q[i].l[k] < job
    BY <1>1, GroupType DEF Newer
  <1>3. x \in Seq(Job) /\ Len(x) > 0 /\ Ascending(x) /\ ToSet(x) = JobsOf(q[i]) \cup {job}
    BY <1>1, <1>2, AppendJob DEF JobsOf
  <1> HIDE DEF x
  <1>4. g \in Group /\ KeyOf(g) = KeyOf(q[i]) /\ g.l = x
    BY <1>1, <1>3 DEF Group, KeyOf
  <1>5. Larger(q[i], g, job)
    BY <1>3, <1>4 DEF Larger, Proper, JobsOf
  <1> HIDE DEF g
  <1>6. r \in Seq(Group) /\ Len(r) = Len(q) /\ \A k \in 1 .. Len(q) : r[k] = IF k = i THEN g ELSE q[k]
    BY <1>1, <1>4
  <1>7. GrownAt(q, r, i, g)
    BY <1>6 DEF GrownAt
  <1>8. r = [q EXCEPT ![i].l = Append(@, job)]
    BY DEF r, g, x
  <1> HIDE DEF r
  <1> QED BY <1>5, <1>7, <1>8

LEMMA GrownFormed ==
    ASSUME NEW q, NEW r, NEW g, Formed(q), NEW i \in 1 .. Len(q), NEW job \in Job, Newer(q, job),
           Larger(q[i], g, job), GrownAt(q, r, i, g)
    PROVE  Formed(r)
  <1>1. r \in Seq(Group) /\ Len(r) = Len(q) /\ Len(q) \in Nat /\ i \in Nat
    BY DEF GrownAt, Formed
  <1>2. \A k \in 1 .. Len(q) : r[k] = IF k = i THEN g ELSE q[k]
    BY DEF GrownAt
  <1>3. \A k \in 1 .. Len(r) : Proper(r[k])
    BY <1>1, <1>2 DEF Formed, Larger
  <1>4. g.niceness = q[i].niceness /\ KeyOf(g) = KeyOf(q[i]) /\ JobsOf(g) = JobsOf(q[i]) \cup {job}
    BY DEF Larger, KeyOf
  <1>5. \A k \in 1 .. Len(q) : job \notin JobsOf(q[k])
    <2>1. job \in Int /\ ~(job < job)
      BY NumberAssumption DEF Job
    <2> QED BY <2>1 DEF Newer
  <1>6. ASSUME NEW j \in 1 .. Len(q), NEW k \in 1 .. Len(q), j < k PROVE Apart(r[j], r[k])
    <2>1. Apart(q[j], q[k])
      BY <1>6 DEF Formed
    <2>2. j # k
      BY <1>6
    <2>3. CASE j = i
      <3>1. r[j] = g /\ r[k] = q[k]
        BY <1>2, <2>2, <2>3
      <3> QED BY <1>4, <1>5, <2>1, <2>3, <3>1 DEF Apart
    <2>4. CASE k = i
      <3>1. r[k] = g /\ r[j] = q[j]
        BY <1>2, <2>2, <2>4
      <3> QED BY <1>4, <1>5, <2>1, <2>4, <3>1 DEF Apart
    <2>5. CASE j # i /\ k # i
      BY <1>2, <2>1, <2>5
    <2> QED BY <2>3, <2>4, <2>5
  <1> QED BY <1>1, <1>3, <1>6 DEF Formed

-----------------------------------------------------------------------------
(* What the abstract queue sees of a list *)

InQueue(q) == UNION {ToSet(q[i].l) : i \in DOMAIN q}
Keys(q) == {KeyOf(q[i]) : i \in 1 .. Len(q)}
GroupIn(q) == [j \in InQueue(q) |-> KeyOf(q[CHOOSE i \in DOMAIN q : Contains(q[i].l, j)])]
AheadIn(q) == {<<KeyOf(q[p[1]]), KeyOf(q[p[2]])>> : p \in
                  {r \in (DOMAIN q) \X (DOMAIN q) : r[1] < r[2] /\ q[r[1]].niceness = q[r[2]].niceness}}

\* The jobs that wait are those of the groups.
LEMMA InQueueIs ==
    ASSUME NEW q \in Seq(Group)
    PROVE  \A j : j \in InQueue(q) <=> \E i \in 1 .. Len(q) : j \in JobsOf(q[i])
  <1>1. DOMAIN q = 1 .. Len(q)
    OBVIOUS
  <1> QED BY <1>1 DEF InQueue, JobsOf

\* A job belongs to the group it is in.
LEMMA GroupIs ==
    ASSUME NEW q, Formed(q), NEW i \in 1 .. Len(q), NEW j \in JobsOf(q[i])
    PROVE  j \in InQueue(q) /\ GroupIn(q)[j] = KeyOf(q[i])
  <1>1. q \in Seq(Group) /\ DOMAIN q = 1 .. Len(q) /\ Len(q) \in Nat
    BY DEF Formed
  <1>2. j \in InQueue(q)
    BY <1>1, InQueueIs
  <1>3. \A k \in 1 .. Len(q) : Contains(q[k].l, j) <=> j \in JobsOf(q[k])
    BY <1>1, GroupType DEF Contains
  <1>4. \A k \in 1 .. Len(q) : j \in JobsOf(q[k]) => k = i
    <2>1. ASSUME NEW a \in 1 .. Len(q), NEW b \in 1 .. Len(q), a < b
          PROVE  JobsOf(q[a]) \cap JobsOf(q[b]) = {}
      BY <2>1 DEF Formed, Apart
    <2>2. \A k \in 1 .. Len(q) : k = i \/ k < i \/ i < k
      BY <1>1
    <2> QED BY <2>1, <2>2
  <1>5. (CHOOSE k \in DOMAIN q : Contains(q[k].l, j)) = i
    BY <1>1, <1>3, <1>4
  <1> QED BY <1>2, <1>5 DEF GroupIn

\* The order of the groups.
LEMMA AheadIs ==
    ASSUME NEW q \in Seq(Group)
    PROVE  \A e : e \in AheadIn(q) <=>
               \E i, k \in 1 .. Len(q) : /\ i < k /\ q[i].niceness = q[k].niceness
                                         /\ e = <<KeyOf(q[i]), KeyOf(q[k])>>
  <1>1. DOMAIN q = 1 .. Len(q)
    OBVIOUS
  <1> DEFINE P == {r \in (1 .. Len(q)) \X (1 .. Len(q)) : r[1] < r[2] /\ q[r[1]].niceness = q[r[2]].niceness}
  <1>2. \A e : e \in AheadIn(q) <=> \E p \in P : e = <<KeyOf(q[p[1]]), KeyOf(q[p[2]])>>
    BY <1>1 DEF AheadIn
  <1>3. ASSUME NEW e, NEW p \in P, e = <<KeyOf(q[p[1]]), KeyOf(q[p[2]])>>
        PROVE  \E i, k \in 1 .. Len(q) : /\ i < k /\ q[i].niceness = q[k].niceness
                                         /\ e = <<KeyOf(q[i]), KeyOf(q[k])>>
    BY <1>3
  <1>4. ASSUME NEW e, NEW i \in 1 .. Len(q), NEW k \in 1 .. Len(q), i < k, q[i].niceness = q[k].niceness,
               e = <<KeyOf(q[i]), KeyOf(q[k])>>
        PROVE  \E p \in P : e = <<KeyOf(q[p[1]]), KeyOf(q[p[2]])>>
    <2>1. <<i, k>> \in P
      BY <1>4
    <2> QED BY <1>4, <2>1
  <1> HIDE DEF P
  <1> QED BY <1>2, <1>3, <1>4

\* No two groups of a list have the same key.
LEMMA KeysApart ==
    ASSUME NEW q, Formed(q), NEW i \in 1 .. Len(q), NEW k \in 1 .. Len(q), KeyOf(q[i]) = KeyOf(q[k])
    PROVE  i = k
  <1>1. i \in Int /\ k \in Int
    BY DEF Formed
  <1>2. ~(i < k) /\ ~(k < i)
    BY DEF Formed, Apart
  <1> QED BY <1>1, <1>2

\* What a thinned list shows.
Reduced(q, r) ==
    /\ InQueue(r) \subseteq InQueue(q) /\ Keys(r) \subseteq Keys(q)
    /\ \A j \in InQueue(r) : GroupIn(r)[j] = GroupIn(q)[j]
    /\ AheadIn(r) = Fair!Without(AheadIn(q), Keys(q) \ Keys(r))

LEMMA ThinnedReduced ==
    ASSUME NEW q, NEW r, Formed(q), Thinned(q, r)
    PROVE  Reduced(q, r)
  <1>0. q \in Seq(Group) /\ r \in Seq(Group) /\ Formed(r) /\ Len(r) \in Nat
    BY ThinnedFormed DEF Formed
  <1>1. PICK m : Thins(q, r, m)
    BY DEF Thinned
  <1>2. /\ m \in [1 .. Len(r) -> 1 .. Len(q)]
        /\ \A i, k \in 1 .. Len(r) : i < k => m[i] < m[k]
        /\ \A k \in 1 .. Len(r) : /\ KeyOf(r[k]) = KeyOf(q[m[k]]) /\ r[k].niceness = q[m[k]].niceness
                                  /\ JobsOf(r[k]) \subseteq JobsOf(q[m[k]])
    BY <1>1 DEF Thins, KeyOf
  <1>3. ASSUME NEW j \in InQueue(r) PROVE j \in InQueue(q) /\ GroupIn(r)[j] = GroupIn(q)[j]
    <2>1. PICK k \in 1 .. Len(r) : j \in JobsOf(r[k])
      BY <1>0, InQueueIs
    <2>2. m[k] \in 1 .. Len(q) /\ j \in JobsOf(q[m[k]]) /\ KeyOf(r[k]) = KeyOf(q[m[k]])
      BY <1>2, <2>1
    <2>3. j \in InQueue(q) /\ GroupIn(q)[j] = KeyOf(q[m[k]])
      BY <2>2, GroupIs
    <2>4. GroupIn(r)[j] = KeyOf(r[k])
      BY <1>0, <2>1, GroupIs
    <2> QED BY <2>2, <2>3, <2>4
  <1>4. Keys(r) \subseteq Keys(q)
    BY <1>2 DEF Keys
  <1> DEFINE gone == Keys(q) \ Keys(r)
  <1>5. ASSUME NEW e \in AheadIn(r) PROVE e \in Fair!Without(AheadIn(q), gone)
    <2>1. PICK i \in 1 .. Len(r), k \in 1 .. Len(r) :
              i < k /\ r[i].niceness = r[k].niceness /\ e = <<KeyOf(r[i]), KeyOf(r[k])>>
      BY <1>0, AheadIs
    <2>2. /\ m[i] \in 1 .. Len(q) /\ m[k] \in 1 .. Len(q) /\ m[i] < m[k]
          /\ q[m[i]].niceness = q[m[k]].niceness /\ e = <<KeyOf(q[m[i]]), KeyOf(q[m[k]])>>
      BY <1>2, <2>1
    <2>3. e \in AheadIn(q)
      BY <1>0, <2>2, AheadIs
    <2>4. e[1] \in Keys(r) /\ e[2] \in Keys(r)
      BY <2>1 DEF Keys
    <2> QED BY <2>3, <2>4 DEF Fair!Without
  <1>6. ASSUME NEW e \in Fair!Without(AheadIn(q), gone) PROVE e \in AheadIn(r)
    <2>1. e \in AheadIn(q) /\ e[1] \notin gone /\ e[2] \notin gone
      BY <1>6 DEF Fair!Without
    <2>2. PICK i \in 1 .. Len(q), k \in 1 .. Len(q) :
              i < k /\ q[i].niceness = q[k].niceness /\ e = <<KeyOf(q[i]), KeyOf(q[k])>>
      BY <1>0, <2>1, AheadIs
    <2>3. KeyOf(q[i]) \in Keys(r) /\ KeyOf(q[k]) \in Keys(r)
      BY <2>1, <2>2 DEF Keys
    <2>4. PICK a \in 1 .. Len(r) : KeyOf(r[a]) = KeyOf(q[i])
      BY <2>3 DEF Keys
    <2>5. PICK b \in 1 .. Len(r) : KeyOf(r[b]) = KeyOf(q[k])
      BY <2>3 DEF Keys
    <2>6. m[a] = i
      BY <1>2, <2>4, KeysApart
    <2>7. m[b] = k
      BY <1>2, <2>5, KeysApart
    <2>8. a < b
      <3>1. a < b \/ a = b \/ b < a
        BY <1>0
      <3>2. i \in Int /\ k \in Int
        BY <1>0
      <3> QED BY <1>2, <2>2, <2>6, <2>7, <3>1, <3>2
    <2>9. r[a].niceness = r[b].niceness /\ e = <<KeyOf(r[a]), KeyOf(r[b])>>
      BY <1>2, <2>2, <2>4, <2>5, <2>6, <2>7
    <2> QED BY <1>0, <2>8, <2>9, AheadIs
  <1>7. AheadIn(r) = Fair!Without(AheadIn(q), gone)
    BY <1>5, <1>6
  <1> QED BY <1>3, <1>4, <1>7 DEF Reduced

\* What a list shows that has one more group.
Extended(q, r, g) ==
    /\ InQueue(r) = InQueue(q) \cup JobsOf(g) /\ Keys(r) = Keys(q) \cup {KeyOf(g)}
    /\ \A j \in InQueue(r) : GroupIn(r)[j] = IF j \in JobsOf(g) THEN KeyOf(g) ELSE GroupIn(q)[j]
    /\ AheadIn(r) = Fair!Behind(AheadIn(q), KeyOf(g), Keys(q))

LEMMA PutExtended ==
    ASSUME NEW q, NEW r, NEW i, NEW g, Formed(q), Proper(g), Place(q, i, g), Foreign(q, g),
           PutAt(q, r, i, g)
    PROVE  Extended(q, r, g)
  <1>0. q \in Seq(Group) /\ r \in Seq(Group) /\ Formed(r)
    BY PutFormed DEF Formed
  <1>1. /\ Len(q) \in Nat /\ i \in Nat /\ Len(r) = Len(q) + 1 /\ i \in 1 .. Len(q) + 1
        /\ i \in 1 .. Len(r)
    BY <1>0 DEF PutAt, Place
  <1> DEFINE at == [k \in 1 .. Len(q) |-> IF k < i THEN k ELSE k + 1]
  <1>2. \A k \in 1 .. Len(q) : at[k] \in 1 .. Len(r) /\ at[k] # i
    BY <1>1
  <1>3. \A j, k \in 1 .. Len(q) : j < k => at[j] < at[k]
    BY <1>1
  <1>4. \A k \in 1 .. Len(q) : r[at[k]] = q[k]
    <2> SUFFICES ASSUME NEW k \in 1 .. Len(q) PROVE r[at[k]] = q[k]
      OBVIOUS
    <2>1. CASE k < i
      BY <1>1, <2>1 DEF PutAt
    <2>2. CASE ~(k < i)
      <3>1. at[k] = k + 1 /\ ~(k + 1 < i) /\ k + 1 # i /\ (k + 1) - 1 = k /\ k + 1 \in 1 .. Len(r)
        BY <1>1, <2>2
      <3> HIDE DEF at
      <3>2. r[k + 1] = q[(k + 1) - 1]
        BY <3>1 DEF PutAt
      <3> QED BY <3>1, <3>2
    <2> QED BY <2>1, <2>2
  <1>5. r[i] = g
    BY <1>1 DEF PutAt
  <1>6. \A k \in 1 .. Len(r) : k = i \/ \E j \in 1 .. Len(q) : at[j] = k
    <2> SUFFICES ASSUME NEW k \in 1 .. Len(r), k # i PROVE \E j \in 1 .. Len(q) : at[j] = k
      OBVIOUS
    <2>1. CASE k < i
      <3>1. k \in 1 .. Len(q) /\ at[k] = k
        BY <1>1, <2>1
      <3> QED BY <3>1
    <2>2. CASE ~(k < i)
      <3>1. k - 1 \in 1 .. Len(q) /\ at[k - 1] = k
        BY <1>1, <2>2
      <3> QED BY <3>1
    <2> QED BY <2>1, <2>2
  <1>7. \A k \in 1 .. Len(q) : at[k] < i <=> k < i
    BY <1>1
  <1> HIDE DEF at
  <1>8. Keys(r) = Keys(q) \cup {KeyOf(g)}
    BY <1>1, <1>2, <1>4, <1>5, <1>6 DEF Keys
  <1>9. ASSUME NEW j PROVE j \in InQueue(r) <=> j \in InQueue(q) \cup JobsOf(g)
    <2>1. j \in InQueue(r) <=> \E k \in 1 .. Len(r) : j \in JobsOf(r[k])
      BY <1>0, InQueueIs
    <2>2. j \in InQueue(q) <=> \E k \in 1 .. Len(q) : j \in JobsOf(q[k])
      BY <1>0, InQueueIs
    <2>3. ASSUME NEW k \in 1 .. Len(r), j \in JobsOf(r[k])
          PROVE  j \in JobsOf(g) \/ \E a \in 1 .. Len(q) : j \in JobsOf(q[a])
      BY <1>4, <1>5, <1>6, <2>3
    <2>4. ASSUME NEW k \in 1 .. Len(q), j \in JobsOf(q[k])
          PROVE  at[k] \in 1 .. Len(r) /\ j \in JobsOf(r[at[k]])
      BY <1>2, <1>4, <2>4
    <2>5. j \in JobsOf(g) => i \in 1 .. Len(r) /\ j \in JobsOf(r[i])
      BY <1>1, <1>5
    <2> QED BY <2>1, <2>2, <2>3, <2>4, <2>5
  <1>10. ASSUME NEW j \in InQueue(r)
         PROVE  GroupIn(r)[j] = IF j \in JobsOf(g) THEN KeyOf(g) ELSE GroupIn(q)[j]
    <2>1. CASE j \in JobsOf(g)
      BY <1>0, <1>1, <1>5, <2>1, GroupIs
    <2>2. CASE j \notin JobsOf(g)
      <3>1. PICK k \in 1 .. Len(q) : j \in JobsOf(q[k])
        BY <1>0, <1>9, <2>2, InQueueIs
      <3>2. GroupIn(q)[j] = KeyOf(q[k])
        BY <3>1, GroupIs
      <3>3. at[k] \in 1 .. Len(r) /\ j \in JobsOf(r[at[k]]) /\ KeyOf(r[at[k]]) = KeyOf(q[k])
        BY <1>2, <1>4, <3>1
      <3>4. GroupIn(r)[j] = KeyOf(r[at[k]])
        BY <1>0, <3>3, GroupIs
      <3> QED BY <2>2, <3>2, <3>3, <3>4
    <2> QED BY <2>1, <2>2
  <1>11. ASSUME NEW e \in AheadIn(r) PROVE e \in Fair!Behind(AheadIn(q), KeyOf(g), Keys(q))
    <2>1. PICK a \in 1 .. Len(r), b \in 1 .. Len(r) :
              a < b /\ r[a].niceness = r[b].niceness /\ e = <<KeyOf(r[a]), KeyOf(r[b])>>
      BY <1>0, AheadIs
    <2>2. CASE a = i
      <3>1. b # i
        BY <1>1, <2>1, <2>2
      <3>2. PICK k \in 1 .. Len(q) : at[k] = b
        BY <1>6, <3>1
      <3>3. ~(k < i) /\ q[k].niceness = g.niceness
        BY <1>1, <1>4, <1>5, <1>7, <2>1, <2>2, <3>2
      <3>4. q[k].niceness > g.niceness /\ q[k].niceness \in Int
        BY <1>0, <3>3, GroupType DEF Place
      <3> QED BY <3>3, <3>4
    <2>3. CASE b = i /\ a # i
      <3>1. PICK k \in 1 .. Len(q) : at[k] = a
        BY <1>6, <2>3
      <3>2. q[k].niceness = g.niceness /\ e = <<KeyOf(q[k]), KeyOf(g)>> /\ KeyOf(q[k]) \in Keys(q)
        BY <1>4, <1>5, <2>1, <2>3, <3>1 DEF Keys
      <3>3. KeyOf(q[k])[2] = KeyOf(g)[2]
        BY <3>2 DEF KeyOf
      <3> QED BY <3>2, <3>3 DEF Fair!Behind
    <2>4. CASE b # i /\ a # i
      <3>1. PICK j \in 1 .. Len(q) : at[j] = a
        BY <1>6, <2>4
      <3>2. PICK k \in 1 .. Len(q) : at[k] = b
        BY <1>6, <2>4
      <3>3. j < k
        <4>1. j < k \/ j = k \/ k < j
          BY <1>1
        <4>2. a \in Int /\ b \in Int
          BY <1>1
        <4> QED BY <1>3, <2>1, <3>1, <3>2, <4>1, <4>2
      <3>4. q[j].niceness = q[k].niceness /\ e = <<KeyOf(q[j]), KeyOf(q[k])>>
        BY <1>4, <2>1, <3>1, <3>2
      <3>5. e \in AheadIn(q)
        BY <1>0, <3>3, <3>4, AheadIs
      <3> QED BY <3>5 DEF Fair!Behind
    <2> QED BY <2>2, <2>3, <2>4
  <1>12. ASSUME NEW e \in Fair!Behind(AheadIn(q), KeyOf(g), Keys(q)) PROVE e \in AheadIn(r)
    <2>1. CASE e \in AheadIn(q)
      <3>1. PICK j \in 1 .. Len(q), k \in 1 .. Len(q) :
                j < k /\ q[j].niceness = q[k].niceness /\ e = <<KeyOf(q[j]), KeyOf(q[k])>>
        BY <1>0, <2>1, AheadIs
      <3>2. /\ at[j] \in 1 .. Len(r) /\ at[k] \in 1 .. Len(r) /\ at[j] < at[k]
            /\ r[at[j]] = q[j] /\ r[at[k]] = q[k]
        BY <1>2, <1>3, <1>4, <3>1
      <3>3. r[at[j]].niceness = r[at[k]].niceness /\ e = <<KeyOf(r[at[j]]), KeyOf(r[at[k]])>>
        BY <3>1, <3>2
      <3> QED BY <1>0, <3>2, <3>3, AheadIs
    <2>2. CASE e \notin AheadIn(q)
      <3>1. PICK h \in Keys(q) : h[2] = KeyOf(g)[2] /\ e = <<h, KeyOf(g)>>
        BY <1>12, <2>2 DEF Fair!Behind
      <3>2. PICK k \in 1 .. Len(q) : h = KeyOf(q[k])
        BY DEF Keys
      <3>3. q[k].niceness = g.niceness
        BY <3>1, <3>2 DEF KeyOf
      <3>4. k < i
        <4>1. q[k].niceness \in Int /\ ~(q[k].niceness > g.niceness)
          BY <1>0, <3>3, GroupType
        <4> QED BY <4>1 DEF Place
      <3>5. at[k] \in 1 .. Len(r) /\ at[k] < i /\ r[at[k]] = q[k]
        BY <1>2, <1>4, <1>7, <3>4
      <3> QED BY <1>0, <1>1, <1>5, <3>1, <3>2, <3>3, <3>5, AheadIs
    <2> QED BY <2>1, <2>2
  <1>13. AheadIn(r) = Fair!Behind(AheadIn(q), KeyOf(g), Keys(q))
    BY <1>11, <1>12
  <1> QED BY <1>8, <1>9, <1>10, <1>13 DEF Extended

\* What a list shows after a request of the group with that key.
Asked(q, r, key, ids) ==
    /\ InQueue(r) = InQueue(q) \cup ids /\ Keys(r) = Keys(q) \cup {key}
    /\ \A j \in InQueue(r) : GroupIn(r)[j] = IF j \in ids THEN key ELSE GroupIn(q)[j]
    /\ AheadIn(r) = IF key \in Keys(q) THEN AheadIn(q) ELSE Fair!Behind(AheadIn(q), key, Keys(q))

LEMMA GrownAsked ==
    ASSUME NEW q, NEW r, NEW g, Formed(q), NEW i \in 1 .. Len(q), NEW job \in Job, Newer(q, job),
           Larger(q[i], g, job), GrownAt(q, r, i, g)
    PROVE  Asked(q, r, KeyOf(q[i]), {job})
  <1>0. q \in Seq(Group) /\ r \in Seq(Group) /\ Formed(r) /\ Len(r) = Len(q)
    BY GrownFormed DEF Formed, GrownAt
  <1>1. \A k \in 1 .. Len(q) : r[k] = IF k = i THEN g ELSE q[k]
    BY DEF GrownAt
  <1>2. \A k \in 1 .. Len(q) : /\ KeyOf(r[k]) = KeyOf(q[k]) /\ r[k].niceness = q[k].niceness
                               /\ JobsOf(r[k]) = IF k = i THEN JobsOf(q[k]) \cup {job} ELSE JobsOf(q[k])
    BY <1>1 DEF Larger, KeyOf
  <1>3. ASSUME NEW j PROVE j \in InQueue(r) <=> j \in InQueue(q) \cup {job}
    <2>1. j \in InQueue(r) <=> \E k \in 1 .. Len(q) : j \in JobsOf(r[k])
      BY <1>0, InQueueIs
    <2>2. j \in InQueue(q) <=> \E k \in 1 .. Len(q) : j \in JobsOf(q[k])
      BY <1>0, InQueueIs
    <2> QED BY <1>2, <2>1, <2>2
  <1>4. Keys(r) = Keys(q) /\ KeyOf(q[i]) \in Keys(q)
    BY <1>0, <1>2 DEF Keys
  <1>5. ASSUME NEW j \in InQueue(r)
        PROVE  GroupIn(r)[j] = IF j \in {job} THEN KeyOf(q[i]) ELSE GroupIn(q)[j]
    <2>1. CASE j = job
      <3>1. j \in JobsOf(r[i])
        BY <1>2, <2>1
      <3>2. GroupIn(r)[j] = KeyOf(r[i])
        BY <1>0, <3>1, GroupIs
      <3> QED BY <1>2, <2>1, <3>2
    <2>2. CASE j # job
      <3>1. PICK k \in 1 .. Len(q) : j \in JobsOf(q[k])
        BY <1>0, <1>3, <2>2, InQueueIs
      <3>2. j \in JobsOf(r[k])
        BY <1>2, <3>1
      <3>3. GroupIn(r)[j] = KeyOf(r[k]) /\ GroupIn(q)[j] = KeyOf(q[k])
        BY <1>0, <3>1, <3>2, GroupIs
      <3> QED BY <1>2, <2>2, <3>3
    <2> QED BY <2>1, <2>2
  <1>6. ASSUME NEW e PROVE e \in AheadIn(r) <=> e \in AheadIn(q)
    <2>1. e \in AheadIn(r) <=> \E a, b \in 1 .. Len(q) : /\ a < b /\ r[a].niceness = r[b].niceness
                                                        /\ e = <<KeyOf(r[a]), KeyOf(r[b])>>
      BY <1>0, AheadIs
    <2>2. e \in AheadIn(q) <=> \E a, b \in 1 .. Len(q) : /\ a < b /\ q[a].niceness = q[b].niceness
                                                        /\ e = <<KeyOf(q[a]), KeyOf(q[b])>>
      BY <1>0, AheadIs
    <2> QED BY <1>2, <2>1, <2>2
  <1> QED BY <1>3, <1>4, <1>5, <1>6 DEF Asked

-----------------------------------------------------------------------------
(* The operations on the list *)

\* A group of the list is put where the lower priorities start.
LEMMA EnqueueGroup ==
    ASSUME NEW q, Formed(q), NEW g, Proper(g), Foreign(q, g)
    PROVE  LET r == enqueue_job_requests_group(q, g) IN Formed(r) /\ Extended(q, r, g)
  <1> DEFINE I == {i \in 1 .. Len(q) : q[i].niceness > g.niceness}
             r == enqueue_job_requests_group(q, g)
  <1>1. q \in Seq(Group) /\ g \in Group /\ Len(q) \in Nat
    BY DEF Formed, Proper
  <1>2. r = IF I # {} THEN (IF Min(I) = 0 THEN Append(q, g) ELSE InsertAt(q, Min(I), g)) ELSE Append(q, g)
    BY DEF enqueue_job_requests_group, SelectInSeq
  <1>3. \A k \in 1 .. Len(q) : q[k].niceness \in Int /\ g.niceness \in Int
    BY <1>1, GroupType
  <1> HIDE DEF r
  <1>4. \E i : Place(q, i, g) /\ PutAt(q, r, i, g)
    <2>1. CASE I = {}
      <3>1. \A k \in 1 .. Len(q) : q[k].niceness <= g.niceness /\ k < Len(q) + 1
        BY <1>1, <1>3, <2>1
      <3>2. Place(q, Len(q) + 1, g)
        BY <1>1, <3>1 DEF Place
      <3>3. PutAt(q, r, Len(q) + 1, g)
        BY <1>1, <1>2, <2>1, AppendPuts
      <3> QED BY <3>2, <3>3
    <2>2. CASE I # {}
      <3>1. I \subseteq Nat /\ I \subseteq 1 .. Len(q)
        OBVIOUS
      <3>2. Min(I) \in I /\ \A y \in I : Min(I) <= y
        <4> HIDE DEF I
        <4> QED BY <2>2, <3>1, MinIn
      <3> DEFINE i == Min(I)
      <3>3. i \in 1 .. Len(q) /\ i # 0 /\ q[i].niceness > g.niceness /\ \A y \in I : i <= y
        BY <3>1, <3>2
      <3>4. PutAt(q, r, i, g)
        BY <1>1, <1>2, <2>2, <3>3, InsertAtPuts
      <3> HIDE DEF i
      <3>5. ASSUME NEW k \in 1 .. Len(q)
            PROVE  IF k < i THEN q[k].niceness <= g.niceness ELSE q[k].niceness > g.niceness
        <4>1. CASE k < i
          <5>1. k \notin I
            BY <1>1, <3>3, <4>1
          <5> QED BY <1>3, <4>1, <5>1
        <4>2. CASE k = i
          BY <3>3, <4>2
        <4>3. CASE k > i
          <5>1. q[i].niceness <= q[k].niceness
            BY <3>3, <4>3 DEF Formed, Apart
          <5>2. q[i].niceness \in Int /\ q[k].niceness \in Int /\ g.niceness \in Int /\ q[i].niceness > g.niceness
            BY <1>3, <3>3
          <5>3. q[k].niceness > g.niceness /\ ~(k < i)
            BY <1>1, <3>3, <4>3, <5>1, <5>2
          <5> QED BY <5>3
        <4>4. k < i \/ k = i \/ k > i
          BY <1>1, <3>3
        <4> QED BY <4>1, <4>2, <4>3, <4>4
      <3>6. Place(q, i, g)
        BY <1>1, <3>3, <3>5 DEF Place
      <3> QED BY <3>4, <3>6
    <2> QED BY <2>1, <2>2
  <1>5. Formed(r) /\ Extended(q, r, g)
    BY <1>4, PutFormed, PutExtended
  <1> QED BY <1>5 DEF r

\* One request.
LEMMA EnqueueJob ==
    ASSUME NEW q, Formed(q), NEW c \in Submitter, NEW n \in Nice, NEW job \in Job, Newer(q, job)
    PROVE  LET r == enqueue_job_request(q, c, n, job) IN Formed(r) /\ Asked(q, r, <<c, n>>, {job})
  <1> DEFINE I == {i \in 1 .. Len(q) : \/ q[i].submitter = c /\ q[i].niceness = n
                                       \/ q[i].niceness > n}
             g == [submitter |-> c, niceness |-> n, l |-> <<job>>]
             r == enqueue_job_request(q, c, n, job)
             i == IF I # {} THEN Min(I) ELSE 0
  <1>1. q \in Seq(Group) /\ Len(q) \in Nat /\ n \in Int
    BY NumberAssumption DEF Formed
  <1>2. g \in Group /\ KeyOf(g) = <<c, n>> /\ g.niceness = n /\ Proper(g) /\ JobsOf(g) = {job}
    <2>1. <<job>> \in Seq(Job) /\ Len(<<job>>) = 1 /\ <<job>>[1] = job /\ DOMAIN <<job>> = {1}
      OBVIOUS
    <2>2. Ascending(<<job>>) /\ ToSet(<<job>>) = {job}
      BY <2>1 DEF Ascending, ToSet
    <2> QED BY <2>1, <2>2 DEF Group, KeyOf, Proper, JobsOf
  <1>3. r = IF i = 0 THEN Append(q, g)
            ELSE IF q[i].submitter = c /\ q[i].niceness = n THEN [q EXCEPT ![i].l = Append(@, job)]
            ELSE InsertAt(q, i, g)
    BY DEF enqueue_job_request, SelectInSeq
  <1>4. \A k \in 1 .. Len(q) : q[k] \in Group /\ q[k].niceness \in Int
    BY <1>1, GroupType
  <1>5. I = {} => i = 0
    OBVIOUS
  <1>6. I # {} => i \in I /\ i \in 1 .. Len(q) /\ i # 0 /\ \A y \in I : i <= y
    <2> SUFFICES ASSUME I # {} PROVE i \in I /\ i \in 1 .. Len(q) /\ i # 0 /\ \A y \in I : i <= y
      OBVIOUS
    <2>1. I \subseteq Nat /\ I \subseteq 1 .. Len(q) /\ 0 \notin 1 .. Len(q)
      OBVIOUS
    <2> HIDE DEF I
    <2>2. i = Min(I)
      OBVIOUS
    <2> QED BY <2>1, <2>2, MinIn
  <1>7. \A k \in 1 .. Len(q) : job \notin JobsOf(q[k])
    <2>1. job \in Int /\ ~(job < job)
      BY NumberAssumption DEF Job
    <2> QED BY <2>1 DEF Newer
  <1> HIDE DEF r, g, i
  <1>8. CASE i # 0 /\ q[i].submitter = c /\ q[i].niceness = n
    <2>1. i \in 1 .. Len(q) /\ KeyOf(q[i]) = <<c, n>> /\ r = [q EXCEPT ![i].l = Append(@, job)]
      BY <1>3, <1>5, <1>6, <1>8 DEF KeyOf
    <2>2. PICK h : Larger(q[i], h, job) /\ GrownAt(q, r, i, h)
      BY <2>1, Grows
    <2>3. Formed(r) /\ Asked(q, r, KeyOf(q[i]), {job})
      BY <2>1, <2>2, GrownFormed, GrownAsked
    <2> QED BY <2>1, <2>3 DEF r
  <1>9. CASE ~(i # 0 /\ q[i].submitter = c /\ q[i].niceness = n)
    <2>1. \E a : /\ Place(q, a, g) /\ PutAt(q, r, a, g)
                 /\ \A k \in 1 .. Len(q) : k < a => k \notin I
      <3>1. CASE I = {}
        <4>1. \A k \in 1 .. Len(q) : q[k].niceness <= g.niceness /\ k < Len(q) + 1 /\ k \notin I
          BY <1>1, <1>2, <1>4, <3>1
        <4>2. Place(q, Len(q) + 1, g)
          BY <1>1, <4>1 DEF Place
        <4>3. PutAt(q, r, Len(q) + 1, g)
          BY <1>1, <1>2, <1>3, <1>5, <3>1, AppendPuts
        <4> HIDE DEF I
        <4> QED BY <4>1, <4>2, <4>3
      <3>2. CASE I # {}
        <4>1. i \in I /\ i \in 1 .. Len(q) /\ i # 0 /\ \A y \in I : i <= y
          BY <1>6, <3>2
        <4>2. q[i].niceness > n
          BY <1>9, <4>1
        <4>3. PutAt(q, r, i, g)
          BY <1>1, <1>2, <1>3, <1>9, <4>1, InsertAtPuts
        <4>4. \A k \in 1 .. Len(q) : k < i => k \notin I
          <5> HIDE DEF I
          <5> QED BY <1>1, <4>1
        <4>5. ASSUME NEW k \in 1 .. Len(q)
              PROVE  IF k < i THEN q[k].niceness <= g.niceness ELSE q[k].niceness > g.niceness
          <5>1. CASE k < i
            BY <1>1, <1>2, <1>4, <4>4, <5>1
          <5>2. CASE k = i
            BY <1>2, <4>1, <4>2, <5>2
          <5>3. CASE k > i
            <6>1. q[i].niceness <= q[k].niceness
              BY <4>1, <5>3 DEF Formed, Apart
            <6>2. q[k].niceness > n /\ ~(k < i)
              BY <1>1, <1>4, <4>1, <4>2, <5>3, <6>1
            <6> QED BY <1>2, <6>2
          <5>4. k < i \/ k = i \/ k > i
            BY <1>1, <4>1
          <5> QED BY <5>1, <5>2, <5>3, <5>4
        <4>6. Place(q, i, g)
          BY <1>1, <4>1, <4>5 DEF Place
        <4> HIDE DEF I
        <4> QED BY <4>3, <4>4, <4>6
      <3> QED BY <3>1, <3>2
    <2>2. PICK a : /\ Place(q, a, g) /\ PutAt(q, r, a, g)
                   /\ \A k \in 1 .. Len(q) : k < a => k \notin I
      BY <2>1
    <2>3. Foreign(q, g)
      <3> SUFFICES ASSUME NEW k \in 1 .. Len(q)
                   PROVE  KeyOf(q[k]) # KeyOf(g) /\ JobsOf(q[k]) \cap JobsOf(g) = {}
        BY DEF Foreign
      <3>1. JobsOf(q[k]) \cap JobsOf(g) = {}
        BY <1>2, <1>7
      <3>2. KeyOf(q[k]) = <<q[k].submitter, q[k].niceness>>
        BY DEF KeyOf
      <3>3. CASE k < a
        BY <1>2, <2>2, <3>1, <3>2, <3>3
      <3>4. CASE ~(k < a)
        <4>1. q[k].niceness > n
          BY <1>2, <2>2, <3>4 DEF Place
        <4>2. q[k].niceness # n
          BY <1>1, <1>4, <4>1
        <4> QED BY <1>2, <3>1, <3>2, <4>2
      <3> QED BY <3>3, <3>4
    <2>4. Formed(r) /\ Extended(q, r, g)
      BY <1>2, <2>2, <2>3, PutFormed, PutExtended
    <2>5. <<c, n>> \notin Keys(q)
      BY <1>2, <2>3 DEF Foreign, Keys
    <2>6. Asked(q, r, <<c, n>>, {job})
      BY <1>2, <2>4, <2>5 DEF Extended, Asked
    <2> QED BY <2>4, <2>6 DEF r
  <1> QED BY <1>8, <1>9

\* Whatever the list, a request makes a list of it.
LEMMA EnqueueType ==
    ASSUME NEW q \in Seq(Group), NEW c \in Submitter, NEW n \in Nice, NEW job \in Job
    PROVE  enqueue_job_request(q, c, n, job) \in Seq(Group)
  <1> DEFINE I == {i \in 1 .. Len(q) : \/ q[i].submitter = c /\ q[i].niceness = n
                                       \/ q[i].niceness > n}
             g == [submitter |-> c, niceness |-> n, l |-> <<job>>]
             i == IF I # {} THEN Min(I) ELSE 0
             h == [q[i] EXCEPT !.l = Append(q[i].l, job)]
  <1>1. g \in Group
    BY DEF Group
  <1>2. i = 0 \/ i \in 1 .. Len(q)
    <2>1. I \subseteq Nat /\ I \subseteq 1 .. Len(q)
      OBVIOUS
    <2> HIDE DEF I
    <2> QED BY <2>1, MinIn
  <1>3. enqueue_job_request(q, c, n, job) =
            IF i = 0 THEN Append(q, g)
            ELSE IF q[i].submitter = c /\ q[i].niceness = n THEN [q EXCEPT ![i] = h]
            ELSE InsertAt(q, i, g)
    BY DEF enqueue_job_request, SelectInSeq
  <1>4. i # 0 => h \in Group
    <2> SUFFICES ASSUME i # 0 PROVE h \in Group
      OBVIOUS
    <2>1. q[i] \in Group /\ q[i].l \in Seq(Job)
      BY <1>2, ListType, GroupType
    <2> HIDE DEF i
    <2>2. Append(q[i].l, job) \in Seq(Job)
      BY <2>1
    <2> QED BY <2>1, <2>2 DEF Group
  <1> HIDE DEF i, g, h
  <1>5. i # 0 => InsertAt(q, i, g) \in Seq(Group) /\ [q EXCEPT ![i] = h] \in Seq(Group)
    BY <1>1, <1>2, <1>4, InsertAtPuts DEF PutAt
  <1>6. Append(q, g) \in Seq(Group)
    BY <1>1
  <1> QED BY <1>3, <1>5, <1>6

\* The loop of handle_cs_request.
EnqueueJobs(q, c, n, ids) ==
    FoldLeft(LAMBDA r, job : enqueue_job_request(r, c, n, job), q, ids)

\* It goes from list to list: f[i] is the list after i jobs.
EnqueuePath(f, q, c, n, N, ids) ==
    /\ f \in [0 .. N -> Seq(Group)]
    /\ f[0] = q
    /\ \A i \in 1 .. N : f[i] = enqueue_job_request(f[i - 1], c, n, ids[i])
    /\ f[N] = EnqueueJobs(q, c, n, ids)

LEMMA EnqueueLoop ==
    ASSUME NEW q \in Seq(Group), NEW c \in Submitter, NEW n \in Nice, NEW N \in Nat,
           NEW ids \in [1 .. N -> Job]
    PROVE  \E f : EnqueuePath(f, q, c, n, N, ids)
  <1> DEFINE step(r, i) == enqueue_job_request(r, c, n, ids[i])
             F == [x \in Seq(Group) \X (1 .. N) |-> step(x[1], x[2])]
             Is(g) == g = [s \in SUBSET (1 .. N) |->
                              IF s = {} THEN q ELSE step(g[s \ {Max(s)}], Max(s))]
             h == CHOOSE g : Is(g)
  <1>1. EnqueueJobs(q, c, n, ids) = h[1 .. N]
    <2>1. DOMAIN ids = 1 .. N
      OBVIOUS
    <2> QED BY <2>1 DEF EnqueueJobs, FoldLeft, MapThenFoldSet
  <1>2. \A r \in Seq(Group), i \in 1 .. N : step(r, i) \in Seq(Group)
    BY EnqueueType
  <1> HIDE DEF step
  <1>3. F \in [Seq(Group) \X (1 .. N) -> Seq(Group)]
    BY <1>2
  <1>4. PICK g : IsTable(g, Seq(Group), N, q, F)
    <2> HIDE DEF F
    <2> QED BY <1>3, FoldTable
  <1>5. Is(g)
    <2>1. ASSUME NEW s \in SUBSET (1 .. N), s # {}
          PROVE  g[s] = step(g[s \ {Max(s)}], Max(s))
      <3>1. Max(s) \in 1 .. N
        BY <2>1, MaxIn
      <3>2. g[s \ {Max(s)}] \in Seq(Group)
        BY <1>4 DEF IsTable
      <3>3. g[s] = F[<<g[s \ {Max(s)}], Max(s)>>]
        BY <1>4, <2>1 DEF IsTable
      <3> QED BY <3>1, <3>2, <3>3
    <2>2. g \in [SUBSET (1 .. N) -> Seq(Group)] /\ g[{}] = q
      BY <1>4 DEF IsTable
    <2> QED BY <2>1, <2>2
  <1>6. Is(h)
    BY <1>5
  <1> HIDE DEF h
  <1> DEFINE f == [i \in 0 .. N |-> h[1 .. i]]
  <1>7. f[0] = q
    <2>1. 1 .. 0 = {} /\ 1 .. 0 \in SUBSET (1 .. N)
      OBVIOUS
    <2> QED BY <1>6, <2>1
  <1>8. \A i \in 1 .. N : f[i] = step(f[i - 1], i)
    <2> SUFFICES ASSUME NEW i \in 1 .. N PROVE f[i] = step(f[i - 1], i)
      OBVIOUS
    <2>1. f[i] = h[1 .. i] /\ f[i - 1] = h[1 .. i - 1]
      OBVIOUS
    <2>2. h[1 .. i] = step(h[(1 .. i) \ {Max(1 .. i)}], Max(1 .. i))
      <3>1. 1 .. i \in SUBSET (1 .. N) /\ 1 .. i # {}
        BY Positions
      <3> QED BY <1>6, <3>1
    <2> QED BY <2>1, <2>2, Positions
  <1>9. f[N] = h[1 .. N]
    OBVIOUS
  <1>10. \A i \in 0 .. N : f[i] \in Seq(Group)
    <2> DEFINE S == {i \in 0 .. N : f[i] \in Seq(Group)}
    <2>1. 0 \in S
      BY <1>7
    <2>2. ASSUME NEW i \in 1 .. N, i - 1 \in S PROVE i \in S
      <3>1. f[i - 1] \in Seq(Group)
        BY <2>2
      <3> HIDE DEF f
      <3>2. f[i] \in Seq(Group)
        BY <1>2, <1>8, <3>1
      <3> QED BY <3>2
    <2> HIDE DEF S
    <2>3. \A i \in 0 .. N : i \in S
      BY <2>1, <2>2, InductTo
    <2> QED BY <2>3 DEF S
  <1>11. f \in [0 .. N -> Seq(Group)]
    BY <1>10
  <1> HIDE DEF f
  <1>12. EnqueuePath(f, q, c, n, N, ids)
    BY <1>1, <1>7, <1>8, <1>9, <1>11 DEF step, EnqueuePath
  <1> QED BY <1>12

\* Two requests of one group.
LEMMA AskedTwice ==
    ASSUME NEW q, NEW r, NEW s, NEW key, NEW ids, NEW more, Asked(q, r, key, ids), Asked(r, s, key, more)
    PROVE  Asked(q, s, key, ids \cup more)
  <1>1. /\ InQueue(r) = InQueue(q) \cup ids /\ Keys(r) = Keys(q) \cup {key}
        /\ \A j \in InQueue(r) : GroupIn(r)[j] = IF j \in ids THEN key ELSE GroupIn(q)[j]
        /\ AheadIn(r) = IF key \in Keys(q) THEN AheadIn(q) ELSE Fair!Behind(AheadIn(q), key, Keys(q))
    BY DEF Asked
  <1>2. /\ InQueue(s) = InQueue(r) \cup more /\ Keys(s) = Keys(r) \cup {key}
        /\ \A j \in InQueue(s) : GroupIn(s)[j] = IF j \in more THEN key ELSE GroupIn(r)[j]
        /\ key \in Keys(r) => AheadIn(s) = AheadIn(r)
    BY DEF Asked
  <1>3. AheadIn(s) = IF key \in Keys(q) THEN AheadIn(q) ELSE Fair!Behind(AheadIn(q), key, Keys(q))
    BY <1>1, <1>2
  <1>4. \A j \in InQueue(s) : GroupIn(s)[j] = IF j \in ids \cup more THEN key ELSE GroupIn(q)[j]
    BY <1>1, <1>2
  <1>5. InQueue(s) = InQueue(q) \cup (ids \cup more) /\ Keys(s) = Keys(q) \cup {key}
    BY <1>1, <1>2
  <1> QED BY <1>3, <1>4, <1>5 DEF Asked

\* All requests of a GetCSMsg, when b ids were given out before.
LEMMA EnqueueAll ==
    ASSUME NEW q, Formed(q), NEW c \in Submitter, NEW n \in Nice, NEW N \in Nat, NEW b \in Nat,
           b + N <= MaxJobs, \A j \in InQueue(q) : j <= b,
           NEW ids \in [1 .. N -> Job], \A i \in 1 .. N : ids[i] = b + i,
           NEW r, r = EnqueueJobs(q, c, n, ids)
    PROVE  /\ Formed(r)
           /\ IF N = 0 THEN r = q ELSE Asked(q, r, <<c, n>>, b + 1 .. b + N)
  <1>1. q \in Seq(Group)
    BY DEF Formed
  <1>2. PICK f : EnqueuePath(f, q, c, n, N, ids)
    BY <1>1, EnqueueLoop
  <1>3. f[N] = r
    BY <1>2 DEF EnqueuePath
  <1> DEFINE key == <<c, n>>
             Good(i) == /\ Formed(f[i])
                        /\ IF i = 0 THEN f[i] = q ELSE Asked(q, f[i], key, b + 1 .. b + i)
             S == {i \in 0 .. N : Good(i)}
  <1>4. 0 \in S
    BY <1>2 DEF EnqueuePath
  <1>5. ASSUME NEW i \in 1 .. N, i - 1 \in S PROVE i \in S
    <2> DEFINE p == f[i - 1]
               job == b + i
    <2>1. Formed(p) /\ IF i = 1 THEN p = q ELSE Asked(q, p, key, b + 1 .. b + (i - 1))
      BY <1>5
    <2>2. f[i] = enqueue_job_request(p, c, n, job)
      <3>1. ids[i] = job
        OBVIOUS
      <3> QED BY <1>2, <3>1 DEF EnqueuePath
    <2>3. job \in Job /\ job \in Int /\ p \in Seq(Group)
      BY <2>1, NumberAssumption DEF Job, Formed
    <2> HIDE DEF p
    <2>4. \A j \in InQueue(p) : j < job
      <3>1. \A j \in InQueue(q) : j \in Int
        <4>1. q \in Seq(Group)
          BY DEF Formed
        <4>2. \A j \in InQueue(q) : j \in Job
          BY <4>1, InQueueIs, GroupType, ListType
        <4> QED BY <4>2, NumberAssumption DEF Job
      <3>2. CASE i = 1
        BY <2>1, <3>1, <3>2
      <3>3. CASE i # 1
        <4>1. InQueue(p) = InQueue(q) \cup b + 1 .. b + (i - 1)
          BY <2>1, <3>3 DEF Asked
        <4>2. \A j \in InQueue(q) : j < job
          BY <3>1
        <4>3. \A j \in b + 1 .. b + (i - 1) : j < job
          OBVIOUS
        <4> HIDE DEF job
        <4> QED BY <4>1, <4>2, <4>3
      <3> QED BY <3>2, <3>3
    <2>5. Newer(p, job)
      BY <2>3, <2>4, InQueueIs DEF Newer
    <2> HIDE DEF job
    <2>6. Formed(f[i]) /\ Asked(p, f[i], key, {job})
      <3>1. Formed(p) /\ job \in Job /\ Newer(p, job)
        BY <2>1, <2>3, <2>5
      <3>2. LET s == enqueue_job_request(p, c, n, job) IN Formed(s) /\ Asked(p, s, <<c, n>>, {job})
        BY <3>1, EnqueueJob
      <3> QED BY <2>2, <3>2
    <2>7. Asked(q, f[i], key, b + 1 .. b + i)
      <3>1. CASE i = 1
        <4>1. b + 1 .. b + i = {job}
          BY <3>1 DEF job
        <4> QED BY <2>1, <2>6, <3>1, <4>1
      <3>2. CASE i # 1
        <4>1. b + 1 .. b + i = (b + 1 .. b + (i - 1)) \cup {job}
          <5>1. ASSUME NEW k PROVE k \in b + 1 .. b + i <=> k \in (b + 1 .. b + (i - 1)) \cup {b + i}
            OBVIOUS
          <5> QED BY <5>1 DEF job
        <4>2. Asked(q, p, key, b + 1 .. b + (i - 1))
          BY <2>1, <3>2
        <4> HIDE DEF key
        <4>3. Asked(q, f[i], key, (b + 1 .. b + (i - 1)) \cup {job})
          BY <2>6, <4>2, AskedTwice
        <4> QED BY <4>1, <4>3
      <3> QED BY <3>1, <3>2
    <2>8. i \in 0 .. N /\ i # 0
      OBVIOUS
    <2>9. Good(i)
      BY <2>6, <2>7, <2>8
    <2> HIDE DEF Good
    <2> QED BY <2>8, <2>9
  <1> HIDE DEF S
  <1>6. \A i \in 0 .. N : i \in S
    BY <1>4, <1>5, InductTo
  <1>7. Good(N)
    <2>1. N \in 0 .. N
      OBVIOUS
    <2> HIDE DEF Good
    <2> QED BY <1>6, <2>1 DEF S
  <1> QED BY <1>3, <1>7

\* What a list shows when its first job, j of the group with that key, was taken.
Served(q, r, j, key) ==
    LET rest == Fair!Without(AheadIn(q), {key})
    IN  /\ InQueue(r) = InQueue(q) \ {j}
        /\ \A k \in InQueue(r) : GroupIn(r)[k] = GroupIn(q)[k]
        /\ AheadIn(r) = IF key \in Keys(r) THEN Fair!Behind(rest, key, Keys(r) \ {key}) ELSE rest

\* The first request is taken.
LEMMA RemoveFirstJob ==
    ASSUME NEW q, Formed(q), q # <<>>
    PROVE  LET r == remove_job_request(q)
           IN  Formed(r) /\ Served(q, r, Head(q[1].l), KeyOf(q[1]))
  <1> DEFINE o == q[1]
             j == Head(o.l)
             g == [o EXCEPT !.l = Tail(o.l)]
             t == Tail(q)
             r == remove_job_request(q)
             key == KeyOf(o)
  <1>0. q \in Seq(Group) /\ Len(q) \in Nat /\ 1 \in 1 .. Len(q) /\ o \in Group /\ Proper(o)
    BY DEF Formed
  <1>1. /\ o.l \in Seq(Job) /\ Len(o.l) \in Nat /\ Len(o.l) > 0 /\ Ascending(o.l)
        /\ j = o.l[1] /\ j \in JobsOf(o)
    <2>1. o.l \in Seq(Job) /\ Len(o.l) \in Nat /\ Len(o.l) > 0 /\ Ascending(o.l)
      BY <1>0, GroupType DEF Proper
    <2>2. 1 \in 1 .. Len(o.l) /\ j = o.l[1]
      BY <2>1
    <2>3. o.l[1] \in JobsOf(o)
      BY <1>0, <2>2, GroupType
    <2> QED BY <2>1, <2>2, <2>3
  <1>2. Dropped(q, t, 1) /\ Thinned(q, t) /\ Formed(t) /\ Reduced(q, t) /\ t \in Seq(Group)
        /\ Len(t) = Len(q) - 1
    <2>1. Dropped(q, t, 1)
      BY <1>0, TailDrops
    <2>2. Thinned(q, t)
      BY <1>0, <2>1, DroppedThinned
    <2> QED BY <2>1, <2>2, ThinnedFormed, ThinnedReduced DEF Dropped
  <1>3. \A k \in 1 .. Len(t) : k + 1 \in 1 .. Len(q) /\ t[k] = q[k + 1] /\ 1 < k + 1
    BY <1>0, <1>2 DEF Dropped
  <1>4. \A k \in 1 .. Len(t) : KeyOf(t[k]) # key /\ JobsOf(t[k]) \cap JobsOf(o) = {}
    BY <1>0, <1>3 DEF Formed, Apart
  <1>5. \A k \in 1 .. Len(q) : k = 1 \/ (k - 1 \in 1 .. Len(t) /\ t[k - 1] = q[k])
    <2> SUFFICES ASSUME NEW k \in 1 .. Len(q), k # 1 PROVE k - 1 \in 1 .. Len(t) /\ t[k - 1] = q[k]
      OBVIOUS
    <2>1. k - 1 \in 1 .. Len(t) /\ (k - 1) + 1 = k
      BY <1>0, <1>2
    <2> QED BY <1>3, <2>1
  <1>6. Keys(t) = Keys(q) \ {key} /\ key \in Keys(q)
    BY <1>0, <1>3, <1>4, <1>5 DEF Keys
  <1> HIDE DEF t
  <1>7. ASSUME NEW k PROVE k \in InQueue(t) <=> k \in InQueue(q) \ JobsOf(o)
    <2>1. k \in InQueue(t) <=> \E a \in 1 .. Len(t) : k \in JobsOf(t[a])
      BY <1>2, InQueueIs
    <2>2. k \in InQueue(q) <=> \E a \in 1 .. Len(q) : k \in JobsOf(q[a])
      BY <1>0, InQueueIs
    <2> QED BY <1>3, <1>4, <1>5, <2>1, <2>2
  <1>8. JobsOf(o) \subseteq InQueue(q)
    BY <1>0, GroupIs
  <1>9. AheadIn(t) = Fair!Without(AheadIn(q), {key})
    <2>1. Keys(q) \ Keys(t) = {key}
      BY <1>6
    <2> QED BY <1>2, <2>1 DEF Reduced
  <1>10. \A k \in InQueue(t) : GroupIn(t)[k] = GroupIn(q)[k]
    BY <1>2 DEF Reduced
  <1>11. /\ Tail(o.l) \in Seq(Job) /\ Len(Tail(o.l)) = Len(o.l) - 1
         /\ \A k \in 1 .. Len(o.l) - 1 : Tail(o.l)[k] = o.l[k + 1]
    <2> DEFINE x == o.l
    <2>1. x \in Seq(Job) /\ Len(x) > 0
      BY <1>1
    <2> HIDE DEF x
    <2>2. Tail(x) \in Seq(Job) /\ Len(Tail(x)) = Len(x) - 1 /\ \A k \in 1 .. Len(x) - 1 : Tail(x)[k] = x[k + 1]
      BY <2>1
    <2> QED BY <2>2 DEF x
  <1>12. r = IF g.l = <<>> THEN t ELSE enqueue_job_requests_group(t, g)
    BY DEF remove_job_request, t
  <1>13. g \in Group /\ KeyOf(g) = key /\ g.l = Tail(o.l)
    BY <1>0, <1>11 DEF Group, KeyOf
  <1>14. ASSUME NEW k PROVE k \in JobsOf(g) <=> k \in JobsOf(o) /\ k # j
    <2>1. k \in JobsOf(g) <=> \E a \in 1 .. Len(g.l) : g.l[a] = k
      BY <1>13, GroupType
    <2>2. k \in JobsOf(o) <=> \E a \in 1 .. Len(o.l) : o.l[a] = k
      BY <1>0, GroupType
    <2>3. ASSUME NEW a \in 1 .. Len(g.l), g.l[a] = k PROVE k \in JobsOf(o) /\ k # j
      <3>1. a + 1 \in 1 .. Len(o.l) /\ o.l[a + 1] = k /\ 1 < a + 1 /\ 1 \in 1 .. Len(o.l)
        BY <1>1, <1>11, <1>13, <2>3
      <3>2. o.l[1] < o.l[a + 1] /\ o.l[1] \in Int
        BY <1>0, <1>1, <3>1, GroupType, NumberAssumption DEF Ascending, Job
      <3> QED BY <1>1, <2>2, <3>1, <3>2
    <2>4. ASSUME NEW a \in 1 .. Len(o.l), o.l[a] = k, k # j PROVE k \in JobsOf(g)
      <3>1. a # 1
        BY <1>1, <2>4
      <3>2. a - 1 \in 1 .. Len(o.l) - 1 /\ (a - 1) + 1 = a
        BY <1>1, <3>1
      <3>3. a - 1 \in 1 .. Len(g.l) /\ g.l[a - 1] = k
        BY <1>11, <1>13, <2>4, <3>2
      <3> QED BY <2>1, <3>3
    <2> QED BY <2>1, <2>2, <2>3, <2>4
  <1> HIDE DEF g, r
  <1>15. CASE g.l = <<>>
    <2>1. r = t /\ JobsOf(g) = {}
      <3>1. Len(g.l) = 0
        BY <1>15
      <3>2. ASSUME NEW k PROVE k \notin JobsOf(g)
        <4>1. k \in JobsOf(g) <=> \E i \in 1 .. Len(g.l) : g.l[i] = k
          BY <1>13, GroupType
        <4>2. 1 .. Len(g.l) = {}
          BY <3>1
        <4> QED BY <4>1, <4>2
      <3> QED BY <1>12, <1>15, <3>2
    <2>2. InQueue(r) = InQueue(q) \ {j}
      BY <1>1, <1>7, <1>14, <2>1
    <2>3. key \notin Keys(r)
      BY <1>6, <2>1
    <2>4. Served(q, r, j, key)
      BY <1>9, <1>10, <2>1, <2>2, <2>3 DEF Served
    <2> QED BY <1>2, <2>1, <2>4 DEF r
  <1>16. CASE g.l # <<>>
    <2>1. Proper(g)
      <3>1. Len(g.l) > 0
        BY <1>11, <1>13, <1>16
      <3>2. ASSUME NEW a \in 1 .. Len(g.l), NEW k \in 1 .. Len(g.l), a < k PROVE g.l[a] < g.l[k]
        <4>1. /\ a + 1 \in 1 .. Len(o.l) /\ k + 1 \in 1 .. Len(o.l) /\ a + 1 < k + 1
              /\ g.l[a] = o.l[a + 1] /\ g.l[k] = o.l[k + 1]
          BY <1>1, <1>11, <1>13, <3>2
        <4> QED BY <1>1, <4>1 DEF Ascending
      <3> QED BY <1>13, <3>1, <3>2 DEF Proper, Ascending
    <2>2. Foreign(t, g)
      BY <1>4, <1>13, <1>14 DEF Foreign
    <2>3. Formed(r) /\ Extended(t, r, g)
      BY <1>2, <1>12, <1>16, <2>1, <2>2, EnqueueGroup
    <2>4. /\ InQueue(r) = InQueue(t) \cup JobsOf(g) /\ Keys(r) = Keys(t) \cup {key}
          /\ \A k \in InQueue(r) : GroupIn(r)[k] = IF k \in JobsOf(g) THEN key ELSE GroupIn(t)[k]
          /\ AheadIn(r) = Fair!Behind(AheadIn(t), key, Keys(t))
      BY <1>13, <2>3 DEF Extended
    <2>5. InQueue(r) = InQueue(q) \ {j}
      BY <1>1, <1>7, <1>8, <1>14, <2>4
    <2>6. key \in Keys(r) /\ Keys(r) \ {key} = Keys(t)
      BY <1>6, <2>4
    <2>7. \A k \in InQueue(r) : GroupIn(r)[k] = GroupIn(q)[k]
      <3>1. \A k \in JobsOf(o) : GroupIn(q)[k] = key
        BY <1>0, GroupIs
      <3> QED BY <1>10, <1>14, <2>4, <3>1
    <2>8. Served(q, r, j, key)
      BY <1>9, <2>4, <2>5, <2>6, <2>7 DEF Served
    <2> QED BY <2>3, <2>8 DEF r
  <1> QED BY <1>15, <1>16

-----------------------------------------------------------------------------
(* Requests are withdrawn *)

\* A sequence of jobs without one of them.
LEMMA FewerJobs ==
    ASSUME NEW x \in Seq(Job), Ascending(x), NEW job, Contains(x, job), x # <<job>>
    PROVE  LET y == RemoveFirst(x, job)
           IN  y \in Seq(Job) /\ Len(y) > 0 /\ Ascending(y) /\ ToSet(y) \subseteq ToSet(x)
  <1> DEFINE I == {i \in 1 .. Len(x) : x[i] = job}
             i == Min(I)
             y == RemoveAt(x, i)
  <1>1. Len(x) \in Nat /\ DOMAIN x = 1 .. Len(x) /\ I # {} /\ I \subseteq Nat
    BY DEF Contains
  <1>2. i \in I
    <2> HIDE DEF I
    <2> QED BY <1>1, MinIn
  <1>3. i \in 1 .. Len(x) /\ x[i] = job
    BY <1>2
  <1>4. RemoveFirst(x, job) = y
    BY <1>1 DEF RemoveFirst, SelectInSeq, Contains
  <1> HIDE DEF I, i
  <1>5. /\ y \in Seq(Job) /\ Len(y) = Len(x) - 1
        /\ \A k \in 1 .. Len(x) - 1 : y[k] = IF k < i THEN x[k] ELSE x[k + 1]
    BY <1>3, RemoveAtDrops
  <1> HIDE DEF y
  <1>6. Len(x) # 1
    <2> SUFFICES ASSUME Len(x) = 1 PROVE FALSE
      OBVIOUS
    <2>1. i = 1 /\ x[1] = job
      BY <1>3
    <2>2. x = <<job>>
      BY <2>1
    <2> QED BY <2>2
  <1>7. Len(y) > 0 /\ Len(y) \in Nat /\ DOMAIN y = 1 .. Len(x) - 1
    BY <1>1, <1>3, <1>5, <1>6
  <1> DEFINE at == [k \in 1 .. Len(x) - 1 |-> IF k < i THEN k ELSE k + 1]
  <1>8. \A k \in 1 .. Len(x) - 1 : at[k] \in 1 .. Len(x)
    BY <1>1, <1>3
  <1>9. \A k \in 1 .. Len(x) - 1 : y[k] = x[at[k]]
    BY <1>5
  <1>10. \A a, k \in 1 .. Len(x) - 1 : a < k => at[a] < at[k]
    BY <1>1, <1>3
  <1> HIDE DEF at
  <1>11. Ascending(y)
    <2>1. ASSUME NEW a \in 1 .. Len(x) - 1, NEW k \in 1 .. Len(x) - 1, a < k PROVE y[a] < y[k]
      <3>1. at[a] \in 1 .. Len(x) /\ at[k] \in 1 .. Len(x) /\ at[a] < at[k]
        BY <1>8, <1>10, <2>1
      <3>2. x[at[a]] < x[at[k]]
        BY <3>1 DEF Ascending
      <3> QED BY <1>9, <3>2
    <2> QED BY <1>5, <2>1 DEF Ascending
  <1>12. ToSet(y) \subseteq ToSet(x)
    BY <1>1, <1>7, <1>8, <1>9 DEF ToSet
  <1> QED BY <1>4, <1>5, <1>7, <1>11, <1>12

\* A queued job is cancelled.
LEMMA CancelThins ==
    ASSUME NEW q, Formed(q), NEW c, NEW job
    PROVE  Thinned(q, cancel_job(q, c, job))
  <1> DEFINE I == {i \in 1 .. Len(q) : q[i].submitter = c /\ Contains(q[i].l, job)}
             i == IF I # {} THEN Min(I) ELSE 0
             x == RemoveFirst(q[i].l, job)
  <1>1. q \in Seq(Group) /\ Len(q) \in Nat
    BY DEF Formed
  <1>2. cancel_job(q, c, job) =
            IF i = 0 THEN q ELSE IF q[i].l = <<job>> THEN RemoveAt(q, i) ELSE [q EXCEPT ![i].l = x]
    BY DEF cancel_job, SelectInSeq
  <1>3. i # 0 => i \in 1 .. Len(q) /\ Contains(q[i].l, job)
    <2>1. I # {} /\ I \subseteq Nat => Min(I) \in I
      <3> HIDE DEF I
      <3> QED BY MinIn
    <2> QED BY <1>1, <2>1
  <1> HIDE DEF i
  <1>4. CASE i = 0
    BY <1>2, <1>4, ThinnedSelf
  <1>5. CASE i # 0 /\ q[i].l = <<job>>
    <2>1. i \in 1 .. Len(q) /\ cancel_job(q, c, job) = RemoveAt(q, i)
      BY <1>2, <1>3, <1>5
    <2>2. Dropped(q, RemoveAt(q, i), i)
      BY <1>1, <2>1, RemoveAtDrops DEF Dropped
    <2> QED BY <2>1, <2>2, DroppedThinned
  <1>6. CASE i # 0 /\ q[i].l # <<job>>
    <2>1. i \in 1 .. Len(q) /\ Contains(q[i].l, job) /\ q[i].l # <<job>>
      BY <1>3, <1>6
    <2>2. cancel_job(q, c, job) = [q EXCEPT ![i].l = x]
      BY <1>2, <1>6
    <2>3. q[i].l \in Seq(Job) /\ Ascending(q[i].l)
      BY <1>1, <2>1, GroupType DEF Formed, Proper
    <2>4. x \in Seq(Job) /\ Len(x) > 0 /\ Ascending(x) /\ ToSet(x) \subseteq ToSet(q[i].l)
      BY <2>1, <2>3, FewerJobs
    <2> HIDE DEF x
    <2>5. ToSet(x) \subseteq JobsOf(q[i])
      BY <2>4 DEF JobsOf
    <2>6. Thinned(q, [q EXCEPT ![i].l = x])
      BY <2>1, <2>4, <2>5, LessThinned
    <2> QED BY <2>2, <2>6
  <1> QED BY <1>4, <1>5, <1>6

\* The loop of handle_job_done over the jobs of a client.
CancelJobs(q, c, b, s) ==
    FoldLeftDomain(LAMBDA r, job : IF s[job] = b THEN cancel_job(r, c, job) ELSE r, q, s)

LEMMA CancelAll ==
    ASSUME NEW q, Formed(q), NEW c, NEW b, NEW s \in Seq(Job)
    PROVE  Thinned(q, CancelJobs(q, c, b, s))
  <1> DEFINE N == Len(s)
             T == {r \in Seq(Group) : Thinned(q, r)}
             step(r, i) == IF s[i] = b THEN cancel_job(r, c, i) ELSE r
             ids == [i \in DOMAIN s |-> i]
             F == [x \in T \X (1 .. N) |-> step(x[1], x[2])]
             Is(g) == g = [S \in SUBSET (1 .. N) |->
                              IF S = {} THEN q ELSE step(g[S \ {Max(S)}], ids[Max(S)])]
             h == CHOOSE g : Is(g)
  <1>1. CancelJobs(q, c, b, s) = h[1 .. N]
    <2>1. DOMAIN s = 1 .. N /\ DOMAIN ids = 1 .. N
      OBVIOUS
    <2> QED BY <2>1 DEF CancelJobs, FoldLeftDomain, FoldLeft, MapThenFoldSet
  <1>2. \A r \in T, i \in 1 .. N : step(r, i) \in T
    <2> SUFFICES ASSUME NEW r \in T, NEW i \in 1 .. N PROVE step(r, i) \in T
      OBVIOUS
    <2>1. Thinned(q, r) /\ Formed(r)
      BY ThinnedFormed
    <2>2. Thinned(q, cancel_job(r, c, i))
      BY <2>1, CancelThins, ThinnedTwice
    <2>3. cancel_job(r, c, i) \in T
      BY <2>2 DEF Thinned
    <2> HIDE DEF T
    <2> QED BY <2>3
  <1>3. \A i \in 1 .. N : ids[i] = i
    OBVIOUS
  <1>4. q \in T /\ N \in Nat
    BY ThinnedSelf DEF Formed
  <1> HIDE DEF T, step, N, ids
  <1>5. F \in [T \X (1 .. N) -> T]
    BY <1>2
  <1>6. PICK g : IsTable(g, T, N, q, F)
    <2> HIDE DEF F
    <2> QED BY <1>4, <1>5, FoldTable
  <1>7. Is(g)
    <2>1. ASSUME NEW S \in SUBSET (1 .. N), S # {}
          PROVE  g[S] = step(g[S \ {Max(S)}], ids[Max(S)])
      <3>1. Max(S) \in 1 .. N
        BY <1>4, <2>1, MaxIn
      <3>2. g[S \ {Max(S)}] \in T
        BY <1>6 DEF IsTable
      <3>3. g[S] = F[<<g[S \ {Max(S)}], Max(S)>>]
        BY <1>6, <2>1 DEF IsTable
      <3> QED BY <1>3, <3>1, <3>2, <3>3
    <2>2. g \in [SUBSET (1 .. N) -> T] /\ g[{}] = q
      BY <1>6 DEF IsTable
    <2> QED BY <2>1, <2>2
  <1>8. Is(h)
    BY <1>7
  <1> HIDE DEF h
  <1> DEFINE f == [i \in 0 .. N |-> h[1 .. i]]
  <1>9. f[0] = q
    <2>1. 1 .. 0 = {} /\ 1 .. 0 \in SUBSET (1 .. N)
      OBVIOUS
    <2> QED BY <1>4, <1>8, <2>1
  <1>10. ASSUME NEW i \in 1 .. N PROVE f[i] = step(f[i - 1], i)
    <2>1. f[i] = h[1 .. i] /\ f[i - 1] = h[1 .. i - 1]
      BY <1>4
    <2>2. h[1 .. i] = step(h[(1 .. i) \ {Max(1 .. i)}], ids[Max(1 .. i)])
      <3>1. 1 .. i \in SUBSET (1 .. N) /\ 1 .. i # {}
        BY <1>4, Positions
      <3> QED BY <1>8, <3>1
    <2> QED BY <1>3, <1>4, <2>1, <2>2, Positions
  <1> DEFINE G == {i \in 0 .. N : f[i] \in T}
  <1>11. 0 \in G
    BY <1>4, <1>9
  <1>12. ASSUME NEW i \in 1 .. N, i - 1 \in G PROVE i \in G
    <2>1. f[i - 1] \in T
      BY <1>12
    <2>2. i \in 0 .. N
      BY <1>4
    <2> HIDE DEF f
    <2> QED BY <1>2, <1>10, <2>1, <2>2
  <1>13. N \in G
    <2> HIDE DEF G
    <2>1. \A i \in 0 .. N : i \in G
      BY <1>4, <1>11, <1>12, InductTo
    <2> QED BY <1>4, <2>1
  <1>14. h[1 .. N] \in T
    BY <1>13
  <1> QED BY <1>1, <1>14 DEF T

\* r has groups of the first i positions of q, in the order of q.
Keeps(q, r, i, m) ==
    /\ m \in [1 .. Len(r) -> 1 .. i]
    /\ \A a, k \in 1 .. Len(r) : a < k => m[a] < m[k]
    /\ \A k \in 1 .. Len(r) : r[k] = q[m[k]]

\* One more position is kept.
LEMMA KeepsMore ==
    ASSUME NEW q \in Seq(Group), NEW r \in Seq(Group), NEW i \in 1 .. Len(q), NEW m, Keeps(q, r, i - 1, m)
    PROVE  \E n : Keeps(q, Append(r, q[i]), i, n)
  <1> DEFINE s == Append(r, q[i])
             L == Len(r)
             n == [k \in 1 .. L + 1 |-> IF k = L + 1 THEN i ELSE m[k]]
  <1>1. L \in Nat /\ i \in Nat /\ q[i] \in Group
    OBVIOUS
  <1>2. Len(s) = L + 1 /\ s[L + 1] = q[i] /\ \A k \in 1 .. L : s[k] = r[k]
    BY <1>1
  <1>3. \A k \in 1 .. L : m[k] \in 1 .. i - 1 /\ r[k] = q[m[k]]
    BY DEF Keeps
  <1>4. \A a, k \in 1 .. L : a < k => m[a] < m[k]
    BY DEF Keeps
  <1> HIDE DEF s, L
  <1>5. \A k \in 1 .. L + 1 : k \in 1 .. L \/ k = L + 1
    BY <1>1
  <1>6. n[L + 1] = i /\ \A k \in 1 .. L : n[k] = m[k]
    BY <1>1
  <1>7. n \in [1 .. L + 1 -> 1 .. i]
    <2>1. ASSUME NEW k \in 1 .. L + 1 PROVE n[k] \in 1 .. i
      BY <1>1, <1>3, <1>5, <1>6
    <2> QED BY <2>1
  <1> HIDE DEF n
  <1>8. ASSUME NEW a \in 1 .. L + 1, NEW k \in 1 .. L + 1, a < k PROVE n[a] < n[k]
    <2>1. a \in 1 .. L
      BY <1>1, <1>8
    <2>2. m[a] \in 1 .. i - 1 /\ n[a] = m[a]
      BY <1>3, <1>6, <2>1
    <2>3. CASE k = L + 1
      BY <1>1, <1>6, <2>2, <2>3
    <2>4. CASE k \in 1 .. L
      BY <1>4, <1>6, <1>8, <2>1, <2>4
    <2> QED BY <1>5, <2>3, <2>4
  <1>9. \A k \in 1 .. L + 1 : s[k] = q[n[k]]
    BY <1>2, <1>3, <1>5, <1>6
  <1>10. Keeps(q, s, i, n)
    BY <1>2, <1>7, <1>8, <1>9 DEF Keeps
  <1> QED BY <1>10 DEF s

\* A position is left out.
LEMMA KeepsSame ==
    ASSUME NEW q, NEW r, NEW i \in Nat \ {0}, NEW m, Keeps(q, r, i - 1, m)
    PROVE  Keeps(q, r, i, m)
  <1>1. m \in [1 .. Len(r) -> 1 .. i - 1] /\ 1 .. i - 1 \subseteq 1 .. i
    BY DEF Keeps
  <1>2. m \in [1 .. Len(r) -> 1 .. i]
    BY <1>1
  <1> QED BY <1>2 DEF Keeps

\* The groups of a submitter leave.
LEMMA EraseThins ==
    ASSUME NEW q, Formed(q), NEW c
    PROVE  Thinned(q, erase_groups(q, c))
  <1> DEFINE N == Len(q)
             T == Seq(Group)
             step(r, o) == IF o.submitter = c THEN r ELSE Append(r, o)
             F == [x \in T \X (1 .. N) |-> step(x[1], q[x[2]])]
             Is(g) == g = [S \in SUBSET (1 .. N) |->
                              IF S = {} THEN <<>> ELSE step(g[S \ {Max(S)}], q[Max(S)])]
             h == CHOOSE g : Is(g)
  <1>1. q \in Seq(Group) /\ N \in Nat /\ DOMAIN q = 1 .. N
    BY DEF Formed
  <1>2. erase_groups(q, c) = h[1 .. N]
    BY <1>1 DEF erase_groups, FoldLeft, MapThenFoldSet
  <1>3. \A r \in T, i \in 1 .. N : step(r, q[i]) \in T
    BY <1>1
  <1>4. <<>> \in T
    OBVIOUS
  <1> HIDE DEF T, step, N
  <1>5. F \in [T \X (1 .. N) -> T]
    BY <1>3
  <1>6. PICK g : IsTable(g, T, N, <<>>, F)
    <2> HIDE DEF F
    <2> QED BY <1>1, <1>4, <1>5, FoldTable
  <1>7. Is(g)
    <2>1. ASSUME NEW S \in SUBSET (1 .. N), S # {}
          PROVE  g[S] = step(g[S \ {Max(S)}], q[Max(S)])
      <3>1. Max(S) \in 1 .. N
        BY <1>1, <2>1, MaxIn
      <3>2. g[S \ {Max(S)}] \in T
        BY <1>6 DEF IsTable
      <3>3. g[S] = F[<<g[S \ {Max(S)}], Max(S)>>]
        BY <1>6, <2>1 DEF IsTable
      <3> QED BY <3>1, <3>2, <3>3
    <2>2. g \in [SUBSET (1 .. N) -> T] /\ g[{}] = <<>>
      BY <1>6 DEF IsTable
    <2> QED BY <2>1, <2>2
  <1>8. Is(h)
    BY <1>7
  <1> HIDE DEF h
  <1> DEFINE f == [i \in 0 .. N |-> h[1 .. i]]
  <1>9. f[0] = <<>>
    <2>1. 1 .. 0 = {} /\ 1 .. 0 \in SUBSET (1 .. N)
      OBVIOUS
    <2> QED BY <1>1, <1>8, <2>1
  <1>10. ASSUME NEW i \in 1 .. N PROVE f[i] = step(f[i - 1], q[i])
    <2>1. f[i] = h[1 .. i] /\ f[i - 1] = h[1 .. i - 1]
      BY <1>1
    <2>2. h[1 .. i] = step(h[(1 .. i) \ {Max(1 .. i)}], q[Max(1 .. i)])
      <3>1. 1 .. i \in SUBSET (1 .. N) /\ 1 .. i # {}
        BY <1>1, Positions
      <3> QED BY <1>8, <3>1
    <2> QED BY <1>1, <2>1, <2>2, Positions
  <1> DEFINE Good(i) == f[i] \in Seq(Group) /\ \E m : Keeps(q, f[i], i, m)
             G == {i \in 0 .. N : Good(i)}
  <1>11. 0 \in G
    <2> DEFINE m == [k \in 1 .. 0 |-> 0]
    <2>1. 1 .. 0 = {} /\ Len(<<>>) = 0
      OBVIOUS
    <2>2. Keeps(q, <<>>, 0, m)
      BY <2>1 DEF Keeps
    <2>3. <<>> \in Seq(Group) /\ 0 \in 0 .. N
      BY <1>1
    <2> HIDE DEF m, f
    <2> QED BY <1>9, <2>2, <2>3
  <1> HIDE DEF f
  <1>12. ASSUME NEW i \in 1 .. N, i - 1 \in G PROVE i \in G
    <2> DEFINE p == f[i - 1]
    <2>1. p \in Seq(Group) /\ \E m : Keeps(q, p, i - 1, m)
      BY <1>12
    <2>2. PICK m : Keeps(q, p, i - 1, m)
      BY <2>1
    <2>3. f[i] = IF q[i].submitter = c THEN p ELSE Append(p, q[i])
      BY <1>10 DEF step
    <2> HIDE DEF p
    <2>4. i \in 0 .. N /\ i \in Nat \ {0} /\ i \in 1 .. Len(q) /\ q[i] \in Group
      BY <1>1 DEF N
    <2>5. Keeps(q, p, i, m)
      BY <2>2, <2>4, KeepsSame
    <2>6. \E n : Keeps(q, Append(p, q[i]), i, n)
      BY <1>1, <2>1, <2>2, <2>4, KeepsMore
    <2>7. Append(p, q[i]) \in Seq(Group)
      BY <2>1, <2>4
    <2>8. Good(i)
      BY <2>1, <2>3, <2>5, <2>6, <2>7
    <2> HIDE DEF Good
    <2> QED BY <2>4, <2>8
  <1>13. Good(N)
    <2> HIDE DEF Good
    <2>1. ASSUME NEW i \in 1 .. N, i - 1 \in G PROVE i \in G
      BY <1>12, <2>1
    <2> HIDE DEF G
    <2>2. \A i \in 0 .. N : i \in G
      BY <1>1, <1>11, <2>1, InductTo
    <2>3. N \in G
      BY <1>1, <2>2
    <2> QED BY <2>3 DEF G
  <1> DEFINE r == f[N]
  <1>14. r = erase_groups(q, c)
    BY <1>1, <1>2 DEF f
  <1>15. PICK m : Keeps(q, r, Len(q), m)
    BY <1>13 DEF N
  <1>16. r \in Seq(Group)
    BY <1>13
  <1> HIDE DEF r, Good
  <1>17. /\ m \in [1 .. Len(r) -> 1 .. Len(q)]
         /\ \A k \in 1 .. Len(r) : m[k] \in 1 .. Len(q) /\ r[k] = q[m[k]]
    BY <1>15 DEF Keeps
  <1>18. \A k \in 1 .. Len(r) : Proper(r[k])
    BY <1>17 DEF Formed
  <1>19. Thins(q, r, m)
    BY <1>15, <1>17 DEF Keeps, Thins
  <1>20. Thinned(q, r)
    BY <1>16, <1>18, <1>19 DEF Thinned
  <1> QED BY <1>14, <1>20

-----------------------------------------------------------------------------
(* The invariant *)

\* The list is well formed, and its jobs have ids that were given out and that
\* were not dispatched.
QueueInv ==
    /\ Formed(job_requests)
    /\ batch \in Seq(Job) /\ Len(batch) \in Nat /\ Len(batch) <= MaxJobs
    /\ InQueue(job_requests) \subseteq 1 .. Len(batch)
    /\ dispatched \subseteq 1 .. Len(batch)
    /\ InQueue(job_requests) \cap dispatched = {}

\* What handle_cs_request does.
LEMMA GetCSStep ==
    ASSUME QueueInv, NEW c \in Submitter, NEW n \in Nice, NEW count \in Counts, GetCS(c, n, count)
    PROVE  /\ Formed(job_requests')
           /\ IF count = 0 THEN job_requests' = job_requests
              ELSE Asked(job_requests, job_requests', <<c, n>>, Len(batch) + 1 .. Len(batch) + count)
           /\ batch' \in Seq(Job) /\ Len(batch') = Len(batch) + count
           /\ Len(batch) + count <= MaxJobs /\ count \in Nat /\ dispatched' = dispatched
  <1> DEFINE b == Len(batch)
             ids == [i \in 1 .. count |-> b + i]
             more == [i \in 1 .. count |-> ids[1]]
  <1>1. count \in Nat /\ b \in Nat /\ MaxJobs \in Nat
    BY NumberAssumption DEF QueueInv
  <1>2. b + count <= MaxJobs /\ dispatched' = dispatched /\ batch' = batch \o more
    BY DEF GetCS
  <1>3. job_requests' = EnqueueJobs(job_requests, c, n, ids)
    BY DEF GetCS, EnqueueJobs
  <1>4. batch \in Seq(Job) /\ Formed(job_requests) /\ \A j \in InQueue(job_requests) : j <= b
    BY <1>1 DEF QueueInv
  <1> HIDE DEF b
  <1>5. ids \in [1 .. count -> Job] /\ \A i \in 1 .. count : ids[i] = b + i
    BY <1>1, <1>2 DEF Job
  <1> HIDE DEF ids
  <1>6. more \in [1 .. count -> Job]
    BY <1>1, <1>5
  <1>7. more \in Seq(Job) /\ Len(more) = count
    <2> HIDE DEF more
    <2> QED BY <1>1, <1>6
  <1> HIDE DEF more
  <1>8. batch \o more \in Seq(Job) /\ Len(batch \o more) = b + count
    BY <1>4, <1>7, Joined DEF b
  <1> DEFINE r == EnqueueJobs(job_requests, c, n, ids)
             q == job_requests
  <1>9. Formed(r) /\ IF count = 0 THEN r = q ELSE Asked(q, r, <<c, n>>, b + 1 .. b + count)
    BY <1>1, <1>2, <1>4, <1>5, EnqueueAll
  <1> HIDE DEF r
  <1> QED BY <1>1, <1>2, <1>3, <1>8, <1>9 DEF b, r

\* What empty_queue does.
LEMMA DispatchStep ==
    ASSUME QueueInv, Dispatch
    PROVE  /\ Formed(job_requests') /\ job_requests # <<>>
           /\ Served(job_requests, job_requests', Head(job_requests[1].l), KeyOf(job_requests[1]))
           /\ dispatched' = dispatched \cup {Head(job_requests[1].l)} /\ batch' = batch
  <1>1. Formed(job_requests) /\ job_requests # <<>> /\ job_requests' = remove_job_request(job_requests)
    BY DEF QueueInv, Dispatch
  <1>2. dispatched' = dispatched \cup {Head(job_requests[1].l)} /\ batch' = batch
    BY DEF Dispatch
  <1>3. LET r == remove_job_request(job_requests)
        IN  Formed(r) /\ Served(job_requests, r, Head(job_requests[1].l), KeyOf(job_requests[1]))
    BY <1>1, RemoveFirstJob
  <1> QED BY <1>1, <1>2, <1>3

\* What handle_job_done of a client that is gone, and handle_end, do.
LEMMA WithdrawStep ==
    ASSUME QueueInv, NEW c, (\E b \in 1 .. MaxJobs : Cancel(c, b)) \/ End(c)
    PROVE  /\ Thinned(job_requests, job_requests')
           /\ dispatched' = dispatched /\ batch' = batch
  <1>1. Formed(job_requests) /\ batch \in Seq(Job)
    BY DEF QueueInv
  <1>2. ASSUME NEW b, Cancel(c, b)
        PROVE  Thinned(job_requests, job_requests') /\ dispatched' = dispatched /\ batch' = batch
    <2>1. job_requests' = CancelJobs(job_requests, c, b, batch)
      BY <1>2 DEF Cancel, CancelJobs
    <2>2. dispatched' = dispatched /\ batch' = batch
      BY <1>2 DEF Cancel
    <2> QED BY <1>1, <2>1, <2>2, CancelAll
  <1>3. CASE End(c)
    <2>1. job_requests' = erase_groups(job_requests, c) /\ dispatched' = dispatched /\ batch' = batch
      BY <1>3 DEF End
    <2> QED BY <1>1, <2>1, EraseThins
  <1> QED BY <1>2, <1>3

\* The first request of the list.
LEMMA FirstJob ==
    ASSUME NEW q, Formed(q), q # <<>>
    PROVE  /\ 1 \in 1 .. Len(q) /\ Len(q[1].l) \in Nat /\ 1 \in 1 .. Len(q[1].l)
           /\ Head(q[1].l) = q[1].l[1] /\ Head(q[1].l) \in JobsOf(q[1])
           /\ Head(q[1].l) \in InQueue(q) /\ GroupIn(q)[Head(q[1].l)] = KeyOf(q[1])
  <1>1. q \in Seq(Group) /\ 1 \in 1 .. Len(q)
    BY DEF Formed
  <1>2. q[1] \in Group /\ Len(q[1].l) > 0
    BY <1>1 DEF Formed, Proper
  <1>3. q[1].l \in Seq(Job) /\ Len(q[1].l) \in Nat
    BY <1>2, GroupType
  <1>4. 1 \in 1 .. Len(q[1].l) /\ Head(q[1].l) = q[1].l[1]
    BY <1>2, <1>3
  <1>5. q[1].l[1] \in JobsOf(q[1])
    BY <1>2, <1>4, GroupType
  <1> QED BY <1>1, <1>3, <1>4, <1>5, GroupIs

\* The invariant is inductive.
LEMMA QueueInvStep ==
    ASSUME QueueInv, [Next]_vars
    PROVE  QueueInv'
  <1>1. ASSUME NEW c \in Submitter, NEW n \in Nice, NEW count \in Counts, GetCS(c, n, count)
        PROVE  QueueInv'
    <2> DEFINE b == Len(batch)
               new == b + 1 .. b + count
    <2>1. /\ Formed(job_requests') /\ batch' \in Seq(Job) /\ Len(batch') = b + count
          /\ b + count <= MaxJobs /\ count \in Nat /\ dispatched' = dispatched
      BY <1>1, GetCSStep
    <2>2. InQueue(job_requests') \subseteq InQueue(job_requests) \cup new
      <3>1. CASE count = 0
        BY <1>1, <3>1, GetCSStep
      <3>2. CASE count # 0
        <4>1. Asked(job_requests, job_requests', <<c, n>>, new)
          BY <1>1, <3>2, GetCSStep
        <4> QED BY <4>1 DEF Asked
      <3> QED BY <3>1, <3>2
    <2>3. /\ b \in Nat /\ InQueue(job_requests) \subseteq 1 .. b /\ dispatched \subseteq 1 .. b
          /\ InQueue(job_requests) \cap dispatched = {}
      BY DEF QueueInv
    <2> HIDE DEF b
    <2>4. b + count \in Nat /\ 1 .. b \subseteq 1 .. b + count /\ new \subseteq 1 .. b + count /\ new \cap 1 .. b = {}
      BY <2>1, <2>3
    <2> HIDE DEF new
    <2>5. /\ InQueue(job_requests') \subseteq 1 .. b + count /\ dispatched \subseteq 1 .. b + count
          /\ InQueue(job_requests') \cap dispatched = {}
      BY <2>2, <2>3, <2>4
    <2> QED BY <2>1, <2>4, <2>5 DEF QueueInv
  <1>2. CASE Dispatch
    <2> DEFINE j == Head(job_requests[1].l)
    <2>1. /\ Formed(job_requests') /\ dispatched' = dispatched \cup {j} /\ batch' = batch
          /\ InQueue(job_requests') = InQueue(job_requests) \ {j}
      BY <1>2, DispatchStep DEF Served
    <2>2. j \in InQueue(job_requests)
      BY <1>2, FirstJob DEF QueueInv, Dispatch
    <2> HIDE DEF j
    <2> QED BY <2>1, <2>2 DEF QueueInv
  <1>3. ASSUME NEW c \in Submitter, (\E b \in 1 .. MaxJobs : Cancel(c, b)) \/ End(c) PROVE QueueInv'
    <2>1. Thinned(job_requests, job_requests') /\ dispatched' = dispatched /\ batch' = batch
      BY <1>3, WithdrawStep
    <2>2. Formed(job_requests') /\ InQueue(job_requests') \subseteq InQueue(job_requests)
      BY <2>1, ThinnedFormed, ThinnedReduced DEF QueueInv, Reduced
    <2> QED BY <2>1, <2>2 DEF QueueInv
  <1>4. CASE UNCHANGED vars
    BY <1>4 DEF vars, QueueInv
  <1> QED BY <1>1, <1>2, <1>3, <1>4 DEF Next

LEMMA QueueInvInit == Init => QueueInv
  <1> SUFFICES ASSUME Init PROVE QueueInv
    OBVIOUS
  <1>1. job_requests = <<>> /\ batch = <<>> /\ dispatched = {}
    BY DEF Init
  <1>2. <<>> \in Seq(Group) /\ <<>> \in Seq(Job) /\ Len(<<>>) = 0 /\ DOMAIN <<>> = {} /\ 1 .. 0 = {}
    OBVIOUS
  <1>3. Formed(<<>>) /\ InQueue(<<>>) = {}
    BY <1>2 DEF Formed, InQueue
  <1> QED BY <1>1, <1>2, <1>3, NumberAssumption DEF QueueInv

\* It is what WellFormed asks for.
LEMMA QueueInvFormed == QueueInv => WellFormed
  <1> SUFFICES ASSUME QueueInv PROVE WellFormed
    OBVIOUS
  <1> DEFINE q == job_requests
  <1>1. q \in Seq(Group) /\ batch \in Seq(Job) /\ dispatched \subseteq Job
    <2>1. q \in Seq(Group) /\ batch \in Seq(Job)
      BY DEF QueueInv, Formed
    <2>2. dispatched \subseteq Job
      BY NumberAssumption DEF QueueInv, Job
    <2> QED BY <2>1, <2>2
  <1>2. TypeOK
    BY <1>1 DEF TypeOK, Group, Job
  <1>3. DOMAIN q = 1 .. Len(q)
    BY <1>1
  <1>4. ASSUME NEW i \in DOMAIN q, NEW k \in DOMAIN q, i < k
        PROVE  q[i].niceness <= q[k].niceness /\ Key(i) # Key(k) /\ ToSet(q[i].l) \cap ToSet(q[k].l) = {}
    <2>1. Apart(q[i], q[k])
      BY <1>3, <1>4 DEF QueueInv, Formed
    <2> QED BY <2>1 DEF Apart, KeyOf, JobsOf, Key
  <1>5. ASSUME NEW i \in DOMAIN q PROVE q[i].l # <<>> /\ IsSorted(q[i].l, <)
    <2>1. q[i] \in Group /\ Len(q[i].l) > 0 /\ Ascending(q[i].l)
      BY <1>3 DEF QueueInv, Formed, Proper
    <2>2. IsSorted(q[i].l, <)
      BY <2>1 DEF IsSorted, Ascending
    <2>3. q[i].l # <<>>
      BY <2>1
    <2> QED BY <2>2, <2>3
  <1> QED BY <1>2, <1>4, <1>5 DEF WellFormed

\* The list that handle_cs_request, empty_queue, handle_job_done and handle_end
\* edit is always sorted by niceness, with one nonempty group for each submitter
\* and niceness, and no job is in it twice.
THEOREM ListWellFormed == Spec => []WellFormed
  <1>1. Init => QueueInv
    BY QueueInvInit
  <1>2. QueueInv /\ [Next]_vars => QueueInv'
    BY QueueInvStep
  <1>3. QueueInv => WellFormed
    BY QueueInvFormed
  <1> QED BY <1>1, <1>2, <1>3, PTL DEF Spec

-----------------------------------------------------------------------------
(* Turns *)

\* A group that waits before another one still does, unless it was served.
LEMMA KeepsAhead ==
    ASSUME QueueInv, [Next]_vars,
           NEW i \in 1 .. Len(job_requests), NEW k \in 1 .. Len(job_requests), i < k,
           job_requests[i].niceness = job_requests[k].niceness,
           KeyOf(job_requests[i]) \in Keys(job_requests'), KeyOf(job_requests[k]) \in Keys(job_requests')
    PROVE  \/ <<KeyOf(job_requests[i]), KeyOf(job_requests[k])>> \in AheadIn(job_requests')
           \/ JobsOf(job_requests[i]) \cap (dispatched' \ dispatched) # {}
  <1> DEFINE q == job_requests
             r == job_requests'
             e == <<KeyOf(q[i]), KeyOf(q[k])>>
  <1>1. Formed(q) /\ q \in Seq(Group) /\ i \in Int /\ k \in Int
    BY DEF QueueInv, Formed
  <1>2. e \in AheadIn(q) /\ e[1] = KeyOf(q[i]) /\ e[2] = KeyOf(q[k])
    BY <1>1, AheadIs
  <1>3. ASSUME NEW c \in Submitter, NEW n \in Nice, NEW count \in Counts, GetCS(c, n, count)
        PROVE  e \in AheadIn(r)
    <2>1. r = q \/ Asked(q, r, <<c, n>>, Len(batch) + 1 .. Len(batch) + count)
      BY <1>3, GetCSStep
    <2> HIDE DEF e
    <2> QED BY <1>2, <2>1 DEF Asked, Fair!Behind
  <1>4. CASE Dispatch
    <2> DEFINE j == Head(q[1].l)
               key == KeyOf(q[1])
               rest == Fair!Without(AheadIn(q), {key})
    <2>1. Served(q, r, j, key) /\ q # <<>> /\ dispatched' = dispatched \cup {j}
      BY <1>4, DispatchStep
    <2>2. 1 \in 1 .. Len(q) /\ j \in JobsOf(q[1]) /\ j \in InQueue(q)
      BY <1>1, <2>1, FirstJob
    <2>3. j \in dispatched' \ dispatched
      BY <2>1, <2>2 DEF QueueInv
    <2>4. CASE i = 1
      BY <2>2, <2>3, <2>4
    <2>5. CASE i # 1
      <3>1. k # 1
        BY <1>1
      <3>2. KeyOf(q[i]) # key /\ KeyOf(q[k]) # key
        BY <1>1, <2>2, <2>5, <3>1, KeysApart
      <3>3. e \in rest
        BY <1>2, <3>2 DEF Fair!Without
      <3> HIDE DEF rest, e
      <3>4. AheadIn(r) = rest \/ AheadIn(r) = Fair!Behind(rest, key, Keys(r) \ {key})
        BY <2>1 DEF Served, rest
      <3>5. rest \subseteq Fair!Behind(rest, key, Keys(r) \ {key})
        BY DEF Fair!Behind
      <3>6. e \in AheadIn(r)
        <4> HIDE DEF r, key
        <4> QED BY <3>3, <3>4, <3>5
      <3> QED BY <3>6 DEF e
    <2> QED BY <2>4, <2>5
  <1>5. ASSUME NEW c \in Submitter, (\E b \in 1 .. MaxJobs : Cancel(c, b)) \/ End(c) PROVE e \in AheadIn(r)
    <2>1. Reduced(q, r)
      BY <1>1, <1>5, WithdrawStep, ThinnedReduced
    <2>2. AheadIn(r) = Fair!Without(AheadIn(q), Keys(q) \ Keys(r))
      BY <2>1 DEF Reduced
    <2>3. e[1] \in Keys(r) /\ e[2] \in Keys(r)
      BY <1>2
    <2> HIDE DEF e
    <2> QED BY <1>2, <2>2, <2>3 DEF Fair!Without
  <1>6. CASE UNCHANGED vars
    <2>1. r = q
      BY <1>6 DEF vars
    <2> QED BY <1>2, <2>1
  <1> QED BY <1>3, <1>4, <1>5, <1>6 DEF Next

\* Within one niceness the submitters take turns: whatever is requested, served
\* or withdrawn, a group gets past another only when that one was just served.
THEOREM NobodyOvertakes == Spec => NoOvertaking
  <1> DEFINE Turn ==
          \A i, k \in DOMAIN job_requests :
             i < k /\ job_requests[i].niceness = job_requests[k].niceness =>
                \A i2, k2 \in DOMAIN job_requests' :
                    Key(i2)' = Key(i) /\ Key(k2)' = Key(k) =>
                        i2 < k2 \/ ToSet(job_requests[i].l) \cap (dispatched' \ dispatched) # {}
  <1>1. QueueInv /\ [Next]_vars => Turn
    <2> SUFFICES ASSUME QueueInv, [Next]_vars,
                        NEW i \in DOMAIN job_requests, NEW k \in DOMAIN job_requests,
                        i < k, job_requests[i].niceness = job_requests[k].niceness,
                        NEW i2 \in DOMAIN job_requests', NEW k2 \in DOMAIN job_requests',
                        Key(i2)' = Key(i), Key(k2)' = Key(k)
                 PROVE  i2 < k2 \/ ToSet(job_requests[i].l) \cap (dispatched' \ dispatched) # {}
      BY DEF Turn
    <2> DEFINE q == job_requests
               r == job_requests'
    <2>1. Formed(q) /\ Formed(r)
      BY QueueInvStep DEF QueueInv
    <2>2. q \in Seq(Group) /\ r \in Seq(Group)
      BY <2>1 DEF Formed
    <2>3. /\ i \in 1 .. Len(q) /\ k \in 1 .. Len(q) /\ i2 \in 1 .. Len(r) /\ k2 \in 1 .. Len(r)
      BY <2>2
    <2>4. KeyOf(r[i2]) = KeyOf(q[i]) /\ KeyOf(r[k2]) = KeyOf(q[k])
      BY DEF Key, KeyOf
    <2>5. KeyOf(q[i]) \in Keys(r) /\ KeyOf(q[k]) \in Keys(r)
      BY <2>3, <2>4 DEF Keys
    <2>6. \/ <<KeyOf(q[i]), KeyOf(q[k])>> \in AheadIn(r)
          \/ JobsOf(q[i]) \cap (dispatched' \ dispatched) # {}
      BY <2>3, <2>5, KeepsAhead
    <2>7. ASSUME <<KeyOf(q[i]), KeyOf(q[k])>> \in AheadIn(r) PROVE i2 < k2
      <3>1. PICK a \in 1 .. Len(r), b \in 1 .. Len(r) :
                a < b /\ <<KeyOf(q[i]), KeyOf(q[k])>> = <<KeyOf(r[a]), KeyOf(r[b])>>
        BY <2>2, <2>7, AheadIs
      <3>2. KeyOf(r[a]) = KeyOf(r[i2]) /\ KeyOf(r[b]) = KeyOf(r[k2])
        BY <2>4, <3>1
      <3>3. a = i2 /\ b = k2
        BY <2>1, <2>3, <3>2, KeysApart
      <3> QED BY <3>1, <3>3
    <2> QED BY <2>6, <2>7 DEF JobsOf
  <1> HIDE DEF Turn
  <1>2. Init => QueueInv
    BY QueueInvInit
  <1>3. QueueInv /\ [Next]_vars => QueueInv'
    BY QueueInvStep
  <1>4. Spec => [][Turn]_vars
    BY <1>1, <1>2, <1>3, PTL DEF Spec
  <1> QED BY <1>4 DEF NoOvertaking, Turn

-----------------------------------------------------------------------------
(* The list implements the abstract queue *)

LEMMA MappedIs == GroupOfJob = GroupIn(job_requests) /\ OrderOfGroups = AheadIn(job_requests)
  <1>1. Queued = InQueue(job_requests)
    BY DEF Queued, InQueue
  <1>2. \A i : Key(i) = KeyOf(job_requests[i])
    BY DEF Key, KeyOf
  <1> QED BY <1>1, <1>2 DEF GroupOfJob, OrderOfGroups, GroupIn, AheadIn

LEMMA MappedNextIs == GroupOfJob' = GroupIn(job_requests') /\ OrderOfGroups' = AheadIn(job_requests')
  <1>1. Queued' = InQueue(job_requests')
    BY DEF Queued, InQueue
  <1>2. GroupOfJob' = [j \in Queued' |-> KeyOf(job_requests'[CHOOSE i \in DOMAIN job_requests' :
                                                          Contains(job_requests'[i].l, j)])]
    BY DEF GroupOfJob, Key, KeyOf
  <1>3. OrderOfGroups' = AheadIn(job_requests')
    BY DEF OrderOfGroups, AheadIn, Key, KeyOf
  <1> QED BY <1>1, <1>2, <1>3 DEF GroupIn

\* The groups with a job that waits are those of the list.
LEMMA WaitingIs ==
    ASSUME NEW q, Formed(q)
    PROVE  Fair!Waiting(GroupIn(q)) = Keys(q) /\ DOMAIN GroupIn(q) = InQueue(q)
  <1>1. DOMAIN GroupIn(q) = InQueue(q)
    BY DEF GroupIn
  <1>2. q \in Seq(Group)
    BY DEF Formed
  <1>3. ASSUME NEW j \in InQueue(q) PROVE GroupIn(q)[j] \in Keys(q)
    <2>1. PICK i \in 1 .. Len(q) : j \in JobsOf(q[i])
      BY <1>2, InQueueIs
    <2> QED BY <2>1, GroupIs DEF Keys
  <1>4. ASSUME NEW i \in 1 .. Len(q) PROVE \E j \in InQueue(q) : GroupIn(q)[j] = KeyOf(q[i])
    <2>1. q[i] \in Group /\ Len(q[i].l) > 0
      BY DEF Formed, Proper
    <2>2. Len(q[i].l) \in Nat /\ \A k \in 1 .. Len(q[i].l) : q[i].l[k] \in JobsOf(q[i])
      BY <2>1, GroupType
    <2>3. 1 \in 1 .. Len(q[i].l)
      BY <2>1, <2>2
    <2>4. q[i].l[1] \in JobsOf(q[i])
      BY <2>2, <2>3
    <2> QED BY <2>4, GroupIs
  <1>5. Fair!Waiting(GroupIn(q)) = {GroupIn(q)[j] : j \in InQueue(q)}
    BY <1>1 DEF Fair!Waiting
  <1> QED BY <1>1, <1>3, <1>4, <1>5 DEF Keys

\* GroupIn of a list is determined by its values.
LEMMA SameGroups ==
    ASSUME NEW r, NEW f, DOMAIN f = InQueue(r), f = [j \in InQueue(r) |-> f[j]],
           \A j \in InQueue(r) : GroupIn(r)[j] = f[j]
    PROVE  GroupIn(r) = f
  <1>1. GroupIn(r) = [j \in InQueue(r) |-> GroupIn(r)[j]]
    BY DEF GroupIn
  <1> QED BY <1>1

\* A GetCSMsg for some servers asks the abstract queue.
LEMMA AsksFair ==
    ASSUME QueueInv, NEW c \in Submitter, NEW n \in Nice, NEW count \in Counts, GetCS(c, n, count), count # 0
    PROVE  count \in 1 .. MaxJobs /\ Fair!Ask(<<c, n>>, count)
  <1> DEFINE q == job_requests
             r == job_requests'
             g == <<c, n>>
             ids == Len(batch) + 1 .. Len(batch) + count
  <1>1. /\ Formed(q) /\ Asked(q, r, g, ids) /\ Len(batch)' = Len(batch) + count
        /\ Len(batch) + count <= MaxJobs /\ count \in Nat /\ dispatched' = dispatched /\ Len(batch) \in Nat
    BY GetCSStep DEF QueueInv
  <1>2. count \in 1 .. MaxJobs
    BY <1>1, NumberAssumption
  <1>3. Fair!Waiting(GroupOfJob) = Keys(q) /\ DOMAIN GroupOfJob = InQueue(q)
    BY <1>1, MappedIs, WaitingIs
  <1> HIDE DEF ids
  <1>4. GroupOfJob' = [j \in DOMAIN GroupOfJob \cup ids |-> IF j \in ids THEN g ELSE GroupOfJob[j]]
    <2> DEFINE f == [j \in InQueue(q) \cup ids |-> IF j \in ids THEN g ELSE GroupIn(q)[j]]
    <2>1. InQueue(r) = InQueue(q) \cup ids
      BY <1>1 DEF Asked
    <2>2. \A j \in InQueue(r) : GroupIn(r)[j] = f[j]
      BY <1>1, <2>1 DEF Asked
    <2>3. DOMAIN f = InQueue(r) /\ f = [j \in InQueue(r) |-> f[j]]
      BY <2>1
    <2> HIDE DEF f
    <2>4. GroupIn(r) = f
      BY <2>2, <2>3, SameGroups
    <2> QED BY <1>3, <2>4, MappedIs, MappedNextIs DEF f
  <1>5. OrderOfGroups' = IF g \in Keys(q) THEN OrderOfGroups ELSE Fair!Behind(OrderOfGroups, g, Keys(q))
    BY <1>1, MappedIs, MappedNextIs DEF Asked
  <1>6. Fair!Ask(g, count)
    BY <1>1, <1>3, <1>4, <1>5 DEF Fair!Ask, ids
  <1> QED BY <1>2, <1>6

\* The first request of the list is the next one of the abstract queue.
LEMMA FirstIsNext ==
    ASSUME QueueInv, job_requests # <<>>
    PROVE  Fair!IsNext(Head(job_requests[1].l))
  <1> DEFINE q == job_requests
             j == Head(q[1].l)
             G == GroupIn(q)
  <1>1. Formed(q) /\ q \in Seq(Group) /\ GroupOfJob = G /\ OrderOfGroups = AheadIn(q) /\ DOMAIN G = InQueue(q)
    BY MappedIs, WaitingIs DEF QueueInv, Formed
  <1>2. /\ 1 \in 1 .. Len(q) /\ 1 \in 1 .. Len(q[1].l) /\ j = q[1].l[1] /\ G[j] = KeyOf(q[1])
    BY <1>1, FirstJob
  <1>3. ASSUME NEW k \in InQueue(q), k # j
        PROVE  \/ G[j][2] < G[k][2]
               \/ <<G[j], G[k]>> \in AheadIn(q)
               \/ G[j] = G[k] /\ j < k
    <2>1. PICK a \in 1 .. Len(q) : k \in JobsOf(q[a])
      BY <1>1, InQueueIs
    <2>2. G[k] = KeyOf(q[a])
      BY <1>1, <2>1, GroupIs
    <2>3. q[1] \in Group /\ q[a] \in Group /\ a \in Nat
      BY <1>1, <1>2
    <2>4. CASE a = 1
      <3>1. PICK b \in 1 .. Len(q[1].l) : q[1].l[b] = k
        BY <2>1, <2>3, <2>4, GroupType
      <3>2. Len(q[1].l) \in Nat /\ b # 1
        BY <1>2, <1>3, <2>3, <3>1, GroupType
      <3>3. 1 < b
        BY <3>2
      <3>4. Ascending(q[1].l)
        BY <1>1, <1>2 DEF Formed, Proper
      <3>5. j < k
        BY <1>2, <3>1, <3>3, <3>4 DEF Ascending
      <3> QED BY <1>2, <2>2, <2>4, <3>5
    <2>5. CASE a # 1
      <3>1. 1 < a
        BY <2>3, <2>5
      <3>2. q[1].niceness <= q[a].niceness /\ q[1].niceness \in Int /\ q[a].niceness \in Int
        BY <1>1, <1>2, <2>3, <3>1, GroupType DEF Formed, Apart
      <3>3. G[j][2] = q[1].niceness /\ G[k][2] = q[a].niceness
        BY <1>2, <2>2 DEF KeyOf
      <3>4. CASE q[1].niceness = q[a].niceness
        <4>1. <<KeyOf(q[1]), KeyOf(q[a])>> \in AheadIn(q)
          BY <1>1, <1>2, <3>1, <3>4, AheadIs
        <4> QED BY <1>2, <2>2, <4>1
      <3>5. CASE q[1].niceness # q[a].niceness
        <4>1. q[1].niceness < q[a].niceness
          BY <3>2, <3>5
        <4> QED BY <3>3, <4>1
      <3> QED BY <3>4, <3>5
    <2> QED BY <2>4, <2>5
  <1> HIDE DEF G, j
  <1>4. Fair!IsNext(j)
    BY <1>1, <1>3 DEF Fair!IsNext
  <1> QED BY <1>4 DEF j

\* empty_queue serves the abstract queue.
LEMMA ServesFair ==
    ASSUME QueueInv, Dispatch
    PROVE  Fair!Serve
  <1> DEFINE q == job_requests
             r == job_requests'
             j == Head(q[1].l)
             g == KeyOf(q[1])
             f == [k \in InQueue(q) \ {j} |-> GroupIn(q)[k]]
             rest == Fair!Without(AheadIn(q), {g})
  <1>1. Formed(q) /\ Formed(r) /\ q # <<>> /\ Served(q, r, j, g)
        /\ dispatched' = dispatched \cup {j} /\ batch' = batch
    BY DispatchStep DEF QueueInv
  <1>2. j \in InQueue(q) /\ GroupIn(q)[j] = g /\ Fair!IsNext(j)
    BY <1>1, FirstJob, FirstIsNext
  <1>3. InQueue(r) = InQueue(q) \ {j} /\ \A k \in InQueue(r) : GroupIn(r)[k] = GroupIn(q)[k]
    BY <1>1 DEF Served
  <1>4. GroupIn(r) = f
    <2>1. \A k \in InQueue(r) : GroupIn(r)[k] = f[k]
      BY <1>3
    <2>2. DOMAIN f = InQueue(r) /\ f = [k \in InQueue(r) |-> f[k]]
      BY <1>3
    <2> HIDE DEF f
    <2> QED BY <2>1, <2>2, SameGroups
  <1>5. Fair!Waiting(f) = Keys(r) /\ DOMAIN GroupIn(q) = InQueue(q)
    BY <1>1, <1>4, WaitingIs
  <1>6. AheadIn(r) = IF g \in Keys(r) THEN Fair!Behind(rest, g, Keys(r) \ {g}) ELSE rest
    BY <1>1 DEF Served
  <1>7. Fair!Only(DOMAIN GroupOfJob \ {j}) = f
    BY <1>5, MappedIs DEF Fair!Only
  <1> HIDE DEF j, g, f, rest
  <1>8. /\ j \in DOMAIN GroupOfJob /\ GroupOfJob[j] = g /\ GroupOfJob' = f
        /\ OrderOfGroups' = AheadIn(r) /\ rest = Fair!Without(OrderOfGroups, {g})
    BY <1>2, <1>4, <1>5, MappedIs, MappedNextIs DEF rest
  <1>9. Len(batch)' = Len(batch)
    BY <1>1
  <1>10. /\ GroupOfJob' = Fair!Only(DOMAIN GroupOfJob \ {j})
         /\ OrderOfGroups' = IF g \in Fair!Waiting(f) THEN Fair!Behind(rest, g, Fair!Waiting(f) \ {g}) ELSE rest
    BY <1>5, <1>6, <1>7, <1>8
  <1> QED BY <1>1, <1>2, <1>7, <1>8, <1>9, <1>10 DEF Fair!Serve

\* handle_job_done of a client that is gone, and handle_end, withdraw requests.
LEMMA WithdrawsFair ==
    ASSUME QueueInv, NEW c, (\E b \in 1 .. MaxJobs : Cancel(c, b)) \/ End(c)
    PROVE  \E S \in SUBSET DOMAIN GroupOfJob : Fair!Withdraw(S)
  <1> DEFINE q == job_requests
             r == job_requests'
             S == InQueue(q) \ InQueue(r)
             f == [k \in InQueue(q) \ S |-> GroupIn(q)[k]]
  <1>1. Formed(q) /\ Formed(r) /\ Reduced(q, r) /\ dispatched' = dispatched /\ batch' = batch
    BY WithdrawStep, ThinnedFormed, ThinnedReduced DEF QueueInv
  <1>2. InQueue(q) \ S = InQueue(r) /\ \A k \in InQueue(r) : GroupIn(r)[k] = GroupIn(q)[k]
    BY <1>1 DEF Reduced
  <1>3. GroupIn(r) = f
    <2>1. \A k \in InQueue(r) : GroupIn(r)[k] = f[k]
      BY <1>2
    <2>2. DOMAIN f = InQueue(r) /\ f = [k \in InQueue(r) |-> f[k]]
      BY <1>2
    <2> HIDE DEF f
    <2> QED BY <2>1, <2>2, SameGroups
  <1>4. /\ Fair!Waiting(f) = Keys(r) /\ Fair!Waiting(GroupIn(q)) = Keys(q) /\ DOMAIN GroupIn(q) = InQueue(q)
    BY <1>1, <1>3, WaitingIs
  <1>5. Fair!Only(DOMAIN GroupOfJob \ S) = f
    BY <1>4, MappedIs DEF Fair!Only
  <1>6. AheadIn(r) = Fair!Without(AheadIn(q), Keys(q) \ Keys(r))
    BY <1>1 DEF Reduced
  <1>7. S \in SUBSET DOMAIN GroupOfJob
    BY <1>4, MappedIs
  <1> HIDE DEF S, f
  <1>8. /\ GroupOfJob' = Fair!Only(DOMAIN GroupOfJob \ S)
        /\ OrderOfGroups' = Fair!Without(OrderOfGroups, Fair!Waiting(GroupOfJob)
                                                            \ Fair!Waiting(Fair!Only(DOMAIN GroupOfJob \ S)))
    BY <1>3, <1>4, <1>5, <1>6, MappedIs, MappedNextIs
  <1>9. Fair!Withdraw(S)
    BY <1>1, <1>8 DEF Fair!Withdraw
  <1> QED BY <1>7, <1>9

\* Every step of the list is a step of the abstract queue, or none.
LEMMA FairStep ==
    ASSUME QueueInv, [Next]_vars
    PROVE  [Fair!QueueNext]_Fair!queueVars
  <1>1. ASSUME NEW c \in Submitter, NEW n \in Nice, NEW count \in Counts, GetCS(c, n, count), count # 0
        PROVE  Fair!QueueNext
    <2>1. <<c, n>> \in Fair!Groups
      BY DEF Fair!Groups
    <2>2. count \in 1 .. MaxJobs /\ Fair!Ask(<<c, n>>, count)
      BY <1>1, AsksFair
    <2> QED BY <2>1, <2>2 DEF Fair!QueueNext
  <1>2. ASSUME job_requests' = job_requests, dispatched' = dispatched, Len(batch') = Len(batch)
        PROVE  UNCHANGED Fair!queueVars
    <2>1. GroupOfJob' = GroupOfJob /\ OrderOfGroups' = OrderOfGroups
      BY <1>2, MappedIs, MappedNextIs
    <2>2. Len(batch)' = Len(batch)
      BY <1>2
    <2> QED BY <1>2, <2>1, <2>2 DEF Fair!queueVars
  <1>3. ASSUME NEW c \in Submitter, NEW n \in Nice, GetCS(c, n, 0), 0 \in Counts PROVE UNCHANGED Fair!queueVars
    <2>1. job_requests' = job_requests /\ dispatched' = dispatched /\ Len(batch') = Len(batch) + 0
      BY <1>3, GetCSStep
    <2>2. Len(batch') = Len(batch)
      BY <2>1 DEF QueueInv
    <2> QED BY <1>2, <2>1, <2>2
  <1>4. CASE Dispatch
    BY <1>4, ServesFair DEF Fair!QueueNext
  <1>5. ASSUME NEW c \in Submitter, (\E b \in 1 .. MaxJobs : Cancel(c, b)) \/ End(c) PROVE Fair!QueueNext
    BY <1>5, WithdrawsFair DEF Fair!QueueNext
  <1>6. CASE UNCHANGED vars
    <2>1. job_requests' = job_requests /\ dispatched' = dispatched /\ batch' = batch
      BY <1>6 DEF vars
    <2> QED BY <1>2, <2>1
  <1> QED BY <1>1, <1>3, <1>4, <1>5, <1>6 DEF Next

\* The list of groups does what the scheduler needs of its queue: the next job
\* is one of the best niceness, submitters of one niceness take turns, and the
\* jobs of a group leave it in the order of their ids.
THEOREM ListImplementsQueue == Spec => ImplementsFairQueue
  <1>1. Init => Fair!QueueInit
    <2> SUFFICES ASSUME Init PROVE Fair!QueueInit
      OBVIOUS
    <2>1. job_requests = <<>> /\ batch = <<>> /\ dispatched = {}
      BY DEF Init
    <2>2. DOMAIN <<>> = {} /\ Len(<<>>) = 0
      OBVIOUS
    <2>3. InQueue(<<>>) = {}
      BY <2>2 DEF InQueue
    <2>4. GroupIn(<<>>) = [j \in {} |-> 0]
      BY <2>3 DEF GroupIn
    <2>5. AheadIn(<<>>) = {}
      BY <2>2 DEF AheadIn
    <2> QED BY <2>1, <2>2, <2>4, <2>5, MappedIs DEF Fair!QueueInit
  <1>2. Init => QueueInv
    BY QueueInvInit
  <1>3. QueueInv /\ [Next]_vars => QueueInv'
    BY QueueInvStep
  <1>4. QueueInv /\ [Next]_vars => [Fair!QueueNext]_Fair!queueVars
    BY FairStep
  <1>5. Spec => Fair!QueueInit /\ [][Fair!QueueNext]_Fair!queueVars
    BY <1>1, <1>2, <1>3, <1>4, PTL DEF Spec
  <1> QED BY <1>5 DEF ImplementsFairQueue, Fair!QueueSpec
=============================================================================
