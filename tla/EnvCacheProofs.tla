--------------------------- MODULE EnvCacheProofs ---------------------------
(***************************************************************************)
(* Theorems about module EnvCache: the size of the cache covers what is in *)
(* it, an environment in use is kept, check_cache_size leaves the cache    *)
(* small enough, and a native environment that is given away is known.     *)
(*                                                                         *)
(* The sum of the sizes is a fold over the keys of a map, and the loop of  *)
(* check_cache_size is a fold of EvictOne; module Loops has what is needed *)
(* of both.                                                                *)
(***************************************************************************)
EXTENDS EnvCache, Loops

-----------------------------------------------------------------------------
(* The sum of the sizes *)

Entry == [last_use : Nat, size : Nat]
NativeEntry == [name : BOOLEAN, filetimes : Nat, last_use : Nat, size : Nat, create_env_pipe : BOOLEAN]

\* A map with finitely many entries, each with a size.
Sized(f) ==
    /\ f = [k \in DOMAIN f |-> f[k]] /\ IsFiniteSet(DOMAIN f)
    /\ \A k \in DOMAIN f : f[k].size \in Nat

SizesOf(f) == [k \in DOMAIN f |-> f[k].size]

LEMMA TotalIs ==
    ASSUME NEW f, Sized(f)
    PROVE  Total(f) = Cardinality(Units(SizesOf(f), DOMAIN f)) /\ Total(f) \in Nat
  <1> DEFINE D == DOMAIN f
             w == SizesOf(f)
             Is(h) == h = [s \in SUBSET D |->
                             IF s = {} THEN 0 ELSE h[s \ {CHOOSE x \in s : TRUE}] + f[CHOOSE x \in s : TRUE].size]
             h == CHOOSE g : Is(g)
  <1>1. Total(f) = h[D]
    BY DEF Total, FoldSet, MapThenFoldSet
  <1>2. IsFiniteSet(D) /\ w \in [D -> Nat] /\ \A k \in D : w[k] = f[k].size
    BY DEF Sized, SizesOf
  <1>3. ASSUME NEW g PROVE Is(g) <=> IsSum(g, D, w)
    <2>1. \A s \in SUBSET D : s # {} => PickOf(s) \in D /\ PickOf(s) = CHOOSE x \in s : TRUE
      BY DEF PickOf
    <2> HIDE DEF w
    <2>2. ASSUME NEW s \in SUBSET D
          PROVE  (IF s = {} THEN 0 ELSE g[s \ {CHOOSE x \in s : TRUE}] + f[CHOOSE x \in s : TRUE].size)
                     = IF s = {} THEN 0 ELSE g[s \ {PickOf(s)}] + w[PickOf(s)]
      <3>1. CASE s = {}
        BY <3>1
      <3>2. CASE s # {}
        <4> DEFINE x == PickOf(s)
        <4>1. x \in D /\ x = CHOOSE y \in s : TRUE
          BY <2>1, <3>2
        <4> HIDE DEF x
        <4>2. w[x] = f[x].size
          BY <1>2, <4>1
        <4>3. g[s \ {CHOOSE y \in s : TRUE}] + f[CHOOSE y \in s : TRUE].size = g[s \ {x}] + w[x]
          BY <4>1, <4>2
        <4> QED BY <3>2, <4>3 DEF x
      <3> QED BY <3>1, <3>2
    <2> QED BY <2>2 DEF IsSum
  <1> HIDE DEF D, w, Is
  <1>4. PICK g : IsSum(g, D, w)
    BY <1>2, SumExists
  <1>5. Is(h)
    BY <1>3, <1>4
  <1> HIDE DEF h
  <1>6. h[D] = Cardinality(Units(w, D))
    BY <1>2, <1>3, <1>5, SumIs
  <1>7. D \in SUBSET D
    OBVIOUS
  <1>8. IsFiniteSet(Units(w, D))
    BY <1>2, <1>7, UnitsFinite
  <1>9. Cardinality(Units(w, D)) \in Nat
    BY <1>8, FS_CardinalityType
  <1> QED BY <1>1, <1>6, <1>9 DEF D, w

\* An entry leaves the map.
LEMMA TotalWithout ==
    ASSUME NEW f, Sized(f), NEW k \in DOMAIN f
    PROVE  /\ Sized(Without(f, k))
           /\ Total(f) = Total(Without(f, k)) + f[k].size
           /\ Total(Without(f, k)) \in Nat /\ Total(f) \in Nat
  <1> DEFINE g == Without(f, k)
             D == DOMAIN f
             w == SizesOf(f)
             v == SizesOf(g)
  <1>1. IsFiniteSet(D) /\ \A x \in D : f[x].size \in Nat
    BY DEF Sized
  <1>2. DOMAIN g = D \ {k} /\ (\A x \in D \ {k} : g[x] = f[x]) /\ g = [x \in DOMAIN g |-> g[x]]
    BY DEF Without
  <1> HIDE DEF g
  <1>3. Sized(g)
    BY <1>1, <1>2, FS_RemoveElement DEF Sized
  <1>4. w \in [D -> Nat] /\ w[k] = f[k].size
    BY <1>1 DEF SizesOf
  <1>5. \A x \in D \ {k} : v[x] = w[x]
    BY <1>2 DEF SizesOf
  <1> HIDE DEF w, v
  <1>6. Units(v, D \ {k}) = Units(w, D \ {k})
    BY <1>5 DEF Units
  <1>7. Total(g) = Cardinality(Units(w, D \ {k})) /\ Total(g) \in Nat
    BY <1>2, <1>3, <1>6, TotalIs DEF v
  <1>8. Total(f) = Cardinality(Units(w, D)) /\ Total(f) \in Nat
    BY TotalIs DEF w
  <1>9. D \in SUBSET D /\ D \ {k} \in SUBSET D
    OBVIOUS
  <1>10. IsFiniteSet(Units(w, D \ {k}))
    BY <1>1, <1>4, <1>9, UnitsFinite
  <1>11. Cardinality(Units(w, D)) = Cardinality(Units(w, D \ {k})) + w[k]
    BY <1>4, <1>9, <1>10, UnitsSplit
  <1> QED BY <1>3, <1>4, <1>7, <1>8, <1>11 DEF g

\* An entry is added or replaced.
LEMMA TotalWith ==
    ASSUME NEW f, Sized(f), NEW k, NEW v, v.size \in Nat
    PROVE  /\ Sized(With(f, k, v))
           /\ Total(f) \in Nat /\ Total(With(f, k, v)) \in Nat
           /\ Total(With(f, k, v)) <= Total(f) + v.size
           /\ k \in DOMAIN f => Total(With(f, k, v)) + f[k].size = Total(f) + v.size
           /\ k \notin DOMAIN f => Total(With(f, k, v)) = Total(f) + v.size
  <1> DEFINE g == With(f, k, v)
  <1>1. /\ DOMAIN g = DOMAIN f \cup {k} /\ g[k] = v /\ (\A x \in DOMAIN f \ {k} : g[x] = f[x])
        /\ g = [x \in DOMAIN g |-> g[x]]
    BY DEF With
  <1> HIDE DEF g
  <1>2. IsFiniteSet(DOMAIN g)
    BY <1>1, FS_AddElement DEF Sized
  <1>3. Sized(g)
    <2>1. \A x \in DOMAIN g : x = k \/ x \in DOMAIN f \ {k}
      BY <1>1
    <2>2. \A x \in DOMAIN g : g[x].size \in Nat
      BY <1>1, <2>1 DEF Sized
    <2> QED BY <1>1, <1>2, <2>2 DEF Sized
  <1>4. Total(g) = Total(Without(g, k)) + v.size /\ Total(Without(g, k)) \in Nat /\ Total(g) \in Nat
    BY <1>1, <1>3, TotalWithout
  <1>5. Without(g, k) = Without(f, k)
    <2>1. DOMAIN g \ {k} = DOMAIN f \ {k}
      BY <1>1
    <2> QED BY <1>1, <2>1 DEF Without
  <1>6. CASE k \in DOMAIN f
    <2>1. Total(f) = Total(Without(f, k)) + f[k].size /\ f[k].size \in Nat /\ Total(f) \in Nat
      BY <1>6, TotalWithout DEF Sized
    <2> QED BY <1>3, <1>4, <1>5, <1>6, <2>1 DEF g
  <1>7. CASE k \notin DOMAIN f
    <2>1. Without(f, k) = f
      <3>1. DOMAIN f \ {k} = DOMAIN f
        BY <1>7
      <3> QED BY <3>1 DEF Without, Sized
    <2> QED BY <1>3, <1>4, <1>5, <1>7, <2>1 DEF g
  <1> QED BY <1>6, <1>7

-----------------------------------------------------------------------------
(* The choice of what goes *)

LEMMA FirstIn ==
    ASSUME NEW set, set \subseteq Nat, set # {}
    PROVE  FirstOf(set) \in set
  <1>1. \E k \in set : \A j \in set : k <= j
    BY Least
  <1> QED BY <1>1 DEF FirstOf

LEMMA OldestIn ==
    ASSUME NEW f, NEW set, set \subseteq Nat \ {0}, \A k \in set : f[k].last_use \in Nat
    PROVE  IF set = {} THEN Oldest(f, set) = None ELSE Oldest(f, set) \in set
  <1>1. CASE set = {}
    BY <1>1 DEF Oldest
  <1>2. CASE set # {}
    <2> DEFINE T == {f[k].last_use : k \in set}
               best == {k \in set : \A j \in set : f[k].last_use <= f[j].last_use}
    <2>1. T \subseteq Nat /\ T # {}
      BY <1>2
    <2>2. PICK t \in T : \A y \in T : t <= y
      <3> HIDE DEF T
      <3> QED BY <2>1, Least
    <2>3. PICK k \in set : t = f[k].last_use
      OBVIOUS
    <2>4. k \in best
      BY <2>2, <2>3
    <2>5. best # {} /\ best \subseteq Nat /\ best \subseteq set
      BY <2>4
    <2>6. Oldest(f, set) = FirstOf(best)
      BY <1>2 DEF Oldest
    <2> HIDE DEF best
    <2> QED BY <1>2, <2>5, <2>6, FirstIn
  <1> QED BY <1>1, <1>2

-----------------------------------------------------------------------------
(* The state that check_cache_size works on *)

Disk == {"no", "dir", "as", "whole", "bare"}
Aborts == {"", "assert job", "iterator"}

IsReceived(f) == Sized(f) /\ DOMAIN f \subseteq Env /\ \A e \in DOMAIN f : f[e] \in Entry
IsNative(f) == Sized(f) /\ DOMAIN f \subseteq Compiler /\ \A k \in DOMAIN f : f[k] \in NativeEntry

ReceivedMaps == UNION {[D -> Entry] : D \in SUBSET Env}
NativeMaps == UNION {[D -> NativeEntry] : D \in SUBSET Compiler}
States == [received : ReceivedMaps, native : NativeMaps, cache_size : Int,
           disk : [Env -> Disk], tarball : SUBSET Compiler, aborted : Aborts]

\* The size covers the sizes of both maps.
Covers(s) == s.cache_size \in Nat /\ s.cache_size >= Total(s.received) + Total(s.native)

Good(s) == s \in States /\ IsReceived(s.received) /\ IsNative(s.native) /\ Covers(s)

LEMMA MapsIn ==
    ASSUME NEW f
    PROVE  (IsReceived(f) => f \in ReceivedMaps) /\ (IsNative(f) => f \in NativeMaps)
  <1>1. ASSUME IsReceived(f) PROVE f \in ReceivedMaps
    <2>1. f \in [DOMAIN f -> Entry] /\ DOMAIN f \in SUBSET Env
      BY <1>1 DEF IsReceived, Sized
    <2> QED BY <2>1 DEF ReceivedMaps
  <1>2. ASSUME IsNative(f) PROVE f \in NativeMaps
    <2>1. f \in [DOMAIN f -> NativeEntry] /\ DOMAIN f \in SUBSET Compiler
      BY <1>2 DEF IsNative, Sized
    <2> QED BY <2>1 DEF NativeMaps
  <1> QED BY <1>1, <1>2

\* Entries leave and come.
LEMMA ReceivedEdits ==
    ASSUME NEW f, IsReceived(f)
    PROVE  /\ \A e \in DOMAIN f : /\ IsReceived(Without(f, e)) /\ Total(f) \in Nat /\ f[e].size \in Nat
                                  /\ Total(Without(f, e)) \in Nat
                                  /\ Total(f) = Total(Without(f, e)) + f[e].size
           /\ \A e \in Env, v \in Entry : IsReceived(With(f, e, v))
  <1>1. ASSUME NEW e \in DOMAIN f
        PROVE  /\ IsReceived(Without(f, e)) /\ Total(f) \in Nat /\ f[e].size \in Nat
               /\ Total(Without(f, e)) \in Nat /\ Total(f) = Total(Without(f, e)) + f[e].size
    <2>1. Sized(f) /\ f[e].size \in Nat
      BY DEF IsReceived, Sized
    <2>2. DOMAIN Without(f, e) \subseteq DOMAIN f /\ \A x \in DOMAIN Without(f, e) : Without(f, e)[x] = f[x]
      BY DEF Without
    <2> QED BY <2>1, <2>2, TotalWithout DEF IsReceived
  <1>2. ASSUME NEW e \in Env, NEW v \in Entry PROVE IsReceived(With(f, e, v))
    <2>1. Sized(f) /\ v.size \in Nat
      BY DEF IsReceived, Entry
    <2>2. Sized(With(f, e, v))
      BY <2>1, TotalWith
    <2>3. /\ DOMAIN With(f, e, v) = DOMAIN f \cup {e}
          /\ \A x \in DOMAIN With(f, e, v) : With(f, e, v)[x] = IF x = e THEN v ELSE f[x]
      BY DEF With
    <2> QED BY <2>2, <2>3 DEF IsReceived
  <1> QED BY <1>1, <1>2

LEMMA NativeEdits ==
    ASSUME NEW f, IsNative(f)
    PROVE  /\ \A k \in DOMAIN f : /\ IsNative(Without(f, k)) /\ Total(f) \in Nat /\ f[k].size \in Nat
                                  /\ Total(Without(f, k)) \in Nat
                                  /\ Total(f) = Total(Without(f, k)) + f[k].size
           /\ \A k \in Compiler, v \in NativeEntry : IsNative(With(f, k, v))
  <1>1. ASSUME NEW k \in DOMAIN f
        PROVE  /\ IsNative(Without(f, k)) /\ Total(f) \in Nat /\ f[k].size \in Nat
               /\ Total(Without(f, k)) \in Nat /\ Total(f) = Total(Without(f, k)) + f[k].size
    <2>1. Sized(f) /\ f[k].size \in Nat
      BY DEF IsNative, Sized
    <2>2. DOMAIN Without(f, k) \subseteq DOMAIN f /\ \A x \in DOMAIN Without(f, k) : Without(f, k)[x] = f[x]
      BY DEF Without
    <2> QED BY <2>1, <2>2, TotalWithout DEF IsNative
  <1>2. ASSUME NEW k \in Compiler, NEW v \in NativeEntry PROVE IsNative(With(f, k, v))
    <2>1. Sized(f) /\ v.size \in Nat
      BY DEF IsNative, NativeEntry
    <2>2. Sized(With(f, k, v))
      BY <2>1, TotalWith
    <2>3. /\ DOMAIN With(f, k, v) = DOMAIN f \cup {k}
          /\ \A x \in DOMAIN With(f, k, v) : With(f, k, v)[x] = IF x = k THEN v ELSE f[x]
      BY DEF With
    <2> QED BY <2>2, <2>3 DEF IsNative
  <1> QED BY <1>1, <1>2

\* The fields of the state.
LEMMA StateFields ==
    ASSUME NEW s \in States
    PROVE  /\ s.received \in ReceivedMaps /\ s.native \in NativeMaps /\ s.cache_size \in Int
           /\ s.disk \in [Env -> Disk] /\ s.tarball \in SUBSET Compiler /\ s.aborted \in Aborts
  BY DEF States

\* A native environment is removed.
LEMMA RemoveNative ==
    ASSUME NEW s, Good(s), NEW k \in DOMAIN s.native
    PROVE  LET t == remove_native_environment(s, k)
           IN  /\ Good(t)
               /\ t.received = s.received /\ t.native = Without(s.native, k)
               /\ t.disk = s.disk /\ t.tarball = s.tarball /\ t.aborted = s.aborted
  <1> DEFINE n == Without(s.native, k)
             z == s.cache_size - s.native[k].size
             t == [s EXCEPT !.cache_size = z, !.native = n]
  <1>1. remove_native_environment(s, k) = t
    BY DEF remove_native_environment
  <1>2. s \in States /\ IsReceived(s.received) /\ IsNative(s.native) /\ s.cache_size \in Nat
        /\ s.cache_size >= Total(s.received) + Total(s.native)
    BY DEF Good, Covers
  <1>3. /\ IsNative(n) /\ Total(n) \in Nat /\ s.native[k].size \in Nat
        /\ Total(s.native) = Total(n) + s.native[k].size /\ Total(s.native) \in Nat
    BY <1>2, NativeEdits
  <1>4. Total(s.received) \in Nat
    BY <1>2, TotalIs DEF IsReceived
  <1>5. z \in Nat /\ z >= Total(s.received) + Total(n)
    BY <1>2, <1>3, <1>4
  <1>6. n \in NativeMaps /\ z \in Int
    BY <1>3, <1>5, MapsIn
  <1> HIDE DEF n, z
  <1>7. t \in States
    BY <1>2, <1>6 DEF States
  <1>8. /\ t.received = s.received /\ t.native = n /\ t.disk = s.disk
        /\ t.tarball = s.tarball /\ t.aborted = s.aborted /\ t.cache_size = z
    BY <1>2 DEF States
  <1> HIDE DEF t
  <1>9. Good(t)
    BY <1>2, <1>3, <1>5, <1>7, <1>8 DEF Good, Covers
  <1> QED BY <1>1, <1>8, <1>9 DEF n

\* A received environment is removed.
LEMMA RemoveReceived ==
    ASSUME NEW s, Good(s), NEW e \in DOMAIN s.received
    PROVE  LET t == remove_environment(s, e)
           IN  /\ Good(t) /\ e \in Env
               /\ t.received = Without(s.received, e) /\ t.native = s.native
               /\ t.disk = [s.disk EXCEPT ![e] = "no"] /\ t.tarball = s.tarball /\ t.aborted = s.aborted
  <1> DEFINE n == Without(s.received, e)
             z == s.cache_size - s.received[e].size
             d == [s.disk EXCEPT ![e] = "no"]
             t == [s EXCEPT !.cache_size = z, !.received = n, !.disk = d]
  <1>1. remove_environment(s, e) = t
    BY DEF remove_environment
  <1>2. s \in States /\ IsReceived(s.received) /\ IsNative(s.native) /\ s.cache_size \in Nat
        /\ s.cache_size >= Total(s.received) + Total(s.native)
    BY DEF Good, Covers
  <1>3. /\ IsReceived(n) /\ Total(n) \in Nat /\ s.received[e].size \in Nat
        /\ Total(s.received) = Total(n) + s.received[e].size /\ Total(s.received) \in Nat
    BY <1>2, ReceivedEdits
  <1>4. Total(s.native) \in Nat
    BY <1>2, TotalIs DEF IsNative
  <1>5. z \in Nat /\ z >= Total(n) + Total(s.native)
    BY <1>2, <1>3, <1>4
  <1>6. n \in ReceivedMaps /\ z \in Int
    BY <1>3, <1>5, MapsIn
  <1>7. d \in [Env -> Disk] /\ e \in Env
    <2>1. s.disk \in [Env -> Disk] /\ e \in Env /\ "no" \in Disk
      BY <1>2, StateFields DEF IsReceived, Disk
    <2> QED BY <2>1
  <1> HIDE DEF n, z, d
  <1>8. t \in States
    BY <1>2, <1>6, <1>7 DEF States
  <1>9. /\ t.received = n /\ t.native = s.native /\ t.disk = d
        /\ t.tarball = s.tarball /\ t.aborted = s.aborted /\ t.cache_size = z
    BY <1>2 DEF States
  <1> HIDE DEF t
  <1>10. Good(t)
    BY <1>2, <1>3, <1>5, <1>8, <1>9 DEF Good, Covers
  <1> QED BY <1>1, <1>7, <1>9, <1>10 DEF n, d

-----------------------------------------------------------------------------
(* The loop of check_cache_size *)

LEMMA OldestReceived ==
    ASSUME NEW s, Good(s), NEW cl, oldest_received(s, cl) # None
    PROVE  LET r == oldest_received(s, cl)
           IN  r \in DOMAIN s.received /\ (~HasAs(s.disk, r) \/ ~InUse(cl, r))
  <1> DEFINE free == {e \in Old(s) : ~InUse(cl, e)}
  <1>1. DOMAIN s.received \subseteq Nat \ {0} /\ \A e \in DOMAIN s.received : s.received[e].last_use \in Nat
    BY SetAssumption DEF Good, IsReceived, Entry
  <1>2. CASE Broken(s) # {}
    <2>1. Broken(s) \subseteq Nat
      BY <1>1 DEF Broken
    <2>2. FirstOf(Broken(s)) \in Broken(s)
      BY <1>2, <2>1, FirstIn
    <2>3. oldest_received(s, cl) = FirstOf(Broken(s))
      BY <1>2 DEF oldest_received
    <2> QED BY <2>2, <2>3 DEF Broken
  <1>3. CASE Broken(s) = {}
    <2>1. free \subseteq DOMAIN s.received
      BY DEF Old
    <2>2. oldest_received(s, cl) = Oldest(s.received, free)
      BY <1>3 DEF oldest_received
    <2>3. \A e \in free : ~InUse(cl, e)
      OBVIOUS
    <2> HIDE DEF free
    <2>4. free \subseteq Nat \ {0} /\ \A e \in free : s.received[e].last_use \in Nat
      BY <1>1, <2>1
    <2>5. Oldest(s.received, free) \in free
      BY <2>2, <2>4, OldestIn
    <2> QED BY <2>1, <2>2, <2>3, <2>5
  <1> QED BY <1>2, <1>3

\* The native environments that were used just now and are on the disk.
Fresh(s) == {k \in DOMAIN s.native : s.native[k].last_use = now /\ (s.native[k].name => k \in s.tarball)}

LEMMA FreshStays ==
    ASSUME now \in Nat, NEW s
    PROVE  \A k \in Fresh(s) : k \notin MissingNative(s) /\ k \notin OldNative(s)
  <1> SUFFICES ASSUME NEW k \in Fresh(s) PROVE k \notin MissingNative(s) /\ k \notin OldNative(s)
    OBVIOUS
  <1>1. k \notin MissingNative(s)
    BY DEF Fresh, MissingNative
  <1>2. NativeTimeout(s, k) \in Nat
    BY TimeAssumption DEF NativeTimeout
  <1>3. ASSUME NEW n \in Nat PROVE ~(now - now > n)
    OBVIOUS
  <1>4. s.native[k].last_use = now
    BY DEF Fresh
  <1>5. k \notin OldNative(s)
    BY <1>2, <1>3, <1>4 DEF OldNative
  <1> QED BY <1>1, <1>5

LEMMA OldestNative ==
    ASSUME now \in Nat, NEW s, Good(s), NEW cl, oldest_native(s, cl) # None
    PROVE  oldest_native(s, cl) \in DOMAIN s.native /\ oldest_native(s, cl) \notin Fresh(s)
  <1> DEFINE k == Oldest(s.native, OldNative(s))
  <1>1. DOMAIN s.native \subseteq Nat \ {0} /\ \A x \in DOMAIN s.native : s.native[x].last_use \in Nat
    BY SetAssumption DEF Good, IsNative, NativeEntry
  <1>2. CASE MissingNative(s) # {}
    <2>1. MissingNative(s) \subseteq DOMAIN s.native
      BY DEF MissingNative
    <2>2. FirstOf(MissingNative(s)) \in MissingNative(s)
      BY <1>1, <1>2, <2>1, FirstIn
    <2>3. oldest_native(s, cl) = FirstOf(MissingNative(s))
      BY <1>2 DEF oldest_native
    <2> QED BY <2>1, <2>2, <2>3, FreshStays
  <1>3. CASE MissingNative(s) = {}
    <2>1. OldNative(s) \subseteq DOMAIN s.native
      BY DEF OldNative
    <2>2. OldNative(s) \subseteq Nat \ {0} /\ \A x \in OldNative(s) : s.native[x].last_use \in Nat
      BY <1>1, <2>1
    <2>3. k = None \/ k \in OldNative(s)
      BY <2>2, OldestIn
    <2>4. oldest_native(s, cl) = k \/ oldest_native(s, cl) = None
      BY <1>3 DEF oldest_native
    <2> QED BY <2>1, <2>3, <2>4, FreshStays
  <1> QED BY <1>2, <1>3

\* The loop stops here.
Settled(s, cl, new_env) ==
    \/ s.aborted # "" \/ s.cache_size <= cache_size_limit
    \/ ~JoblessClient(s, cl) /\ oldest_native(s, cl) = None /\ oldest_received(s, cl) \in {None, new_env}

\* t is what is left of s: a directory only goes if it has no assembler or is not in use, and
\* the native environments used just now stay.
Left(s, t, cl) ==
    /\ DOMAIN t.received \subseteq DOMAIN s.received
    /\ \A e \in DOMAIN t.received : t.received[e] = s.received[e]
    /\ DOMAIN t.native \subseteq DOMAIN s.native
    /\ \A k \in DOMAIN t.native : t.native[k] = s.native[k]
    /\ t.tarball = s.tarball /\ Fresh(s) \subseteq DOMAIN t.native
    /\ \A e \in Env : \/ t.disk[e] = s.disk[e]
                      \/ t.disk[e] = "no" /\ (~HasAs(s.disk, e) \/ ~InUse(cl, e))

LEMMA LeftSelf ==
    ASSUME NEW s, NEW cl
    PROVE  Left(s, s, cl)
  BY DEF Left, Fresh

LEMMA LeftTwice ==
    ASSUME NEW s, NEW t, NEW u, NEW cl, Left(s, t, cl), Left(t, u, cl)
    PROVE  Left(s, u, cl)
  <1>1. /\ DOMAIN u.received \subseteq DOMAIN s.received /\ DOMAIN u.native \subseteq DOMAIN s.native
        /\ u.tarball = s.tarball
    BY DEF Left
  <1>2. \A e \in DOMAIN u.received : u.received[e] = s.received[e]
    BY DEF Left
  <1>3. \A k \in DOMAIN u.native : u.native[k] = s.native[k]
    BY DEF Left
  <1>4. ASSUME NEW e \in Env
        PROVE  \/ u.disk[e] = s.disk[e]
               \/ u.disk[e] = "no" /\ (~HasAs(s.disk, e) \/ ~InUse(cl, e))
    <2>1. t.disk[e] = s.disk[e] \/ (t.disk[e] = "no" /\ (~HasAs(s.disk, e) \/ ~InUse(cl, e)))
      BY DEF Left
    <2>2. u.disk[e] = t.disk[e] \/ (u.disk[e] = "no" /\ (~HasAs(t.disk, e) \/ ~InUse(cl, e)))
      BY DEF Left
    <2>3. t.disk[e] = s.disk[e] => (HasAs(t.disk, e) <=> HasAs(s.disk, e))
      BY DEF HasAs
    <2> QED BY <2>1, <2>2, <2>3
  <1>5. Fresh(s) \subseteq DOMAIN u.native
    <2>1. Fresh(s) \subseteq Fresh(t)
      BY DEF Left, Fresh
    <2> QED BY <2>1 DEF Left
  <1> QED BY <1>1, <1>2, <1>3, <1>4, <1>5 DEF Left

CountOf(s) == Cardinality(DOMAIN s.received) + Cardinality(DOMAIN s.native)

LEMMA CountType ==
    ASSUME NEW s, Good(s)
    PROVE  /\ Cardinality(DOMAIN s.received) \in Nat /\ Cardinality(DOMAIN s.native) \in Nat
           /\ CountOf(s) \in Nat
           /\ IsFiniteSet(DOMAIN s.received) /\ IsFiniteSet(DOMAIN s.native)
           /\ DOMAIN s.received # {} \/ DOMAIN s.native # {} => CountOf(s) > 0
  <1>1. IsFiniteSet(DOMAIN s.received) /\ IsFiniteSet(DOMAIN s.native)
    BY DEF Good, IsReceived, IsNative, Sized
  <1> DEFINE a == Cardinality(DOMAIN s.received)
             b == Cardinality(DOMAIN s.native)
  <1>2. a \in Nat /\ b \in Nat /\ (DOMAIN s.received # {} => a # 0) /\ (DOMAIN s.native # {} => b # 0)
    BY <1>1, FS_CardinalityType, FS_EmptySet
  <1> HIDE DEF a, b
  <1>3. a + b \in Nat /\ (a # 0 \/ b # 0 => a + b > 0)
    BY <1>2
  <1> QED BY <1>1, <1>2, <1>3 DEF CountOf, a, b

\* One round of the loop: it stops, aborts, or something goes.
LEMMA EvictStep ==
    ASSUME now \in Nat, NEW s, Good(s), NEW cl, NEW new_env
    PROVE  LET t == EvictOne(s, cl, new_env)
           IN  /\ Good(t) /\ Left(s, t, cl)
               /\ Settled(s, cl, new_env) => t = s
               /\ ~Settled(s, cl, new_env) =>
                      CountOf(s) > 0 /\ (Settled(t, cl, new_env) \/ CountOf(t) = CountOf(s) - 1)
  <1> DEFINE r == oldest_received(s, cl)
             k == oldest_native(s, cl)
             t == EvictOne(s, cl, new_env)
  <1>1. t = IF s.aborted # "" \/ s.cache_size <= cache_size_limit THEN s
            ELSE IF JoblessClient(s, cl) THEN [s EXCEPT !.aborted = "assert job"]
            ELSE IF k # None THEN remove_native_environment(s, k)
            ELSE IF r \notin {None, new_env} THEN remove_environment(s, r)
            ELSE s
    BY DEF EvictOne
  <1>2. Settled(s, cl, new_env) <=> \/ s.aborted # "" \/ s.cache_size <= cache_size_limit
                                    \/ ~JoblessClient(s, cl) /\ k = None /\ r \in {None, new_env}
    BY DEF Settled
  <1>3. k # None => k \in DOMAIN s.native /\ k \notin Fresh(s)
    BY OldestNative
  <1>4. r # None => r \in DOMAIN s.received /\ (~HasAs(s.disk, r) \/ ~InUse(cl, r))
    BY OldestReceived
  <1>5. s \in States
    BY DEF Good
  <1> HIDE DEF r, k, t
  <1>6. CASE Settled(s, cl, new_env)
    <2>1. t = s
      BY <1>1, <1>2, <1>6
    <2> QED BY <1>6, <2>1, LeftSelf DEF t
  <1>7. CASE ~Settled(s, cl, new_env) /\ JoblessClient(s, cl)
    <2>1. t = [s EXCEPT !.aborted = "assert job"]
      BY <1>1, <1>2, <1>7
    <2>2. /\ t.received = s.received /\ t.native = s.native /\ t.disk = s.disk /\ t.cache_size = s.cache_size
          /\ t.tarball = s.tarball /\ t.aborted = "assert job"
      BY <1>5, <2>1 DEF States
    <2>3. t \in States
      <3>1. "assert job" \in Aborts
        BY DEF Aborts
      <3> QED BY <1>5, <2>1, <3>1 DEF States
    <2>4. Good(t)
      BY <2>2, <2>3 DEF Good, Covers
    <2>5. Left(s, t, cl)
      BY <2>2 DEF Left, Fresh
    <2>6. Settled(t, cl, new_env)
      BY <2>2 DEF Settled
    <2>7. DOMAIN s.received # {}
      BY <1>7 DEF JoblessClient, Old
    <2>8. CountOf(s) > 0
      BY <2>7, CountType
    <2> QED BY <1>7, <2>4, <2>5, <2>6, <2>8 DEF t
  <1>8. CASE ~Settled(s, cl, new_env) /\ ~JoblessClient(s, cl) /\ k # None
    <2>1. t = remove_native_environment(s, k) /\ k \in DOMAIN s.native /\ k \notin Fresh(s)
      BY <1>1, <1>2, <1>3, <1>8
    <2>2. /\ Good(t) /\ t.received = s.received /\ t.native = Without(s.native, k)
          /\ t.disk = s.disk /\ t.tarball = s.tarball
      BY <2>1, RemoveNative
    <2>3. /\ DOMAIN t.native = DOMAIN s.native \ {k}
          /\ \A x \in DOMAIN t.native : t.native[x] = s.native[x]
      BY <2>2 DEF Without
    <2>4. Left(s, t, cl)
      <3>1. Fresh(s) \subseteq DOMAIN t.native
        BY <2>1, <2>3 DEF Fresh
      <3> QED BY <2>2, <2>3, <3>1 DEF Left
    <2>5. Cardinality(DOMAIN t.native) = Cardinality(DOMAIN s.native) - 1
      BY <2>1, <2>3, CountType, FS_RemoveElement
    <2>6. CountOf(t) = CountOf(s) - 1
      <3>1. Cardinality(DOMAIN s.received) \in Nat /\ Cardinality(DOMAIN s.native) \in Nat
        BY CountType
      <3> QED BY <2>2, <2>5, <3>1 DEF CountOf
    <2>7. CountOf(s) > 0
      BY <2>1, CountType
    <2> QED BY <1>8, <2>2, <2>4, <2>6, <2>7 DEF t
  <1>9. CASE ~Settled(s, cl, new_env) /\ ~JoblessClient(s, cl) /\ k = None
    <2>0. r \notin {None, new_env} /\ r # None
      BY <1>2, <1>9
    <2>1. t = remove_environment(s, r) /\ r \in DOMAIN s.received
      BY <1>1, <1>2, <1>4, <1>9, <2>0
    <2>2. /\ Good(t) /\ t.received = Without(s.received, r) /\ t.native = s.native /\ r \in Env
          /\ t.disk = [s.disk EXCEPT ![r] = "no"] /\ t.tarball = s.tarball
      BY <2>1, RemoveReceived
    <2>3. /\ DOMAIN t.received = DOMAIN s.received \ {r}
          /\ \A x \in DOMAIN t.received : t.received[x] = s.received[x]
      BY <2>2 DEF Without
    <2>4. Left(s, t, cl)
      <3>1. s.disk \in [Env -> Disk]
        BY <1>5, StateFields
      <3>2. t.disk[r] = "no" /\ \A e \in Env : e # r => t.disk[e] = s.disk[e]
        BY <2>2, <3>1
      <3>3. Fresh(s) \subseteq DOMAIN t.native
        BY <2>2 DEF Fresh
      <3> QED BY <1>4, <2>0, <2>2, <2>3, <3>2, <3>3 DEF Left
    <2>5. Cardinality(DOMAIN t.received) = Cardinality(DOMAIN s.received) - 1
      BY <2>1, <2>3, CountType, FS_RemoveElement
    <2>6. CountOf(t) = CountOf(s) - 1
      <3>1. Cardinality(DOMAIN s.received) \in Nat /\ Cardinality(DOMAIN s.native) \in Nat
        BY CountType
      <3> QED BY <2>2, <2>5, <3>1 DEF CountOf
    <2>7. CountOf(s) > 0
      BY <2>1, CountType
    <2> QED BY <1>9, <2>2, <2>4, <2>6, <2>7 DEF t
  <1> QED BY <1>6, <1>7, <1>8, <1>9

\* The whole loop: what is left, and that there is nothing more to do.
LEMMA CheckCacheSize ==
    ASSUME now \in Nat, NEW s, Good(s), NEW cl, NEW new_env
    PROVE  LET r == check_cache_size(s, cl, new_env)
           IN  Good(r) /\ Left(s, r, cl) /\ Settled(r, cl, new_env)
  <1> DEFINE N == CountOf(s)
             T == {t \in States : Good(t) /\ Left(s, t, cl)}
             step(t) == EvictOne(t, cl, new_env)
             ids == [i \in 1 .. N |-> i]
             F == [x \in T \X (1 .. N) |-> step(x[1])]
             Is(g) == g = [S \in SUBSET (1 .. N) |-> IF S = {} THEN s ELSE step(g[S \ {Max(S)}])]
             h == CHOOSE g : Is(g)
  <1>1. check_cache_size(s, cl, new_env) = h[1 .. N]
    <2>1. DOMAIN ids = 1 .. N
      OBVIOUS
    <2> QED BY <2>1 DEF check_cache_size, FoldLeft, MapThenFoldSet, CountOf
  <1>2. N \in Nat
    BY CountType
  <1>3. s \in T
    BY LeftSelf DEF Good
  <1>4. \A t \in T : step(t) \in T
    <2> SUFFICES ASSUME NEW t \in T PROVE step(t) \in T
      OBVIOUS
    <2>1. Good(step(t)) /\ Left(t, step(t), cl) /\ Left(s, t, cl)
      BY EvictStep
    <2> HIDE DEF step
    <2> QED BY <2>1, LeftTwice DEF Good
  <1> HIDE DEF N
  <1>5. F \in [T \X (1 .. N) -> T]
    <2> HIDE DEF T, step
    <2> QED BY <1>4
  <1>6. PICK g : IsTable(g, T, N, s, F)
    <2> HIDE DEF F, T
    <2> QED BY <1>2, <1>3, <1>5, FoldTable
  <1>7. Is(g)
    <2> HIDE DEF T, step
    <2>1. ASSUME NEW S \in SUBSET (1 .. N), S # {}
          PROVE  g[S] = step(g[S \ {Max(S)}])
      <3>1. Max(S) \in 1 .. N
        BY <1>2, <2>1, MaxIn
      <3>2. g[S \ {Max(S)}] \in T
        BY <1>6 DEF IsTable
      <3>3. g[S] = F[<<g[S \ {Max(S)}], Max(S)>>]
        BY <1>6, <2>1 DEF IsTable
      <3> QED BY <3>1, <3>2, <3>3
    <2>2. g \in [SUBSET (1 .. N) -> T] /\ g[{}] = s
      BY <1>6 DEF IsTable
    <2> QED BY <2>1, <2>2
  <1>8. Is(h)
    BY <1>7
  <1> HIDE DEF h
  <1> DEFINE f == [i \in 0 .. N |-> h[1 .. i]]
  <1>9. f[0] = s
    <2>1. 1 .. 0 = {} /\ 1 .. 0 \in SUBSET (1 .. N)
      OBVIOUS
    <2> HIDE DEF step
    <2> QED BY <1>2, <1>8, <2>1
  <1>10. ASSUME NEW i \in 1 .. N PROVE f[i] = step(f[i - 1])
    <2> HIDE DEF step
    <2>1. f[i] = h[1 .. i] /\ f[i - 1] = h[1 .. i - 1]
      BY <1>2
    <2>2. h[1 .. i] = step(h[(1 .. i) \ {Max(1 .. i)}])
      <3>1. 1 .. i \in SUBSET (1 .. N) /\ 1 .. i # {}
        BY <1>2, Positions
      <3> QED BY <1>8, <3>1
    <2> QED BY <1>2, <2>1, <2>2, Positions
  <1>11. f[N] = check_cache_size(s, cl, new_env)
    BY <1>1, <1>2
  <1> HIDE DEF f, T
  <1> DEFINE Fine(i) == f[i] \in T /\ (Settled(f[i], cl, new_env) \/ CountOf(f[i]) <= N - i)
             G == {i \in 0 .. N : Fine(i)}
  <1>12. 0 \in G
    <2>1. CountOf(s) <= N - 0
      BY <1>2 DEF N
    <2>2. Fine(0)
      BY <1>3, <1>9, <2>1
    <2> HIDE DEF Fine
    <2> QED BY <1>2, <2>2
  <1>13. ASSUME NEW i \in 1 .. N, i - 1 \in G PROVE i \in G
    <2> DEFINE t == f[i - 1]
               u == f[i]
    <2>1. t \in T /\ (Settled(t, cl, new_env) \/ CountOf(t) <= N - (i - 1)) /\ i \in 0 .. N /\ i \in Int
      BY <1>2, <1>13
    <2>2. u = EvictOne(t, cl, new_env) /\ u \in T
      BY <1>4, <1>10, <2>1
    <2> HIDE DEF t, u
    <2>3. Good(t) /\ Good(u)
      BY <2>1, <2>2 DEF T
    <2>4. CountOf(t) \in Nat /\ CountOf(u) \in Nat
      BY <2>3, CountType
    <2>5. /\ Settled(t, cl, new_env) => u = t
          /\ ~Settled(t, cl, new_env) => Settled(u, cl, new_env) \/ CountOf(u) = CountOf(t) - 1
      BY <2>2, <2>3, EvictStep
    <2>6. Settled(u, cl, new_env) \/ CountOf(u) <= N - i
      <3>1. CountOf(t) <= N - (i - 1) /\ CountOf(u) = CountOf(t) - 1 => CountOf(u) <= N - i
        BY <1>2, <2>1, <2>4
      <3> QED BY <2>1, <2>5, <3>1
    <2>7. Fine(i)
      BY <2>2, <2>6 DEF u
    <2> HIDE DEF Fine
    <2> QED BY <2>1, <2>7
  <1>14. Fine(N)
    <2> HIDE DEF Fine
    <2>1. ASSUME NEW i \in 1 .. N, i - 1 \in G PROVE i \in G
      BY <1>13, <2>1
    <2> HIDE DEF G
    <2>2. \A i \in 0 .. N : i \in G
      BY <1>2, <1>12, <2>1, InductTo
    <2>3. N \in G
      BY <1>2, <2>2
    <2> QED BY <2>3 DEF G
  <1> DEFINE r == f[N]
  <1>15. Good(r) /\ Left(s, r, cl)
    BY <1>14 DEF T
  <1>16. Settled(r, cl, new_env)
    <2>1. Settled(r, cl, new_env) \/ CountOf(r) <= N - N
      BY <1>14
    <2> HIDE DEF r
    <2>2. ~Settled(r, cl, new_env) => CountOf(r) > 0 /\ CountOf(r) \in Nat
      BY <1>15, EvictStep, CountType
    <2>3. N - N = 0
      BY <1>2
    <2>4. ~(CountOf(r) <= 0 /\ CountOf(r) > 0 /\ CountOf(r) \in Nat)
      OBVIOUS
    <2> QED BY <2>1, <2>2, <2>3, <2>4
  <1> QED BY <1>11, <1>15, <1>16

-----------------------------------------------------------------------------
(* The invariant *)

\* A client that has a task has what the task is about; a connection without one is new.
ClientRec == [status : Statuses, env : Env \cup {None}, compiler : Compiler \cup {None},
              child : BOOLEAN, found : BOOLEAN]
FitClient ==
    {x \in ClientRec :
        /\ x.status = "UNKNOWN" => x = NewClient
        /\ x.status \in {"TOINSTALL", "WAITINSTALL", "TOCOMPILE", "WAITFORCHILD"} => x.env \in Env
        /\ x.status = "WAITCREATEENV" => x.compiler \in Compiler}

ClientsFit == clients \in [Client -> FitClient]

StoreFits ==
    /\ IsReceived(received) /\ IsNative(native)
    /\ cache_size \in Nat /\ cache_size >= Total(received) + Total(native)
    /\ disk \in [Env -> Disk] /\ tarball \subseteq Compiler /\ aborted \in Aborts

TimesFit == mtime \in [Compiler -> Nat] /\ now \in Nat

CacheInv == ClientsFit /\ StoreFits /\ TimesFit

\* The variables and the state of check_cache_size.
LEMMA StateGood ==
    ASSUME StoreFits
    PROVE  /\ Good(State) /\ State \in States
           /\ State.received = received /\ State.native = native /\ State.cache_size = cache_size
           /\ State.disk = disk /\ State.tarball = tarball /\ State.aborted = aborted
  <1>1. /\ State.received = received /\ State.native = native /\ State.cache_size = cache_size
        /\ State.disk = disk /\ State.tarball = tarball /\ State.aborted = aborted
    BY DEF State
  <1>2. received \in ReceivedMaps /\ native \in NativeMaps /\ cache_size \in Int
    BY MapsIn DEF StoreFits
  <1>3. disk \in [Env -> Disk] /\ tarball \in SUBSET Compiler /\ aborted \in Aborts
    BY DEF StoreFits
  <1>4. State \in States
    BY <1>2, <1>3 DEF State, States
  <1>5. Good(State)
    BY <1>1, <1>4 DEF Good, Covers, StoreFits
  <1> QED BY <1>1, <1>4, <1>5

LEMMA BecomesFits ==
    ASSUME NEW t, Good(t), Becomes(t)
    PROVE  StoreFits' /\ State' = t
  <1>1. /\ received' = t.received /\ native' = t.native /\ cache_size' = t.cache_size
        /\ disk' = t.disk /\ tarball' = t.tarball /\ aborted' = t.aborted
    BY DEF Becomes
  <1>2. t \in States /\ IsReceived(t.received) /\ IsNative(t.native) /\ t.cache_size \in Nat
        /\ t.cache_size >= Total(t.received) + Total(t.native)
    BY DEF Good, Covers
  <1>3. t.disk \in [Env -> Disk] /\ t.tarball \in SUBSET Compiler /\ t.aborted \in Aborts
    BY <1>2, StateFields
  <1>4. StoreFits'
    BY <1>1, <1>2, <1>3 DEF StoreFits
  <1>5. t = [received |-> t.received, native |-> t.native, cache_size |-> t.cache_size, disk |-> t.disk,
             tarball |-> t.tarball, aborted |-> t.aborted]
    BY <1>2 DEF States
  <1>6. State' = [received |-> received', native |-> native', cache_size |-> cache_size', disk |-> disk',
                  tarball |-> tarball', aborted |-> aborted']
    BY DEF State
  <1> QED BY <1>1, <1>4, <1>5, <1>6

\* The fields of a client.
LEMMA ClientFields ==
    ASSUME ClientsFit, NEW c \in Client
    PROVE  /\ clients[c] \in FitClient /\ clients[c].status \in Statuses
           /\ clients[c].env \in Env \cup {None} /\ clients[c].compiler \in Compiler \cup {None}
           /\ clients[c].child \in BOOLEAN /\ clients[c].found \in BOOLEAN
           /\ clients[c].status = "UNKNOWN" => clients[c] = NewClient
           /\ clients[c].status \in {"TOINSTALL", "WAITINSTALL", "TOCOMPILE", "WAITFORCHILD"} =>
                  clients[c].env \in Env
           /\ clients[c].status = "WAITCREATEENV" => clients[c].compiler \in Compiler
  <1>1. clients[c] \in FitClient
    BY DEF ClientsFit
  <1> DEFINE x == clients[c]
  <1> HIDE DEF x
  <1>2. x \in FitClient
    BY <1>1 DEF x
  <1>3. x \in ClientRec
    BY <1>2 DEF FitClient
  <1>4. /\ x.status \in Statuses /\ x.env \in Env \cup {None} /\ x.compiler \in Compiler \cup {None}
        /\ x.child \in BOOLEAN /\ x.found \in BOOLEAN
    BY <1>3 DEF ClientRec
  <1>5. /\ x.status = "UNKNOWN" => x = NewClient
        /\ x.status \in {"TOINSTALL", "WAITINSTALL", "TOCOMPILE", "WAITFORCHILD"} => x.env \in Env
        /\ x.status = "WAITCREATEENV" => x.compiler \in Compiler
    BY <1>2 DEF FitClient
  <1> QED BY <1>2, <1>4, <1>5 DEF x

LEMMA NewFits == NewClient \in FitClient /\ NewClient.status = "UNKNOWN" /\ NewClient.env = None
  <1>1. NewClient \in ClientRec
    BY DEF NewClient, Statuses, ClientRec
  <1>2. NewClient.status = "UNKNOWN" /\ NewClient.env = None
    BY DEF NewClient
  <1> QED BY <1>1, <1>2 DEF FitClient

\* A client changes.
LEMMA ClientChanges ==
    ASSUME ClientsFit, NEW c \in Client, NEW x \in FitClient, clients' = [clients EXCEPT ![c] = x]
    PROVE  /\ ClientsFit' /\ clients'[c] = x /\ \A d \in Client : d # c => clients'[d] = clients[d]
  BY DEF ClientsFit

-----------------------------------------------------------------------------
(* The steps that call check_cache_size *)

\* The transfer of client c ends: s is the state that check_cache_size gets, t what it leaves.
Finished(s, t, c, d) ==
    LET e == clients[c].env
        cl == [clients EXCEPT ![c] = NewClient]
    IN  /\ Good(s) /\ Good(t) /\ Left(s, t, cl) /\ Settled(t, cl, e)
        /\ s.native = native /\ s.tarball = tarball
        /\ \A x \in Env : x # e => s.disk[x] = d[x]
        /\ e \in DOMAIN s.received => s.received[e].last_use = now \/ s.disk[e] = "no"
        /\ Becomes(t) /\ clients' = cl /\ mtime' = mtime /\ now' = now

LEMMA FinishStep ==
    ASSUME CacheInv, NEW c \in Client, clients[c].status \in {"TOINSTALL", "WAITINSTALL"},
           NEW cancel \in BOOLEAN, NEW d \in [Env -> Disk], finish_transfer_env(c, cancel, d)
    PROVE  \E s, t : Finished(s, t, c, d)
  <1> DEFINE e == clients[c].env
             cl == [clients EXCEPT ![c] = NewClient]
             gone == [d EXCEPT ![e] = "no"]
             size == EnvSize[e]
             entry == [last_use |-> now, size |-> size]
             more == With(received, e, entry)
             s1 == [State EXCEPT !.disk = gone]
             s2 == [State EXCEPT !.disk = d, !.cache_size = cache_size + size, !.received = more]
             s == IF cancel \/ d[e] = "no" THEN s1 ELSE s2
             t == check_cache_size(s, cl, e)
  <1>1. e \in Env /\ now \in Nat /\ StoreFits
    BY ClientFields DEF CacheInv, TimesFit
  <1>2. Good(State) /\ State \in States /\ State.received = received /\ State.cache_size = cache_size
        /\ State.native = native /\ State.tarball = tarball
    BY <1>1, StateGood
  <1>3. Becomes(t) /\ clients' = cl /\ mtime' = mtime /\ now' = now
    BY <1>2 DEF finish_transfer_env
  <1>4. size \in Nat /\ entry \in Entry /\ entry.size = size /\ entry.last_use = now
    BY <1>1, SizeAssumption DEF Entry
  <1>5. "no" \in Disk /\ gone \in [Env -> Disk] /\ gone[e] = "no" /\ \A x \in Env : x # e => gone[x] = d[x]
    BY <1>1 DEF Disk
  <1>6. /\ IsReceived(received) /\ IsNative(native) /\ cache_size \in Nat
        /\ cache_size >= Total(received) + Total(native)
        /\ Total(received) \in Nat /\ Total(native) \in Nat
    BY <1>1, TotalIs DEF StoreFits, IsReceived, IsNative
  <1>7. /\ IsReceived(more) /\ Total(more) \in Nat /\ Total(more) <= Total(received) + size
        /\ more[e] = entry
    <2>1. IsReceived(more)
      BY <1>1, <1>4, <1>6, ReceivedEdits
    <2>2. Total(more) \in Nat /\ Total(more) <= Total(received) + entry.size
      BY <1>4, <1>6, TotalWith DEF IsReceived
    <2>3. more[e] = entry
      BY DEF With
    <2> QED BY <1>4, <2>1, <2>2, <2>3
  <1> HIDE DEF gone, entry, more, size, e
  <1>8. /\ Good(s1) /\ s1.native = native /\ s1.tarball = tarball /\ s1.disk = gone
    <2>1. s1 \in States
      BY <1>2, <1>5 DEF States
    <2>2. /\ s1.received = received /\ s1.native = native /\ s1.tarball = tarball /\ s1.disk = gone
          /\ s1.cache_size = cache_size
      BY <1>2 DEF States
    <2> HIDE DEF s1
    <2> QED BY <1>6, <2>1, <2>2 DEF Good, Covers
  <1>9. /\ Good(s2) /\ s2.native = native /\ s2.tarball = tarball /\ s2.disk = d /\ s2.received = more
    <2>1. more \in ReceivedMaps /\ cache_size + size \in Int
      BY <1>4, <1>6, <1>7, MapsIn
    <2>2. s2 \in States
      BY <1>2, <2>1 DEF States
    <2>3. /\ s2.received = more /\ s2.native = native /\ s2.tarball = tarball /\ s2.disk = d
          /\ s2.cache_size = cache_size + size
      BY <1>2 DEF States
    <2>4. cache_size + size \in Nat /\ cache_size + size >= Total(more) + Total(native)
      BY <1>4, <1>6, <1>7
    <2> HIDE DEF s2
    <2> QED BY <1>6, <1>7, <2>2, <2>3, <2>4 DEF Good, Covers
  <1> HIDE DEF s1, s2
  <1>10. /\ Good(s) /\ s.native = native /\ s.tarball = tarball
         /\ \A x \in Env : x # e => s.disk[x] = d[x]
         /\ e \in DOMAIN s.received => s.received[e].last_use = now \/ s.disk[e] = "no"
    <2>1. CASE cancel \/ d[e] = "no"
      BY <1>5, <1>8, <2>1
    <2>2. CASE ~(cancel \/ d[e] = "no")
      BY <1>4, <1>7, <1>9, <2>2
    <2> QED BY <2>1, <2>2
  <1> HIDE DEF s, cl
  <1>11. Good(t) /\ Left(s, t, cl) /\ Settled(t, cl, e)
    BY <1>1, <1>10, CheckCacheSize
  <1> HIDE DEF t
  <1>12. Finished(s, t, c, d)
    BY <1>3, <1>10, <1>11 DEF Finished, e, cl
  <1> QED BY <1>12

\* icecc-create-env is done for compiler k.
Created(s, t, u, k) ==
    /\ k \in DOMAIN native /\ native[k].create_env_pipe
    /\ Good(s) /\ Good(t) /\ Left(s, t, clients) /\ Settled(t, clients, None)
    /\ s.disk = disk /\ s.tarball = tarball \cup {k}
    /\ DOMAIN s.native = DOMAIN native /\ s.native[k].name /\ k \in Fresh(s)
    /\ Good(u) /\ (u = t \/ u.aborted # "") /\ u.disk = t.disk /\ u.tarball = t.tarball /\ u.native = t.native
    /\ Becomes(u) /\ mtime' = mtime /\ now' = now

LEMMA CreateStep ==
    ASSUME CacheInv, NEW k \in Compiler, create_env_finished(k)
    PROVE  \E s, t, u : Created(s, t, u, k)
  <1> DEFINE entry == [name |-> TRUE, filetimes |-> native[k].filetimes, last_use |-> now,
                       size |-> TarSize, create_env_pipe |-> FALSE]
             more == With(native, k, entry)
             s == [State EXCEPT !.native[k] = entry, !.cache_size = @ + TarSize, !.tarball = @ \cup {k}]
             t == check_cache_size(s, clients, None)
             v == [t EXCEPT !.aborted = "iterator"]
  <1>1. k \in DOMAIN native /\ native[k].create_env_pipe /\ mtime' = mtime /\ now' = now
        /\ (Becomes(t) \/ Becomes(v))
    BY DEF create_env_finished
  <1>2. now \in Nat /\ StoreFits /\ TarSize \in Nat
    BY SizeAssumption DEF CacheInv, TimesFit
  <1>3. Good(State) /\ State \in States /\ State.received = received /\ State.cache_size = cache_size
        /\ State.native = native /\ State.tarball = tarball /\ State.disk = disk
    BY <1>2, StateGood
  <1>4. /\ IsReceived(received) /\ IsNative(native) /\ cache_size \in Nat
        /\ cache_size >= Total(received) + Total(native)
        /\ Total(received) \in Nat /\ Total(native) \in Nat
    BY <1>2, TotalIs DEF StoreFits, IsReceived, IsNative
  <1>5. entry \in NativeEntry /\ entry.size = TarSize /\ entry.name /\ entry.last_use = now
    <2>1. native[k].filetimes \in Nat
      BY <1>1, <1>4 DEF IsNative, NativeEntry
    <2> QED BY <1>2, <2>1 DEF NativeEntry
  <1> HIDE DEF entry
  <1>6. /\ IsNative(more) /\ Total(more) \in Nat /\ Total(more) <= Total(native) + TarSize
        /\ more[k] = entry /\ DOMAIN more = DOMAIN native
    <2>1. IsNative(more)
      BY <1>4, <1>5, NativeEdits
    <2>2. Total(more) \in Nat /\ Total(more) <= Total(native) + entry.size
      <3>1. Sized(native) /\ entry.size \in Nat
        BY <1>2, <1>4, <1>5 DEF IsNative
      <3> QED BY <3>1, TotalWith
    <2>3. more[k] = entry /\ DOMAIN more = DOMAIN native
      BY <1>1 DEF With
    <2> QED BY <1>5, <2>1, <2>2, <2>3
  <1>7. more = [native EXCEPT ![k] = entry]
    <2>1. native = [x \in DOMAIN native |-> native[x]]
      BY <1>4 DEF IsNative, Sized
    <2>2. DOMAIN native \cup {k} = DOMAIN native
      BY <1>1
    <2> QED BY <2>1, <2>2 DEF With
  <1> HIDE DEF more
  <1> DEFINE z == cache_size + TarSize
             tb == tarball \cup {k}
             s0 == [State EXCEPT !.native = more, !.cache_size = z, !.tarball = tb]
  <1>8. s = s0
    BY <1>3, <1>7
  <1>9. z \in Nat /\ z \in Int /\ z >= Total(received) + Total(more) /\ tb \in SUBSET Compiler /\ more \in NativeMaps
    BY <1>2, <1>4, <1>6, MapsIn DEF StoreFits
  <1> HIDE DEF z, tb
  <1>10. s0 \in States
    BY <1>3, <1>9 DEF States
  <1>11. /\ s0.received = received /\ s0.native = more /\ s0.tarball = tb /\ s0.disk = disk /\ s0.cache_size = z
    BY <1>3 DEF States
  <1> HIDE DEF s0
  <1>12. Good(s0)
    BY <1>4, <1>6, <1>9, <1>10, <1>11 DEF Good, Covers
  <1>13. Good(s) /\ s.native = more /\ s.tarball = tarball \cup {k} /\ s.disk = disk
    BY <1>8, <1>11, <1>12 DEF tb
  <1> HIDE DEF s
  <1>14. Good(t) /\ Left(s, t, clients) /\ Settled(t, clients, None)
    BY <1>2, <1>13, CheckCacheSize
  <1> HIDE DEF t
  <1>15. Good(v) /\ v.aborted # "" /\ v.disk = t.disk /\ v.tarball = t.tarball /\ v.native = t.native
    <2>1. t \in States
      BY <1>14 DEF Good
    <2>2. "iterator" \in Aborts
      BY DEF Aborts
    <2>3. v \in States
      BY <2>1, <2>2 DEF States
    <2>4. /\ v.received = t.received /\ v.native = t.native /\ v.tarball = t.tarball /\ v.disk = t.disk
          /\ v.cache_size = t.cache_size /\ v.aborted = "iterator"
      BY <2>1 DEF States
    <2> HIDE DEF v
    <2> QED BY <1>14, <2>3, <2>4 DEF Good, Covers
  <1> HIDE DEF v
  <1>16. PICK u \in {t, v} : Becomes(u)
    BY <1>1
  <1>17. Good(u) /\ (u = t \/ u.aborted # "") /\ u.disk = t.disk /\ u.tarball = t.tarball /\ u.native = t.native
    BY <1>14, <1>15, <1>16
  <1>18. k \in Fresh(s) /\ s.native[k].name
    BY <1>1, <1>5, <1>6, <1>13 DEF Fresh
  <1>19. Created(s, t, u, k)
    BY <1>1, <1>6, <1>13, <1>14, <1>16, <1>17, <1>18 DEF Created
  <1> QED BY <1>19

-----------------------------------------------------------------------------
(* The steps *)

LEMMA FinishInv ==
    ASSUME CacheInv, NEW c \in Client, NEW s, NEW t, NEW d, Finished(s, t, c, d)
    PROVE  CacheInv'
  <1>1. Good(t) /\ Becomes(t) /\ clients' = [clients EXCEPT ![c] = NewClient] /\ mtime' = mtime /\ now' = now
    BY DEF Finished
  <1>2. ClientsFit'
    BY <1>1, NewFits, ClientChanges DEF CacheInv
  <1>3. StoreFits'
    BY <1>1, BecomesFits
  <1>4. TimesFit'
    BY <1>1 DEF CacheInv, TimesFit
  <1> QED BY <1>2, <1>3, <1>4 DEF CacheInv

\* Clients that waited for a native environment get it or end.
LEMMA WaitersFit ==
    ASSUME ClientsFit, NEW k, NEW lost,
           clients' = [c \in Client |->
                         IF c \in lost THEN NewClient
                         ELSE IF c \in Waiting(k) THEN [clients[c] EXCEPT !.status = "GOTNATIVE"]
                         ELSE clients[c]]
    PROVE  ClientsFit'
  <1>1. ASSUME NEW c \in Client PROVE [clients[c] EXCEPT !.status = "GOTNATIVE"] \in FitClient
    <2> DEFINE x == clients[c]
               y == [x EXCEPT !.status = "GOTNATIVE"]
    <2>1. x \in ClientRec
      BY ClientFields DEF FitClient
    <2> HIDE DEF x
    <2>2. y \in ClientRec /\ y.status = "GOTNATIVE"
      BY <2>1 DEF ClientRec, Statuses
    <2> HIDE DEF y
    <2>3. y \in FitClient
      BY <2>2 DEF FitClient
    <2> QED BY <2>3 DEF x, y
  <1>2. \A c \in Client : clients[c] \in FitClient
    BY DEF ClientsFit
  <1>3. ASSUME NEW c \in Client PROVE clients'[c] \in FitClient
    BY <1>1, <1>2, NewFits
  <1>4. clients' = [c \in Client |-> clients'[c]]
    OBVIOUS
  <1>5. clients' \in [Client -> FitClient]
    BY <1>3, <1>4
  <1> QED BY <1>5 DEF ClientsFit

LEMMA CreateInv ==
    ASSUME CacheInv, NEW k \in Compiler, create_env_finished(k), NEW s, NEW t, NEW u, Created(s, t, u, k)
    PROVE  CacheInv'
  <1>1. ClientsFit'
    <2>1. PICK lost : clients' = [c \in Client |->
                                    IF c \in lost THEN NewClient
                                    ELSE IF c \in Waiting(k) THEN [clients[c] EXCEPT !.status = "GOTNATIVE"]
                                    ELSE clients[c]]
      BY DEF create_env_finished
    <2> QED BY <2>1, WaitersFit DEF CacheInv
  <1>2. Good(u) /\ Becomes(u) /\ mtime' = mtime /\ now' = now
    BY DEF Created
  <1>3. StoreFits'
    BY <1>2, BecomesFits
  <1>4. TimesFit'
    BY <1>2 DEF CacheInv, TimesFit
  <1> QED BY <1>1, <1>3, <1>4 DEF CacheInv

\* Only the clients and the directories change.
LEMMA StoreKept ==
    ASSUME CacheInv, UNCHANGED <<received, native, cache_size, tarball, mtime, now, aborted>>,
           ClientsFit', disk' \in [Env -> Disk]
    PROVE  CacheInv'
  BY DEF CacheInv, StoreFits, TimesFit

LEMMA TransferInv ==
    ASSUME CacheInv, NEW c \in Client, NEW e \in Env, handle_transfer_env(c, e)
    PROVE  /\ CacheInv' /\ native' = native
           /\ disk[e] # "no" => UNCHANGED <<clients, received, native, cache_size>>
           /\ clients[c].status = "UNKNOWN" /\ clients'[c].status \in {"UNKNOWN", "TOINSTALL"}
           /\ \A x \in Client : x # c => clients'[x] = clients[x]
           /\ \A x \in Env : x # e => disk'[x] = disk[x]
  <1>1. disk \in [Env -> Disk] /\ ClientsFit
    BY DEF CacheInv, StoreFits
  <1>2. UNCHANGED <<received, native, cache_size, tarball, mtime, now, aborted>>
        /\ clients[c].status = "UNKNOWN"
    BY DEF handle_transfer_env
  <1>3. CASE disk[e] = "no"
    <2> DEFINE x == clients[c]
               y == [x EXCEPT !.status = "TOINSTALL", !.env = e, !.child = TRUE]
    <2>1. clients' = [clients EXCEPT ![c] = y] /\ disk' = [disk EXCEPT ![e] = "dir"]
      BY <1>3 DEF handle_transfer_env
    <2>2. x \in ClientRec
      BY <1>1, ClientFields DEF FitClient
    <2> HIDE DEF x
    <2>3. y \in ClientRec /\ y.status = "TOINSTALL" /\ y.env = e
      BY <2>2 DEF ClientRec, Statuses
    <2> HIDE DEF y
    <2>4. y \in FitClient
      BY <2>3 DEF FitClient
    <2>5. ClientsFit' /\ clients'[c] = y /\ \A d \in Client : d # c => clients'[d] = clients[d]
      BY <1>1, <2>1, <2>4, ClientChanges
    <2>6. disk' \in [Env -> Disk] /\ \A z \in Env : z # e => disk'[z] = disk[z]
      BY <1>1, <2>1 DEF Disk
    <2> QED BY <1>2, <1>3, <2>3, <2>5, <2>6, StoreKept
  <1>4. CASE disk[e] # "no"
    <2>1. clients' = [clients EXCEPT ![c] = NewClient] /\ disk' = [disk EXCEPT ![e] = "no"]
      BY <1>4 DEF handle_transfer_env
    <2>2. ClientsFit' /\ clients'[c] = NewClient /\ \A d \in Client : d # c => clients'[d] = clients[d]
      BY <1>1, <2>1, NewFits, ClientChanges
    <2>3. disk' \in [Env -> Disk] /\ \A z \in Env : z # e => disk'[z] = disk[z]
      BY <1>1, <2>1 DEF Disk
    <2>4. clients' = clients
      <3>1. clients[c] = NewClient /\ clients \in [Client -> FitClient]
        BY <1>1, <1>2, ClientFields DEF ClientsFit
      <3> QED BY <2>1, <3>1
    <2> QED BY <1>2, <2>2, <2>3, <2>4, NewFits, StoreKept
  <1> QED BY <1>3, <1>4

LEMMA UnpackInv ==
    ASSUME CacheInv, NEW c \in Client, Unpack(c)
    PROVE  /\ CacheInv' /\ clients' = clients /\ native' = native
           /\ \A x \in Env : disk'[x] = disk[x] \/ disk[x] \in {"no", "dir"}
  <1>1. disk \in [Env -> Disk] /\ ClientsFit /\ ClientsFit'
    BY DEF CacheInv, StoreFits, Unpack, ClientsFit
  <1>2. UNCHANGED <<received, native, cache_size, tarball, mtime, now, aborted>> /\ clients' = clients
    BY DEF Unpack
  <1> DEFINE e == clients[c].env
  <1>3. disk' = [disk EXCEPT ![e] = "as"] /\ disk[e] \in {"no", "dir"}
    BY DEF Unpack
  <1> HIDE DEF e
  <1>4. disk' \in [Env -> Disk] /\ \A x \in Env : disk'[x] = disk[x] \/ disk[x] \in {"no", "dir"}
    BY <1>1, <1>3 DEF Disk
  <1> QED BY <1>1, <1>2, <1>4, StoreKept

\* What the child leaves when it has unpacked everything.
Unpacked(e) == [disk EXCEPT ![e] = IF @ = "as" THEN "whole" ELSE IF @ = "dir" THEN "bare" ELSE @]

LEMMA UnpackedDisk ==
    ASSUME disk \in [Env -> Disk], NEW e \in Env
    PROVE  Unpacked(e) \in [Env -> Disk] /\ \A x \in Env : disk[x] = "whole" => Unpacked(e)[x] = "whole"
  BY DEF Unpacked, Disk

\* handle_file_chunk_env, handle_env_install_child_done and a cancelled transfer.
LEMMA InstallStep ==
    ASSUME CacheInv, NEW c \in Client,
           handle_file_chunk_env(c) \/ handle_env_install_child_done(c) \/ CancelInstall(c)
    PROVE  /\ clients[c].status \in {"TOINSTALL", "WAITINSTALL"} /\ clients[c].env \in Env
           /\ \/ /\ UNCHANGED <<received, native, cache_size, tarball, mtime, now, aborted>>
                 /\ CacheInv' /\ clients'[c].status \in {"TOINSTALL", "WAITINSTALL"}
                 /\ \A x \in Client : x # c => clients'[x] = clients[x]
                 /\ \A x \in Env : disk[x] = "whole" => disk'[x] = "whole"
              \/ \E s, t, d : Finished(s, t, c, d) /\ \A x \in Env : disk[x] = "whole" => d[x] = "whole"
  <1> DEFINE st == clients[c].status
             e == clients[c].env
             x == clients[c]
  <1>1. st \in {"TOINSTALL", "WAITINSTALL"}
    BY DEF handle_file_chunk_env, handle_env_install_child_done, CancelInstall
  <1>2. e \in Env /\ disk \in [Env -> Disk] /\ x \in ClientRec /\ ClientsFit
    BY <1>1, ClientFields DEF CacheInv, StoreFits, FitClient
  <1> DEFINE Goes == \E s, t, d : Finished(s, t, c, d) /\ \A z \in Env : disk[z] = "whole" => d[z] = "whole"
             Stays == /\ UNCHANGED <<received, native, cache_size, tarball, mtime, now, aborted>>
                      /\ CacheInv' /\ clients'[c].status \in {"TOINSTALL", "WAITINSTALL"}
                      /\ \A z \in Client : z # c => clients'[z] = clients[z]
                      /\ \A z \in Env : disk[z] = "whole" => disk'[z] = "whole"
  <1>3. ASSUME NEW cancel \in BOOLEAN, NEW d \in [Env -> Disk], finish_transfer_env(c, cancel, d),
               \A z \in Env : disk[z] = "whole" => d[z] = "whole"
        PROVE  Goes
    <2>1. \E s, t : Finished(s, t, c, d)
      BY <1>1, <1>3, FinishStep
    <2> QED BY <1>3, <2>1
  <1>4. ASSUME NEW y \in ClientRec, y.status \in {"TOINSTALL", "WAITINSTALL"}, y.env = e,
               clients' = [clients EXCEPT ![c] = y], disk' \in [Env -> Disk],
               \A z \in Env : disk[z] = "whole" => disk'[z] = "whole",
               UNCHANGED <<received, native, cache_size, tarball, mtime, now, aborted>>
        PROVE  Stays
    <2>1. y \in FitClient
      BY <1>2, <1>4 DEF FitClient
    <2>2. ClientsFit' /\ clients'[c] = y /\ \A z \in Client : z # c => clients'[z] = clients[z]
      BY <1>2, <1>4, <2>1, ClientChanges
    <2>3. CacheInv'
      BY <1>4, <2>2, StoreKept
    <2> QED BY <1>4, <2>2, <2>3
  <1> HIDE DEF Goes, Stays
  <1> SUFFICES Stays \/ Goes
    BY <1>1, <1>2 DEF Stays, Goes
  <1>5. CASE handle_file_chunk_env(c)
    <2>1. CASE x.child
      <3> DEFINE y == [x EXCEPT !.status = "WAITINSTALL"]
      <3>1. /\ clients' = [clients EXCEPT ![c] = y] /\ disk' = disk
            /\ UNCHANGED <<received, native, cache_size, tarball, mtime, now, aborted>>
        BY <1>5, <2>1 DEF handle_file_chunk_env
      <3>2. y \in ClientRec /\ y.status = "WAITINSTALL" /\ y.env = e
        BY <1>2 DEF ClientRec, Statuses
      <3> HIDE DEF y
      <3>3. Stays
        BY <1>2, <1>4, <3>1, <3>2
      <3> QED BY <3>3
    <2>2. CASE ~x.child
      <3>1. finish_transfer_env(c, FALSE, disk)
        BY <1>5, <2>2 DEF handle_file_chunk_env
      <3>2. Goes
        BY <1>2, <1>3, <3>1
      <3> QED BY <3>2
    <2> QED BY <2>1, <2>2
  <1>6. CASE handle_env_install_child_done(c)
    <2> DEFINE d == Unpacked(e)
    <2>1. d \in [Env -> Disk] /\ \A z \in Env : disk[z] = "whole" => d[z] = "whole"
      BY <1>2, UnpackedDisk
    <2>2. CASE st = "TOINSTALL"
      <3> DEFINE y == [x EXCEPT !.child = FALSE]
      <3>1. /\ clients' = [clients EXCEPT ![c] = y] /\ disk' = d
            /\ UNCHANGED <<received, native, cache_size, tarball, mtime, now, aborted>>
        BY <1>6, <2>2 DEF handle_env_install_child_done, Unpacked
      <3>2. y \in ClientRec /\ y.status = "TOINSTALL" /\ y.env = e
        BY <1>2, <2>2 DEF ClientRec
      <3> HIDE DEF y, d
      <3>3. Stays
        BY <1>4, <2>1, <3>1, <3>2
      <3> QED BY <3>3
    <2>3. CASE st # "TOINSTALL"
      <3>1. finish_transfer_env(c, FALSE, d)
        BY <1>6, <2>3 DEF handle_env_install_child_done, Unpacked
      <3> HIDE DEF d
      <3>2. Goes
        BY <1>3, <2>1, <3>1
      <3> QED BY <3>2
    <2> QED BY <2>2, <2>3
  <1>7. CASE CancelInstall(c)
    <2>1. finish_transfer_env(c, TRUE, disk)
      BY <1>7 DEF CancelInstall
    <2> QED BY <1>2, <1>3, <2>1
  <1> QED BY <1>5, <1>6, <1>7

LEMMA CompileInv ==
    ASSUME CacheInv, NEW c \in Client, NEW e \in Env, handle_compile_file(c, e)
    PROVE  /\ CacheInv' /\ disk' = disk /\ native' = native
           /\ \A x \in Client : x # c => clients'[x] = clients[x]
           /\ clients[c].status = "UNKNOWN" /\ clients'[c].status = "TOCOMPILE"
  <1>1. disk \in [Env -> Disk] /\ ClientsFit
    BY DEF CacheInv, StoreFits
  <1> DEFINE x == clients[c]
             y == [x EXCEPT !.status = "TOCOMPILE", !.env = e]
  <1>2. /\ UNCHANGED <<received, native, cache_size, tarball, mtime, now, aborted>>
        /\ clients' = [clients EXCEPT ![c] = y] /\ disk' = disk /\ x.status = "UNKNOWN"
    BY DEF handle_compile_file
  <1>3. x \in ClientRec
    BY <1>1, ClientFields DEF FitClient
  <1>4. y \in ClientRec /\ y.status = "TOCOMPILE" /\ y.env = e
    <2> HIDE DEF x
    <2> QED BY <1>3 DEF ClientRec, Statuses
  <1> HIDE DEF y
  <1>5. y \in FitClient
    BY <1>4 DEF FitClient
  <1>6. ClientsFit' /\ clients'[c] = y /\ \A d \in Client : d # c => clients'[d] = clients[d]
    BY <1>1, <1>2, <1>5, ClientChanges
  <1> QED BY <1>1, <1>2, <1>4, <1>6, StoreKept

\* The environment of a compilation is marked as used.
LEMMA TouchedIs ==
    ASSUME StoreFits, TimesFit, NEW e \in Env
    PROVE  /\ IsReceived(Touched(e)) /\ Total(Touched(e)) = Total(received) /\ e \in DOMAIN Touched(e)
  <1> DEFINE v == [last_use |-> now, size |-> IF e \in DOMAIN received THEN received[e].size ELSE 0]
  <1>1. IsReceived(received) /\ Sized(received) /\ now \in Nat
    BY DEF StoreFits, IsReceived, TimesFit
  <1>2. v.size = IF e \in DOMAIN received THEN received[e].size ELSE 0
    OBVIOUS
  <1>3. v.size \in Nat
    BY <1>1, <1>2 DEF Sized
  <1>4. v \in Entry
    <2>1. v.last_use = now /\ v = [last_use |-> v.last_use, size |-> v.size]
      OBVIOUS
    <2> HIDE DEF v
    <2> QED BY <1>1, <1>3, <2>1 DEF Entry
  <1>5. Touched(e) = With(received, e, v)
    BY DEF Touched
  <1> HIDE DEF v
  <1>6. IsReceived(With(received, e, v))
    BY <1>1, <1>4, ReceivedEdits
  <1>7. Total(With(received, e, v)) = Total(received)
    <2>1. /\ Total(received) \in Nat /\ Total(With(received, e, v)) \in Nat
          /\ e \in DOMAIN received => Total(With(received, e, v)) + received[e].size = Total(received) + v.size
          /\ e \notin DOMAIN received => Total(With(received, e, v)) = Total(received) + v.size
      BY <1>1, <1>3, TotalWith
    <2>2. CASE e \in DOMAIN received
      <3>1. v.size = received[e].size
        BY <1>2, <2>2
      <3> QED BY <1>3, <2>1, <2>2, <3>1
    <2>3. CASE e \notin DOMAIN received
      <3>1. v.size = 0
        BY <1>2, <2>3
      <3> QED BY <2>1, <2>3, <3>1
    <2> QED BY <2>2, <2>3
  <1>8. e \in DOMAIN With(received, e, v)
    BY DEF With
  <1> QED BY <1>5, <1>6, <1>7, <1>8

LEMMA StartInv ==
    ASSUME CacheInv, NEW c \in Client, StartCompile(c)
    PROVE  /\ CacheInv' /\ disk' = disk /\ native' = native
           /\ \A x \in Client : x # c => clients'[x] = clients[x]
           /\ clients[c].status = "TOCOMPILE" /\ clients'[c].status = "WAITFORCHILD"
  <1> DEFINE x == clients[c]
             e == clients[c].env
             h == HasAs(disk, e)
             y == [x EXCEPT !.status = "WAITFORCHILD", !.found = h]
  <1>1. /\ UNCHANGED <<native, cache_size, disk, tarball, mtime, now, aborted>>
        /\ clients' = [clients EXCEPT ![c] = y] /\ received' = Touched(e) /\ x.status = "TOCOMPILE"
    BY DEF StartCompile
  <1>2. ClientsFit /\ StoreFits /\ TimesFit
    BY DEF CacheInv
  <1>3. x \in ClientRec /\ e \in Env
    BY <1>1, <1>2, ClientFields DEF FitClient
  <1>4. h \in BOOLEAN
    BY DEF HasAs
  <1>5. y \in ClientRec /\ y.status = "WAITFORCHILD" /\ y.env = e
    <2> HIDE DEF h
    <2> QED BY <1>3, <1>4 DEF ClientRec, Statuses
  <1> HIDE DEF y
  <1>6. y \in FitClient
    BY <1>3, <1>5 DEF FitClient
  <1>7. ClientsFit' /\ clients'[c] = y /\ \A d \in Client : d # c => clients'[d] = clients[d]
    BY <1>1, <1>2, <1>6, ClientChanges
  <1>8. IsReceived(received') /\ Total(received') = Total(received)
    BY <1>1, <1>2, <1>3, TouchedIs
  <1>9. StoreFits'
    BY <1>1, <1>2, <1>8 DEF StoreFits
  <1>10. TimesFit'
    BY <1>1, <1>2 DEF TimesFit
  <1> QED BY <1>1, <1>5, <1>7, <1>9, <1>10 DEF CacheInv

LEMMA DoneInv ==
    ASSUME CacheInv, NEW c \in Client, handle_compile_done(c)
    PROVE  /\ CacheInv' /\ native' = native
           /\ \A x \in Client : x # c => clients'[x] = clients[x]
           /\ clients[c].status = "WAITFORCHILD" /\ clients'[c].status = "UNKNOWN"
           /\ \A x \in Env : disk'[x] = disk[x] \/ x = clients[c].env
  <1> DEFINE e == clients[c].env
             s == [State EXCEPT !.received = Touched(e)]
             t == remove_environment(s, e)
  <1>1. /\ clients' = [clients EXCEPT ![c] = NewClient] /\ mtime' = mtime /\ now' = now
        /\ Becomes(s) \/ Becomes(t)
        /\ clients[c].status = "WAITFORCHILD"
    BY DEF handle_compile_done
  <1>2. ClientsFit /\ StoreFits /\ TimesFit
    BY DEF CacheInv
  <1>3. e \in Env
    BY <1>1, <1>2, ClientFields
  <1>4. ClientsFit' /\ clients'[c] = NewClient /\ \A d \in Client : d # c => clients'[d] = clients[d]
    BY <1>1, <1>2, NewFits, ClientChanges
  <1>5. Good(State) /\ State \in States /\ State.received = received /\ State.cache_size = cache_size
        /\ State.native = native /\ State.tarball = tarball /\ State.disk = disk
    BY <1>2, StateGood
  <1>6. IsReceived(Touched(e)) /\ Total(Touched(e)) = Total(received) /\ e \in DOMAIN Touched(e)
    BY <1>2, <1>3, TouchedIs
  <1>7. Good(s) /\ s.native = native /\ s.disk = disk /\ s.tarball = tarball /\ e \in DOMAIN s.received
    <2>1. Touched(e) \in ReceivedMaps
      BY <1>6, MapsIn
    <2>2. s \in States
      BY <1>5, <2>1 DEF States
    <2>3. /\ s.received = Touched(e) /\ s.native = native /\ s.tarball = tarball /\ s.disk = disk
          /\ s.cache_size = cache_size
      BY <1>5 DEF States
    <2> HIDE DEF s, e
    <2> QED BY <1>2, <1>6, <2>2, <2>3 DEF Good, Covers, StoreFits
  <1> HIDE DEF s
  <1>8. Good(t) /\ t.native = native /\ t.tarball = tarball /\ t.disk = [disk EXCEPT ![e] = "no"]
    BY <1>7, RemoveReceived
  <1> HIDE DEF t, e
  <1>9. PICK u \in {s, t} : Becomes(u)
    BY <1>1
  <1>10. Good(u) /\ u.native = native /\ u.tarball = tarball /\ u.disk \in {disk, [disk EXCEPT ![e] = "no"]}
    BY <1>7, <1>8, <1>9
  <1>11. StoreFits' /\ native' = native /\ tarball' = tarball /\ disk' \in {disk, [disk EXCEPT ![e] = "no"]}
    BY <1>9, <1>10, BecomesFits DEF Becomes
  <1>12. \A x \in Env : disk'[x] = disk[x] \/ x = e
    BY <1>2, <1>11 DEF StoreFits
  <1>13. TimesFit'
    BY <1>1, <1>2, <1>11 DEF TimesFit
  <1> QED BY <1>1, <1>4, <1>11, <1>12, <1>13, NewFits DEF CacheInv, e

LEMMA EndInv ==
    ASSUME CacheInv, NEW c \in Client, handle_end(c)
    PROVE  /\ CacheInv' /\ disk' = disk /\ native' = native
           /\ \A x \in Client : x # c => clients'[x] = clients[x]
           /\ clients[c].status \notin {"TOINSTALL", "WAITINSTALL"} /\ clients'[c].status = "UNKNOWN"
  <1>1. /\ UNCHANGED <<received, native, cache_size, disk, tarball, mtime, now, aborted>>
        /\ clients' = [clients EXCEPT ![c] = NewClient]
        /\ clients[c].status \notin {"TOINSTALL", "WAITINSTALL"}
    BY DEF handle_end
  <1>2. ClientsFit /\ disk' \in [Env -> Disk]
    BY <1>1 DEF CacheInv, StoreFits
  <1>3. ClientsFit' /\ clients'[c] = NewClient /\ \A d \in Client : d # c => clients'[d] = clients[d]
    BY <1>1, <1>2, NewFits, ClientChanges
  <1> QED BY <1>1, <1>2, <1>3, NewFits, StoreKept

LEMMA FailedInv ==
    ASSUME CacheInv, NEW k \in Compiler, create_env_failed(k)
    PROVE  /\ CacheInv' /\ disk' = disk
           /\ native' = Without(native, k)
           /\ \A c \in Client : \/ clients'[c] = clients[c]
                                \/ clients[c].status = "WAITCREATEENV" /\ clients'[c].status = "UNKNOWN"
  <1>1. /\ UNCHANGED <<received, cache_size, disk, tarball, mtime, now, aborted>>
        /\ clients' = [c \in Client |-> IF c \in Waiting(k) THEN NewClient ELSE clients[c]]
        /\ native' = Without(native, k) /\ k \in DOMAIN native
    BY DEF create_env_failed
  <1>2. ClientsFit /\ StoreFits /\ TimesFit
    BY DEF CacheInv
  <1>3. ClientsFit'
    <2>1. \A c \in Client : clients[c] \in FitClient
      BY <1>2 DEF ClientsFit
    <2> QED BY <1>1, <2>1, NewFits DEF ClientsFit
  <1>4. /\ IsNative(native') /\ Total(native) \in Nat /\ native[k].size \in Nat /\ Total(native') \in Nat
        /\ Total(native) = Total(native') + native[k].size
    BY <1>1, <1>2, NativeEdits DEF StoreFits
  <1>5. Total(received) \in Nat /\ Total(received') = Total(received) /\ cache_size \in Nat
        /\ cache_size >= Total(received) + Total(native)
    BY <1>1, <1>2, TotalIs DEF StoreFits, IsReceived
  <1>6. cache_size' \in Nat /\ cache_size' >= Total(received') + Total(native')
    BY <1>1, <1>4, <1>5
  <1>7. StoreFits'
    BY <1>1, <1>2, <1>4, <1>6 DEF StoreFits
  <1>9. TimesFit'
    BY <1>1, <1>2 DEF TimesFit
  <1>10. \A c \in Client : \/ clients'[c] = clients[c]
                           \/ clients[c].status = "WAITCREATEENV" /\ clients'[c].status = "UNKNOWN"
    BY <1>1, NewFits DEF Waiting
  <1> QED BY <1>1, <1>3, <1>7, <1>9, <1>10 DEF CacheInv

LEMMA ClockInv ==
    ASSUME CacheInv, Tick \/ \E k \in Compiler : Upgrade(k) \/ LoseTarball(k)
    PROVE  CacheInv' /\ disk' = disk /\ native' = native /\ clients' = clients
  <1>1. UNCHANGED <<clients, received, native, cache_size, disk, aborted>> /\ ClientsFit /\ StoreFits /\ TimesFit
    BY DEF CacheInv, Tick, Upgrade, LoseTarball
  <1>2. tarball' \subseteq tarball
    BY DEF Tick, Upgrade, LoseTarball
  <1>3. ClientsFit' /\ StoreFits'
    BY <1>1, <1>2 DEF ClientsFit, StoreFits
  <1>4. CASE Tick
    <2>1. now' = now + 1 /\ mtime' = mtime
      BY <1>4 DEF Tick
    <2> QED BY <1>1, <1>3, <2>1 DEF CacheInv, TimesFit
  <1>5. CASE \E k \in Compiler : Upgrade(k)
    <2>1. PICK k \in Compiler, t \in 0 .. Upgrades : mtime' = [mtime EXCEPT ![k] = t] /\ now' = now
      BY <1>5 DEF Upgrade
    <2>2. t \in Nat
      BY TimeAssumption
    <2> QED BY <1>1, <1>3, <2>1, <2>2 DEF CacheInv, TimesFit
  <1>6. CASE \E k \in Compiler : LoseTarball(k)
    <2>1. UNCHANGED <<mtime, now>>
      BY <1>6 DEF LoseTarball
    <2> QED BY <1>1, <1>3, <2>1 DEF CacheInv, TimesFit
  <1> QED BY <1>4, <1>5, <1>6

\* An entry of the native environments is set, and its size stays what it was.
LEMMA NativeSet ==
    ASSUME StoreFits, NEW k \in Compiler, NEW v \in NativeEntry, native' = With(native, k, v),
           v.size = IF k \in DOMAIN native THEN native[k].size ELSE 0,
           UNCHANGED <<received, cache_size, disk, aborted>>, tarball' \subseteq Compiler
    PROVE  /\ StoreFits' /\ DOMAIN native' = DOMAIN native \cup {k} /\ native'[k] = v
           /\ \A x \in DOMAIN native : x # k => native'[x] = native[x]
  <1>1. IsNative(native) /\ Sized(native)
    BY DEF StoreFits, IsNative
  <1>2. v.size \in Nat
    BY DEF NativeEntry
  <1>3. IsNative(native')
    BY <1>1, NativeEdits
  <1>4. /\ Total(native) \in Nat /\ Total(native') \in Nat
        /\ k \in DOMAIN native => Total(native') + native[k].size = Total(native) + v.size
        /\ k \notin DOMAIN native => Total(native') = Total(native) + v.size
    BY <1>1, <1>2, TotalWith
  <1>5. Total(native') = Total(native)
    <2>1. CASE k \in DOMAIN native
      <3>1. v.size = native[k].size
        BY <2>1
      <3> QED BY <1>2, <1>4, <2>1, <3>1
    <2>2. CASE k \notin DOMAIN native
      <3>1. v.size = 0
        BY <2>2
      <3> QED BY <1>4, <2>2, <3>1
    <2> QED BY <2>1, <2>2
  <1>6. StoreFits'
    BY <1>3, <1>5 DEF StoreFits
  <1>7. /\ DOMAIN native' = DOMAIN native \cup {k} /\ native'[k] = v
        /\ \A x \in DOMAIN native : x # k => native'[x] = native[x]
    BY DEF With
  <1> QED BY <1>6, <1>7

LEMMA NoNativeIs ==
    /\ NoNative \in NativeEntry /\ NoNative.name = FALSE /\ NoNative.size = 0
    /\ NoNative.filetimes = 0 /\ NoNative.create_env_pipe = FALSE
  BY DEF NoNative, NativeEntry

\* What handle_get_native_env finds under k.
FoundNative(k) == IF k \in DOMAIN native THEN native[k] ELSE NoNative

LEMMA FoundNativeIs ==
    ASSUME CacheInv, NEW k \in Compiler
    PROVE  /\ FoundNative(k) \in NativeEntry
           /\ FoundNative(k).size = IF k \in DOMAIN native THEN native[k].size ELSE 0
           /\ FoundNative(k).name => k \in DOMAIN native
           /\ k \in DOMAIN native => FoundNative(k) = native[k]
  <1>1. CASE k \in DOMAIN native
    <2>1. native[k] \in NativeEntry
      BY <1>1 DEF CacheInv, StoreFits, IsNative
    <2> QED BY <1>1, <2>1 DEF FoundNative
  <1>2. CASE k \notin DOMAIN native
    <2>1. FoundNative(k) = NoNative
      BY <1>2 DEF FoundNative
    <2> QED BY <1>2, <2>1, NoNativeIs
  <1> QED BY <1>1, <1>2

LEMMA GetNativeInv ==
    ASSUME CacheInv, NEW c \in Client, NEW k \in Compiler, handle_get_native_env(c, k)
    PROVE  /\ CacheInv' /\ disk' = disk /\ mtime' = mtime
           /\ \A x \in Client : x # c => clients'[x] = clients[x]
           /\ clients[c].status = "UNKNOWN"
           /\ clients'[c].status \in {"UNKNOWN", "GOTNATIVE", "WAITCREATEENV"}
           /\ \A x \in DOMAIN native \cap DOMAIN native' :
                  native[x].create_env_pipe => native'[x].create_env_pipe
           /\ clients'[c].status = "GOTNATIVE" =>
                  clients'[c].compiler = k /\ k \in DOMAIN native' /\ native'[k].name
  <1> DEFINE x == clients[c]
             entry == FoundNative(k)
             got == [x EXCEPT !.status = "GOTNATIVE", !.compiler = k]
             wait == [x EXCEPT !.status = "WAITCREATEENV", !.compiler = k]
  <1>1. UNCHANGED <<received, cache_size, disk, mtime, now, aborted>> /\ x.status = "UNKNOWN"
    BY DEF handle_get_native_env
  <1>2. ClientsFit /\ StoreFits /\ TimesFit /\ now \in Nat /\ mtime[k] \in Nat
    BY DEF CacheInv, TimesFit
  <1>3. x \in ClientRec
    BY <1>2, ClientFields DEF FitClient
  <1>4. /\ entry \in NativeEntry /\ entry.size = IF k \in DOMAIN native THEN native[k].size ELSE 0
        /\ entry.name => k \in DOMAIN native
    BY FoundNativeIs
  <1>5. k \in DOMAIN native => entry = native[k]
    BY FoundNativeIs
  <1>6. /\ got \in FitClient /\ got.status = "GOTNATIVE" /\ got.compiler = k
        /\ wait \in FitClient /\ wait.status = "WAITCREATEENV"
    <2> HIDE DEF x
    <2>1. got \in ClientRec /\ got.status = "GOTNATIVE" /\ got.compiler = k
      BY <1>3 DEF ClientRec, Statuses
    <2>2. wait \in ClientRec /\ wait.status = "WAITCREATEENV" /\ wait.compiler = k
      BY <1>3 DEF ClientRec, Statuses
    <2> HIDE DEF got, wait
    <2> QED BY <2>1, <2>2 DEF FitClient
  <1>7. TimesFit'
    BY <1>1, <1>2 DEF TimesFit
  <1>8. entry.name \in BOOLEAN /\ entry.create_env_pipe \in BOOLEAN
    BY <1>4 DEF NativeEntry
  <1>9. /\ entry.name =>
             /\ \/ clients' = [clients EXCEPT ![c] = got] /\ native' = [native EXCEPT ![k].last_use = now]
                \/ clients' = [clients EXCEPT ![c] = NewClient] /\ native' = native
             /\ tarball' = IF Outdated(k) THEN tarball \ {k} ELSE tarball
        /\ ~entry.name =>
             /\ clients' = [clients EXCEPT ![c] = wait]
             /\ native' = With(native, k, IF entry.create_env_pipe THEN entry
                                          ELSE [entry EXCEPT !.filetimes = mtime[k], !.create_env_pipe = TRUE])
             /\ tarball' = tarball
    BY <1>8 DEF handle_get_native_env, FoundNative
  <1> HIDE DEF entry, got, wait
  <1>10. CASE entry.name
    <2>1. k \in DOMAIN native /\ entry = native[k]
      BY <1>4, <1>5, <1>10
    <2> DEFINE v == [entry EXCEPT !.last_use = now]
    <2>2. /\ v \in NativeEntry /\ v.size = entry.size /\ v.filetimes = entry.filetimes /\ v.name = entry.name
          /\ v.create_env_pipe = entry.create_env_pipe
      BY <1>2, <1>4 DEF NativeEntry
    <2>3. native = With(native, k, entry) /\ [native EXCEPT ![k].last_use = now] = With(native, k, v)
      <3>1. native = [y \in DOMAIN native |-> native[y]]
        BY <1>2 DEF StoreFits, IsNative, Sized
      <3>2. DOMAIN native \cup {k} = DOMAIN native
        BY <2>1
      <3> QED BY <2>1, <3>1, <3>2 DEF With
    <2> HIDE DEF v
    <2>4. PICK w \in {v, entry} : /\ native' = With(native, k, w)
                                  /\ \/ w = v /\ clients' = [clients EXCEPT ![c] = got]
                                     \/ clients' = [clients EXCEPT ![c] = NewClient]
      BY <1>9, <1>10, <2>3
    <2>5. /\ w \in NativeEntry /\ w.size = entry.size /\ w.filetimes = entry.filetimes /\ w.name = entry.name
          /\ w.create_env_pipe = entry.create_env_pipe
      BY <1>4, <2>2, <2>4
    <2>6. tarball' \subseteq tarball
      BY <1>9, <1>10
    <2>7. tarball' \subseteq Compiler
      BY <1>2, <2>6 DEF StoreFits
    <2>8. w.size = IF k \in DOMAIN native THEN native[k].size ELSE 0
      BY <1>4, <2>5
    <2>9. /\ StoreFits' /\ DOMAIN native' = DOMAIN native \cup {k} /\ native'[k] = w
          /\ \A y \in DOMAIN native : y # k => native'[y] = native[y]
      BY <1>1, <1>2, <2>4, <2>5, <2>7, <2>8, NativeSet
    <2>12. /\ ClientsFit' /\ \A d \in Client : d # c => clients'[d] = clients[d]
           /\ clients'[c] \in {got, NewClient}
      BY <1>2, <1>6, <2>4, NewFits, ClientChanges
    <2>13. CacheInv'
      BY <1>7, <2>9, <2>12 DEF CacheInv
    <2>14. \A y \in DOMAIN native \cap DOMAIN native' : native[y].create_env_pipe => native'[y].create_env_pipe
      BY <2>1, <2>5, <2>9
    <2>15. /\ clients'[c].status \in {"UNKNOWN", "GOTNATIVE", "WAITCREATEENV"}
           /\ clients'[c].status = "GOTNATIVE" => clients'[c].compiler = k
      BY <1>6, <2>12, NewFits
    <2> QED BY <1>1, <1>10, <2>5, <2>9, <2>12, <2>13, <2>14, <2>15
  <1>11. CASE ~entry.name
    <2> DEFINE z == [entry EXCEPT !.filetimes = mtime[k], !.create_env_pipe = TRUE]
               w == IF entry.create_env_pipe THEN entry ELSE z
    <2>1. /\ z \in NativeEntry /\ z.size = entry.size /\ z.filetimes = mtime[k] /\ z.name = entry.name
          /\ z.create_env_pipe = TRUE
      BY <1>2, <1>4 DEF NativeEntry
    <2> HIDE DEF z
    <2>3. /\ w \in NativeEntry /\ w.size = entry.size /\ w.create_env_pipe
      BY <1>4, <1>11, <2>1
    <2>4. /\ native' = With(native, k, w) /\ tarball' = tarball /\ clients' = [clients EXCEPT ![c] = wait]
      BY <1>9, <1>11 DEF z
    <2> HIDE DEF w
    <2>5. tarball' \subseteq Compiler /\ w.size = IF k \in DOMAIN native THEN native[k].size ELSE 0
      BY <1>2, <1>4, <2>3, <2>4 DEF StoreFits
    <2>6. /\ StoreFits' /\ DOMAIN native' = DOMAIN native \cup {k} /\ native'[k] = w
          /\ \A y \in DOMAIN native : y # k => native'[y] = native[y]
      BY <1>1, <1>2, <2>3, <2>4, <2>5, NativeSet
    <2>8. ClientsFit' /\ clients'[c] = wait /\ \A d \in Client : d # c => clients'[d] = clients[d]
      BY <1>2, <1>6, <2>4, ClientChanges
    <2>9. CacheInv'
      BY <1>7, <2>6, <2>8 DEF CacheInv
    <2>10. \A y \in DOMAIN native \cap DOMAIN native' : native[y].create_env_pipe => native'[y].create_env_pipe
      BY <2>3, <2>6
    <2> QED BY <1>1, <1>6, <2>8, <2>9, <2>10
  <1> QED BY <1>10, <1>11

-----------------------------------------------------------------------------
(* All steps *)

LEMMA CacheInvInit ==
    ASSUME Init
    PROVE  CacheInv
  <1>1. ClientsFit
    BY NewFits DEF Init, ClientsFit
  <1>2. TimesFit
    BY TimeAssumption DEF Init, TimesFit
  <1>3. received = <<>> /\ native = <<>> /\ cache_size = 0 /\ tarball = {} /\ aborted = ""
    BY DEF Init
  <1> DEFINE f == <<>>
  <1>4. DOMAIN f = {} /\ f = [x \in DOMAIN f |-> f[x]]
    OBVIOUS
  <1> HIDE DEF f
  <1>5. Sized(f) /\ IsReceived(f) /\ IsNative(f)
    BY <1>4, FS_EmptySet DEF Sized, IsReceived, IsNative
  <1>6. Total(f) = 0
    <2>1. Units(SizesOf(f), DOMAIN f) = {}
      BY <1>4 DEF Units
    <2> QED BY <1>5, <2>1, TotalIs, FS_EmptySet
  <1>7. disk \in [Env -> Disk] /\ aborted \in Aborts
    BY DEF Init, Disk, Aborts
  <1>8. cache_size \in Nat /\ cache_size >= Total(received) + Total(native)
    <2>1. Total(received) = 0 /\ Total(native) = 0
      BY <1>3, <1>6 DEF f
    <2>2. cache_size = 0
      BY <1>3
    <2> QED BY <2>1, <2>2
  <1>9. StoreFits
    BY <1>3, <1>5, <1>7, <1>8 DEF StoreFits, f
  <1> QED BY <1>1, <1>2, <1>9 DEF CacheInv

Installing == {"TOINSTALL", "WAITINSTALL"}

\* The step calls no check_cache_size and gives nobody a native environment.
Quiet ==
    /\ \A c \in Client : \/ clients'[c] = clients[c]
                         \/ /\ clients'[c].status # "GOTNATIVE"
                            /\ clients[c].status \in Installing => clients'[c].status \in Installing
    /\ \A k \in DOMAIN native \cap DOMAIN native' : native[k].create_env_pipe => native'[k].create_env_pipe
    /\ \A e \in Env : disk[e] = "whole" /\ disk'[e] # "whole" =>
          \/ UNCHANGED <<clients, received, native, cache_size>>
          \/ \E c \in Client : /\ clients[c].status = "WAITFORCHILD" /\ clients[c].env = e
                               /\ clients'[c].status = "UNKNOWN"

\* A transfer ends: the directories that were whole are whole when check_cache_size starts.
Finishes ==
    \E c \in Client :
       /\ clients[c].status \in Installing /\ clients[c].env \in Env
       /\ \E s, t, d : Finished(s, t, c, d) /\ \A x \in Env : disk[x] = "whole" => d[x] = "whole"

Creates == \E k \in Compiler : create_env_finished(k) /\ \E s, t, u : Created(s, t, u, k)

Gets == \E c \in Client, k \in Compiler : handle_get_native_env(c, k)

LEMMA StepCases ==
    ASSUME CacheInv, Next
    PROVE  CacheInv' /\ (Quiet \/ Gets \/ Finishes \/ Creates)
  <1> SUFFICES CacheInv' /\ (Quiet \/ Gets \/ Finishes \/ Creates)
    OBVIOUS
  <1>1. ASSUME NEW c \in Client, NEW e \in Env, handle_transfer_env(c, e) PROVE CacheInv' /\ Quiet
    BY <1>1, TransferInv DEF Quiet, Installing
  <1>2. ASSUME NEW c \in Client, NEW e \in Env, handle_compile_file(c, e) PROVE CacheInv' /\ Quiet
    BY <1>2, CompileInv DEF Quiet, Installing
  <1>3. ASSUME NEW c \in Client, NEW k \in Compiler, handle_get_native_env(c, k) PROVE CacheInv' /\ Gets
    BY <1>3, GetNativeInv DEF Gets
  <1>4. ASSUME NEW c \in Client, Unpack(c) PROVE CacheInv' /\ Quiet
    <2>1. /\ CacheInv' /\ clients' = clients /\ native' = native
          /\ \A x \in Env : disk'[x] = disk[x] \/ disk[x] \in {"no", "dir"}
      BY <1>4, UnpackInv
    <2> QED BY <2>1 DEF Quiet
  <1>5. ASSUME NEW c \in Client,
               handle_file_chunk_env(c) \/ handle_env_install_child_done(c) \/ CancelInstall(c)
        PROVE  CacheInv' /\ (Quiet \/ Finishes)
    <2> DEFINE Goes(s, t, d) == Finished(s, t, c, d) /\ \A x \in Env : disk[x] = "whole" => d[x] = "whole"
    <2>1. /\ clients[c].status \in Installing /\ clients[c].env \in Env
          /\ \/ /\ UNCHANGED <<received, native, cache_size, tarball, mtime, now, aborted>>
                /\ CacheInv' /\ clients'[c].status \in Installing
                /\ \A x \in Client : x # c => clients'[x] = clients[x]
                /\ \A x \in Env : disk[x] = "whole" => disk'[x] = "whole"
             \/ \E s, t, d : Goes(s, t, d)
      BY <1>5, InstallStep DEF Installing
    <2>2. CASE \E s, t, d : Goes(s, t, d)
      <3>1. PICK s, t, d : Goes(s, t, d)
        BY <2>2
      <3>2. CacheInv'
        BY <3>1, FinishInv
      <3>3. Finishes
        BY <2>1, <3>1 DEF Finishes
      <3> QED BY <3>2, <3>3
    <2>3. CASE ~\E s, t, d : Goes(s, t, d)
      <3> HIDE DEF Goes
      <3>1. /\ native' = native
            /\ CacheInv' /\ clients'[c].status \in Installing
            /\ \A x \in Client : x # c => clients'[x] = clients[x]
            /\ \A x \in Env : disk[x] = "whole" => disk'[x] = "whole"
        BY <2>1, <2>3
      <3> QED BY <3>1 DEF Quiet, Installing
    <2> QED BY <2>2, <2>3
  <1>6. ASSUME NEW c \in Client, StartCompile(c) PROVE CacheInv' /\ Quiet
    BY <1>6, StartInv DEF Quiet, Installing
  <1>7. ASSUME NEW c \in Client, handle_compile_done(c) PROVE CacheInv' /\ Quiet
    BY <1>7, DoneInv DEF Quiet, Installing
  <1>8. ASSUME NEW c \in Client, handle_end(c) PROVE CacheInv' /\ Quiet
    BY <1>8, EndInv DEF Quiet, Installing
  <1>9. ASSUME NEW k \in Compiler, create_env_finished(k) PROVE CacheInv' /\ Creates
    <2>1. PICK s, t, u : Created(s, t, u, k)
      BY <1>9, CreateStep
    <2>2. CacheInv'
      BY <1>9, <2>1, CreateInv
    <2> QED BY <1>9, <2>1, <2>2 DEF Creates
  <1>10. ASSUME NEW k \in Compiler, create_env_failed(k) PROVE CacheInv' /\ Quiet
    <2>1. /\ CacheInv' /\ disk' = disk /\ native' = Without(native, k)
          /\ \A c \in Client : \/ clients'[c] = clients[c]
                               \/ clients[c].status = "WAITCREATEENV" /\ clients'[c].status = "UNKNOWN"
      BY <1>10, FailedInv
    <2>2. \A x \in DOMAIN native \cap DOMAIN native' : native'[x] = native[x]
      BY <2>1 DEF Without
    <2> QED BY <2>1, <2>2 DEF Quiet, Installing
  <1>11. ASSUME Tick \/ \E k \in Compiler : Upgrade(k) \/ LoseTarball(k) PROVE CacheInv' /\ Quiet
    BY <1>11, ClockInv DEF Quiet
  <1> QED BY <1>1, <1>2, <1>3, <1>4, <1>5, <1>6, <1>7, <1>8, <1>9, <1>10, <1>11 DEF Next

LEMMA CacheInvStep ==
    ASSUME CacheInv, [Next]_vars
    PROVE  CacheInv'
  <1>1. CASE Next
    BY <1>1, StepCases
  <1>2. CASE UNCHANGED vars
    BY <1>2 DEF vars, CacheInv, ClientsFit, StoreFits, TimesFit
  <1> QED BY <1>1, <1>2

LEMMA CacheInvHolds == Spec => []CacheInv
  <1>1. Init => CacheInv
    BY CacheInvInit
  <1>2. CacheInv /\ [Next]_vars => CacheInv'
    BY CacheInvStep
  <1> QED BY <1>1, <1>2, PTL DEF Spec

-----------------------------------------------------------------------------
(* The theorems *)

\* cache_size, to which the sizes of the environments are added in finish_transfer_env and
\* create_env_finished and from which they are taken in remove_environment and
\* remove_native_environment, always covers the sizes of the environments in both maps: the
\* assertions of the daemon on it hold, whatever goes, fails or is made twice.
THEOREM CacheSizeIsEnough == Spec => []CacheSizeCovers
  <1>1. CacheInv => CacheSizeCovers
    BY DEF CacheInv, StoreFits, CacheSizeCovers
  <1> QED BY <1>1, CacheInvHolds, PTL

\* What create_env_finished does to the clients.
LEMMA WaitersOnly ==
    ASSUME NEW k \in Compiler, create_env_finished(k), NEW c \in Client
    PROVE  \/ clients'[c] = clients[c]
           \/ /\ clients[c].status = "WAITCREATEENV" /\ clients[c].compiler = k
              /\ \/ clients'[c] = NewClient
                 \/ clients'[c] = [clients[c] EXCEPT !.status = "GOTNATIVE"]
  <1>1. PICK lost \in SUBSET Waiting(k) :
            clients' = [x \in Client |->
                          IF x \in lost THEN NewClient
                          ELSE IF x \in Waiting(k) THEN [clients[x] EXCEPT !.status = "GOTNATIVE"]
                          ELSE clients[x]]
    BY DEF create_env_finished
  <1>2. c \in Waiting(k) <=> clients[c].status = "WAITCREATEENV" /\ clients[c].compiler = k
    BY DEF Waiting
  <1>3. clients'[c] = IF c \in lost THEN NewClient
                      ELSE IF c \in Waiting(k) THEN [clients[c] EXCEPT !.status = "GOTNATIVE"]
                      ELSE clients[c]
    BY <1>1
  <1> QED BY <1>1, <1>2, <1>3

\* A client is given a native environment by handle_get_native_env, when one of that compiler
\* exists, or by create_env_finished, when it has waited.  In both cases the daemon has the
\* environment in its map after the step, with a name, and what a client has waited for is on
\* the disk: the call of check_cache_size in between spares it.
THEOREM GivenIsAlwaysKnown == Spec => GivenIsKnown
  <1> DEFINE Act == \A c \in Client :
                      LET k == clients'[c].compiler
                      IN  Given(c) => /\ k \in DOMAIN native' /\ native'[k].name
                                      /\ clients[c].status = "WAITCREATEENV" => k \in tarball'
  <1>1. ASSUME CacheInv, Next PROVE Act
    <2> SUFFICES ASSUME NEW c \in Client, Given(c)
                 PROVE  LET k == clients'[c].compiler
                        IN  /\ k \in DOMAIN native' /\ native'[k].name
                            /\ clients[c].status = "WAITCREATEENV" => k \in tarball'
      OBVIOUS
    <2>1. clients[c].status # "GOTNATIVE" /\ clients'[c].status = "GOTNATIVE"
      BY DEF Given
    <2>2. Quiet \/ Gets \/ Finishes \/ Creates
      BY <1>1, StepCases
    <2>3. CASE Quiet
      BY <2>1, <2>3 DEF Quiet
    <2>4. CASE Gets
      <3>1. PICK x \in Client, k \in Compiler : handle_get_native_env(x, k)
        BY <2>4 DEF Gets
      <3>2. /\ \A y \in Client : y # x => clients'[y] = clients[y]
            /\ clients[x].status = "UNKNOWN"
            /\ clients'[x].status = "GOTNATIVE" =>
                  clients'[x].compiler = k /\ k \in DOMAIN native' /\ native'[k].name
        BY <1>1, <3>1, GetNativeInv
      <3>3. x = c
        BY <2>1, <3>2
      <3> QED BY <2>1, <3>2, <3>3
    <2>5. CASE Finishes
      <3>1. PICK x \in Client : \E s, t, d : Finished(s, t, x, d)
        BY <2>5 DEF Finishes
      <3>2. clients' = [clients EXCEPT ![x] = NewClient]
        BY <3>1 DEF Finished
      <3>3. clients'[c] = clients[c] \/ clients'[c] = NewClient
        BY <1>1, <3>2 DEF CacheInv, ClientsFit
      <3> QED BY <2>1, <3>3, NewFits
    <2>6. CASE Creates
      <3>1. PICK k \in Compiler : create_env_finished(k) /\ \E s, t, u : Created(s, t, u, k)
        BY <2>6 DEF Creates
      <3>2. PICK s, t, u : Created(s, t, u, k)
        BY <3>1
      <3>3. /\ Becomes(u) /\ u.tarball = t.tarball /\ t.tarball = s.tarball /\ s.tarball = tarball \cup {k}
            /\ u.native = t.native /\ k \in DOMAIN t.native /\ t.native[k] = s.native[k] /\ s.native[k].name
        BY <3>2 DEF Created, Left
      <3>4. k \in tarball' /\ k \in DOMAIN native' /\ native'[k].name
        BY <3>3 DEF Becomes
      <3> DEFINE x == clients[c]
                 y == [x EXCEPT !.status = "GOTNATIVE"]
      <3>5. x.compiler = k /\ clients'[c] = y
        BY <2>1, <3>1, WaitersOnly, NewFits
      <3>6. y.compiler = x.compiler
        <4>1. x \in ClientRec
          BY <1>1, ClientFields DEF CacheInv, FitClient
        <4> HIDE DEF x
        <4> QED BY <4>1 DEF ClientRec
      <3> QED BY <3>4, <3>5, <3>6
    <2> QED BY <2>2, <2>3, <2>4, <2>5, <2>6
  <1>2. CacheInv /\ [Next]_vars => [Act]_vars
    BY <1>1
  <1> QED BY <1>2, CacheInvHolds, PTL DEF Spec, GivenIsKnown

\* Whether an environment is in use only depends on the clients that have a job.
LEMMA InUseSame ==
    ASSUME NEW f, NEW g, NEW e, \A c \in Client : f[c].status \in {"TOCOMPILE", "WAITFORCHILD"} => g[c] = f[c]
    PROVE  InUse(f, e) => InUse(g, e)
  <1> SUFFICES ASSUME InUse(f, e) PROVE InUse(g, e)
    OBVIOUS
  <1>1. PICK c \in Client : f[c].status \in {"TOCOMPILE", "WAITFORCHILD"} /\ f[c].env = e
    BY DEF InUse, Working, HasJob
  <1>2. g[c] = f[c]
    BY <1>1
  <1>3. c \in Working(g) /\ HasJob(g[c]) /\ g[c].env = e
    BY <1>1, <1>2 DEF Working, HasJob
  <1> QED BY <1>3 DEF InUse

\* A directory that is whole and that check_cache_size takes away was not in use.
LEMMA LeftKeepsUsed ==
    ASSUME NEW s, NEW t, NEW cl, Left(s, t, cl), NEW e \in Env,
           s.disk[e] = "whole", InUse(cl, e)
    PROVE  t.disk[e] = "whole"
  BY DEF Left, HasAs

\* While a client waits for an environment or compiles in it, no call of check_cache_size
\* removes its directory, whoever makes the call and however full the cache is.  It only goes
\* when a compilation reports that its compiler is missing, or with a transfer of the same
\* environment.
THEOREM UsedIsKept == Spec => InUseKept
  <1> DEFINE Used(e) == \E c \in Client : clients[c].status \in {"TOCOMPILE", "WAITFORCHILD"} /\ clients[c].env = e
             Missing(e) == \E c \in Client : clients[c].status = "WAITFORCHILD" /\ clients[c].env = e
                                           /\ clients'[c].status = "UNKNOWN"
             Ends(e) == \E c \in Client : clients[c].status \in {"TOINSTALL", "WAITINSTALL"} /\ clients[c].env = e
                                           /\ clients'[c].status # clients[c].status
             Act == \A e \in Env : disk[e] = "whole" /\ disk'[e] # "whole" /\ Used(e)
                                      => Missing(e) \/ Ends(e) \/ UNCHANGED <<clients, received, native, cache_size>>
  <1>1. ASSUME CacheInv, Next PROVE Act
    <2> SUFFICES ASSUME NEW e \in Env, disk[e] = "whole", disk'[e] # "whole", Used(e)
                 PROVE  Missing(e) \/ Ends(e) \/ UNCHANGED <<clients, received, native, cache_size>>
      OBVIOUS
    <2>1. Quiet \/ Gets \/ Finishes \/ Creates
      BY <1>1, StepCases
    <2>2. InUse(clients, e)
      BY DEF InUse, Working, HasJob
    <2>3. ClientsFit
      BY <1>1 DEF CacheInv
    <2>4. CASE Quiet
      BY <2>4 DEF Quiet
    <2>5. CASE Gets
      BY <1>1, <2>5, GetNativeInv DEF Gets
    <2>6. CASE Finishes
      <3> DEFINE Goes(c, s, t, d) == Finished(s, t, c, d) /\ \A x \in Env : disk[x] = "whole" => d[x] = "whole"
      <3>1. PICK c \in Client : clients[c].status \in Installing /\ \E s, t, d : Goes(c, s, t, d)
        BY <2>6 DEF Finishes
      <3>2. PICK s, t, d : Goes(c, s, t, d)
        BY <3>1
      <3> DEFINE cl == [clients EXCEPT ![c] = NewClient]
      <3>3. /\ Left(s, t, cl) /\ Becomes(t) /\ clients' = cl
            /\ \A x \in Env : x # clients[c].env => s.disk[x] = d[x]
        BY <3>2 DEF Finished
      <3>4. d[e] = "whole"
        BY <3>2
      <3>5. clients'[c] = NewClient /\ \A x \in Client : x # c => clients'[x] = clients[x]
        BY <2>3, <3>3 DEF ClientsFit
      <3> HIDE DEF cl
      <3>6. CASE clients[c].env = e
        <4>1. clients'[c].status # clients[c].status
          BY <3>1, <3>5, NewFits DEF Installing
        <4> QED BY <3>1, <3>6, <4>1 DEF Installing
      <3>7. CASE clients[c].env # e
        <4>1. s.disk[e] = "whole"
          BY <3>3, <3>4, <3>7
        <4>2. \A x \in Client : clients[x].status \in {"TOCOMPILE", "WAITFORCHILD"} => clients'[x] = clients[x]
          BY <3>1, <3>5 DEF Installing
        <4>3. \A x \in Client : clients[x].status \in {"TOCOMPILE", "WAITFORCHILD"} => cl[x] = clients[x]
          BY <3>3, <4>2
        <4>4. InUse(cl, e)
          BY <2>2, <4>3, InUseSame
        <4>5. t.disk[e] = "whole"
          BY <3>3, <4>1, <4>4, LeftKeepsUsed
        <4> QED BY <3>3, <4>5 DEF Becomes
      <3> QED BY <3>6, <3>7
    <2>7. CASE Creates
      <3>1. PICK k \in Compiler : \E s, t, u : Created(s, t, u, k)
        BY <2>7 DEF Creates
      <3>2. PICK s, t, u : Created(s, t, u, k)
        BY <3>1
      <3>3. Left(s, t, clients) /\ s.disk = disk /\ u.disk = t.disk /\ Becomes(u)
        BY <3>2 DEF Created
      <3>4. t.disk[e] = "whole"
        BY <2>2, <3>3, LeftKeepsUsed
      <3> QED BY <3>3, <3>4 DEF Becomes
    <2> QED BY <2>1, <2>4, <2>5, <2>6, <2>7
  <1>2. ASSUME CacheInv, [Next]_vars PROVE [Act]_vars
    BY <1>1, <1>2
  <1>3. [Act]_vars => [\A e \in Env :
         /\ disk[e] = "whole" /\ disk'[e] # "whole"
         /\ \E c \in Client : clients[c].status \in {"TOCOMPILE", "WAITFORCHILD"} /\ clients[c].env = e
         =>
            \/ \E c \in Client : clients[c].status = "WAITFORCHILD" /\ clients[c].env = e
                               /\ clients'[c].status = "UNKNOWN"
            \/ \E c \in Client : clients[c].status \in {"TOINSTALL", "WAITINSTALL"} /\ clients[c].env = e
                               /\ clients'[c].status # clients[c].status
            \/ UNCHANGED <<clients, received, native, cache_size>>]_vars
    OBVIOUS
  <1> QED BY <1>2, <1>3, CacheInvHolds, PTL DEF Spec, InUseKept

LEMMA Compare ==
    ASSUME NEW a \in Nat, NEW b \in Nat, NEW c \in Nat
    PROVE  (a > b <=> ~(a <= b)) /\ ~(a - a > b) /\ (a - b > c <=> ~(a - b <= c))
  OBVIOUS

\* What the loop of check_cache_size leaves when the cache is still too large.
LEMMA SettledSmall ==
    ASSUME NEW t, Good(t), now \in Nat, NEW cl, NEW new_env, Settled(t, cl, new_env),
           t.aborted = "", t.cache_size > cache_size_limit,
           new_env \in DOMAIN t.received => t.received[new_env].last_use = now \/ t.disk[new_env] = "no"
    PROVE  \/ new_env \in Broken(t)
           \/ /\ \A e \in DOMAIN t.received : \/ e = new_env
                                              \/ now - t.received[e].last_use <= Keep
                                              \/ InUse(cl, e)
              /\ OldNative(t) = {}
  <1>1. DOMAIN t.received \subseteq Nat \ {0} /\ \A e \in DOMAIN t.received : t.received[e].last_use \in Nat
    BY SetAssumption DEF Good, IsReceived, Entry
  <1>2. DOMAIN t.native \subseteq Nat \ {0} /\ \A x \in DOMAIN t.native : t.native[x].last_use \in Nat
    BY SetAssumption DEF Good, IsNative, NativeEntry
  <1>3. ~(t.cache_size <= cache_size_limit)
    <2>1. t.cache_size \in Nat /\ cache_size_limit \in Nat
      BY SizeAssumption DEF Good, Covers
    <2> QED BY <2>1, Compare
  <1>4. oldest_native(t, cl) = None /\ oldest_received(t, cl) \in {None, new_env}
    BY <1>3 DEF Settled
  <1>5. CASE Broken(t) # {}
    <2>1. Broken(t) \subseteq Nat \ {0}
      BY <1>1 DEF Broken
    <2>2. FirstOf(Broken(t)) \in Broken(t)
      BY <1>5, <2>1, FirstIn
    <2>3. oldest_received(t, cl) = FirstOf(Broken(t))
      BY <1>5 DEF oldest_received
    <2>4. FirstOf(Broken(t)) # None
      BY <2>1, <2>2 DEF None
    <2> QED BY <1>4, <2>2, <2>3, <2>4
  <1>6. CASE Broken(t) = {}
    <2> DEFINE free == {e \in Old(t) : ~InUse(cl, e)}
               k == Oldest(t.native, OldNative(t))
    <2>1. oldest_received(t, cl) = Oldest(t.received, free)
      BY <1>6 DEF oldest_received
    <2>2. new_env \in DOMAIN t.received => t.received[new_env].last_use = now
      BY <1>6 DEF Broken, HasAs
    <2>3. new_env \notin Old(t)
      <3>1. Keep \in Nat
        BY TimeAssumption
      <3>2. ~(now - now > Keep)
        BY <3>1, Compare
      <3> QED BY <2>2, <3>2 DEF Old
    <2>4. free \subseteq DOMAIN t.received /\ new_env \notin free
      BY <2>3 DEF Old
    <2>5. \A e \in DOMAIN t.received : e \in free \/ InUse(cl, e) \/ ~(now - t.received[e].last_use > Keep)
      BY DEF Old
    <2> HIDE DEF free
    <2>6. free \subseteq Nat \ {0} /\ \A e \in free : t.received[e].last_use \in Nat
      BY <1>1, <2>4
    <2>7. free = {} /\ oldest_received(t, cl) = None
      <3>1. IF free = {} THEN Oldest(t.received, free) = None ELSE Oldest(t.received, free) \in free
        BY <2>6, OldestIn
      <3>2. None \notin free
        BY <2>6 DEF None
      <3> QED BY <1>4, <2>1, <2>4, <3>1, <3>2
    <2>8. ASSUME NEW e \in DOMAIN t.received
          PROVE  now - t.received[e].last_use <= Keep \/ InUse(cl, e)
      <3>1. t.received[e].last_use \in Nat /\ Keep \in Nat
        BY <1>1, TimeAssumption
      <3>2. InUse(cl, e) \/ ~(now - t.received[e].last_use > Keep)
        BY <2>5, <2>7
      <3>3. now - t.received[e].last_use > Keep \/ now - t.received[e].last_use <= Keep
        BY <3>1, Compare
      <3> QED BY <3>2, <3>3
    <2>9. MissingNative(t) = {}
      <3> SUFFICES ASSUME MissingNative(t) # {} PROVE FALSE
        OBVIOUS
      <3>1. MissingNative(t) \subseteq Nat \ {0}
        BY <1>2 DEF MissingNative
      <3>2. FirstOf(MissingNative(t)) \in MissingNative(t)
        BY <3>1, FirstIn
      <3>3. oldest_native(t, cl) = FirstOf(MissingNative(t))
        BY DEF oldest_native
      <3>4. None \notin MissingNative(t)
        BY <3>1 DEF None
      <3> QED BY <1>4, <3>2, <3>3, <3>4
    <2>10. OldNative(t) = {}
      <3>1. OldNative(t) \subseteq DOMAIN t.native
        BY DEF OldNative
      <3>2. OldNative(t) \subseteq Nat \ {0} /\ \A x \in OldNative(t) : t.native[x].last_use \in Nat
        BY <1>2, <3>1
      <3>3. OldNative(t) # {} => k \in OldNative(t)
        BY <3>2, OldestIn
      <3>4. None \notin OldNative(t)
        BY <3>2 DEF None
      <3>5. k = None
        BY <1>4, <2>7, <2>9 DEF oldest_native
      <3> QED BY <3>3, <3>4, <3>5
    <2> QED BY <2>8, <2>10
  <1> QED BY <1>5, <1>6

\* The same of the variables, after the call.
LEMMA SmallAfter ==
    ASSUME NEW t, Good(t), Becomes(t), now \in Nat, now' = now, NEW cl, NEW new_env,
           t.aborted = "" => Settled(t, cl, new_env),
           new_env \in DOMAIN t.received => t.received[new_env].last_use = now \/ t.disk[new_env] = "no",
           \A e : InUse(cl, e) => InUse(clients', e)
    PROVE  SmallEnough(new_env)'
  <1> SUFFICES ASSUME aborted' = "", cache_size' > cache_size_limit
               PROVE  \/ new_env \in Broken(State')
                      \/ /\ \A e \in DOMAIN received' : \/ e = new_env
                                                        \/ now' - received'[e].last_use <= Keep
                                                        \/ InUse(clients', e)
                         /\ OldNative(State)' = {}
    BY DEF SmallEnough
  <1>1. received' = t.received /\ t.aborted = "" /\ t.cache_size > cache_size_limit
    BY DEF Becomes
  <1>2. State' = t
    BY BecomesFits
  <1>3. OldNative(State)' = OldNative(t)
    BY <1>2 DEF OldNative
  <1>4. \/ new_env \in Broken(t)
        \/ /\ \A e \in DOMAIN t.received : \/ e = new_env
                                           \/ now - t.received[e].last_use <= Keep
                                           \/ InUse(cl, e)
           /\ OldNative(t) = {}
    BY <1>1, SettledSmall
  <1> QED BY <1>1, <1>2, <1>3, <1>4

\* The end of a transfer and the end of icecc-create-env are the steps that call
\* check_cache_size.  After each of them, unless an assertion has failed, the cache is within
\* its limit, or nothing that may go is left in it, or the new environment is itself broken.
THEOREM CacheIsSmallEnough == Spec => EvictsEnough
  <1> DEFINE Act == \A e \in Env \cup {None} : Checks(e) => SmallEnough(e)'
  <1>1. ASSUME CacheInv, Next PROVE Act
    <2> SUFFICES ASSUME NEW e \in Env \cup {None}, Checks(e) PROVE SmallEnough(e)'
      OBVIOUS
    <2> DEFINE Ends(c) == /\ clients[c].status \in {"TOINSTALL", "WAITINSTALL"} /\ clients[c].env = e
                          /\ clients'[c].status = "UNKNOWN"
               Made(k) == native[k].create_env_pipe /\ ~native'[k].create_env_pipe
    <2>1. (\E c \in Client : Ends(c)) \/ (e = None /\ \E k \in DOMAIN native \cap DOMAIN native' : Made(k))
      BY DEF Checks
    <2>2. Quiet \/ Gets \/ Finishes \/ Creates
      BY <1>1, StepCases
    <2>3. ClientsFit /\ now \in Nat
      BY <1>1 DEF CacheInv, TimesFit
    <2>4. CASE Quiet
      BY <2>1, <2>4 DEF Quiet, Installing
    <2>5. CASE Gets
      <3>1. PICK c \in Client, k \in Compiler : handle_get_native_env(c, k)
        BY <2>5 DEF Gets
      <3>2. /\ \A y \in Client : y # c => clients'[y] = clients[y]
            /\ clients[c].status = "UNKNOWN"
            /\ \A x \in DOMAIN native \cap DOMAIN native' : native[x].create_env_pipe => native'[x].create_env_pipe
        BY <1>1, <3>1, GetNativeInv
      <3> QED BY <2>1, <3>2
    <2>6. CASE Finishes
      <3>1. PICK c \in Client : clients[c].env \in Env /\ \E s, t, d : Finished(s, t, c, d)
        BY <2>6 DEF Finishes
      <3>2. PICK s, t, d : Finished(s, t, c, d)
        BY <3>1
      <3> DEFINE cl == [clients EXCEPT ![c] = NewClient]
                 new == clients[c].env
      <3>3. /\ Good(t) /\ Left(s, t, cl) /\ Settled(t, cl, new) /\ Becomes(t) /\ now' = now /\ clients' = cl
            /\ s.native = native
            /\ new \in DOMAIN s.received => s.received[new].last_use = now \/ s.disk[new] = "no"
        BY <3>2 DEF Finished
      <3>4. \A x \in Client : x # c => clients'[x] = clients[x]
        BY <2>3, <3>3 DEF ClientsFit
      <3> HIDE DEF cl
      <3>5. \A k \in DOMAIN native' : k \in DOMAIN native /\ native'[k] = native[k]
        BY <3>3 DEF Left, Becomes
      <3>6. e = new
        BY <2>1, <3>4, <3>5
      <3>7. new \in DOMAIN t.received => t.received[new].last_use = now \/ t.disk[new] = "no"
        <4>1. /\ new \in DOMAIN t.received => new \in DOMAIN s.received /\ t.received[new] = s.received[new]
              /\ t.disk[new] = s.disk[new] \/ t.disk[new] = "no"
          BY <3>1, <3>3 DEF Left
        <4> QED BY <3>3, <4>1
      <3>8. PICK w : w = cl
        OBVIOUS
      <3>9. \A x : InUse(w, x) => InUse(clients', x)
        BY <3>3, <3>8
      <3>10. Settled(t, w, e) /\ (e \in DOMAIN t.received => t.received[e].last_use = now \/ t.disk[e] = "no")
        BY <3>3, <3>6, <3>7, <3>8
      <3> QED BY <2>3, <3>3, <3>9, <3>10, SmallAfter
    <2>7. CASE Creates
      <3>1. PICK k \in Compiler : create_env_finished(k) /\ \E s, t, u : Created(s, t, u, k)
        BY <2>7 DEF Creates
      <3>2. PICK s, t, u : Created(s, t, u, k)
        BY <3>1
      <3>3. \A c \in Client : clients[c].status # "WAITCREATEENV" => clients'[c] = clients[c]
        BY <3>1, WaitersOnly
      <3>4. e = None
        BY <2>1, <3>3
      <3>5. /\ Good(u) /\ Becomes(u) /\ now' = now /\ (u.aborted = "" => Settled(u, clients, None))
        BY <3>2 DEF Created
      <3>6. \A x : InUse(clients, x) => InUse(clients', x)
        <4>1. \A c \in Client : clients[c].status \in {"TOCOMPILE", "WAITFORCHILD"} => clients'[c] = clients[c]
          BY <3>3
        <4> QED BY <4>1, InUseSame
      <3>7. None \notin DOMAIN u.received
        BY <3>5, SetAssumption DEF Good, IsReceived, None
      <3>8. PICK w : w = clients
        OBVIOUS
      <3>9. \A x : InUse(w, x) => InUse(clients', x)
        BY <3>6, <3>8
      <3>10. (u.aborted = "" => Settled(u, w, e)) /\ e \notin DOMAIN u.received
        BY <3>4, <3>5, <3>7, <3>8
      <3> QED BY <2>3, <3>5, <3>9, <3>10, SmallAfter
    <2> QED BY <2>2, <2>4, <2>5, <2>6, <2>7
  <1>2. CacheInv /\ [Next]_vars => [Act]_vars
    BY <1>1
  <1> QED BY <1>2, CacheInvHolds, PTL DEF Spec, EvictsEnough
=============================================================================
