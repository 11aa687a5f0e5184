------------------------ MODULE RuntimeObjectsProofs ------------------------
(***************************************************************************)
(* What BuildObjects returns fits together, for any properties: every      *)
(* mount has its volume or claim and shows what it asks for, and the API   *)
(* server can accept the ports.                                            *)
(*                                                                         *)
(* Volumes and ports are made by a loop that looks at what it has made so  *)
(* far, a fold.  A fold is found to be a sequence of steps, and what the   *)
(* steps keep is shown by an induction over their number; the induction    *)
(* itself is that of the least element of a set of numbers.                *)
(***************************************************************************)
EXTENDS RuntimeObjects, FiniteSetTheorems, SequenceTheorems, WellFoundedInduction, TLAPS

(* Numbers. *)

\* A set of numbers has a least one.
LEMMA LeastNumber ==
  ASSUME NEW T \in SUBSET Nat, T # {}
  PROVE  \E x \in T : \A y \in T : x <= y
<1>1. PICK x \in T : \A y \in T : ~ (<<y, x>> \in OpToRel(<, Nat))
  BY NatLessThanWellFounded, WFMin
<1>2. \A y \in T : y < x => <<y, x>> \in OpToRel(<, Nat)
  BY DEF OpToRel
<1>3. \A y \in T : ~(y < x)
  BY <1>1, <1>2
<1>4. \A y \in T : x <= y
  BY <1>3
<1> QED BY <1>4

\* Induction from 0 to n, over membership in a set.
LEMMA FromZero ==
  ASSUME NEW n \in Nat, NEW S, 0 \in S, \A k \in 0 .. n - 1 : k \in S => k + 1 \in S
  PROVE  n \in S
<1> DEFINE T == {k \in 0 .. n : k \notin S}
<1> SUFFICES ASSUME n \notin S PROVE FALSE
  OBVIOUS
<1>1. T \in SUBSET Nat /\ n \in T
  OBVIOUS
<1>2. PICK x \in T : \A y \in T : x <= y
  <2> HIDE DEF T
  <2> QED BY <1>1, LeastNumber
<1>3. x \in 0 .. n /\ x \notin S
  OBVIOUS
<1>4. x # 0 /\ x - 1 \in 0 .. n - 1
  BY <1>3
<1>5. x - 1 \in S
  BY <1>2, <1>4
<1> QED BY <1>3, <1>4, <1>5

\* A finite set of numbers has a largest one.
LEMMA MaxIsThere ==
  ASSUME NEW n \in Nat, NEW S \in SUBSET (1 .. n), S # {}
  PROVE  Max(S) \in S
<1> DEFINE T == {n - i : i \in S}
<1>1. T \in SUBSET Nat /\ T # {}
  <2>1. \A i \in S : n - i \in Nat
    OBVIOUS
  <2> QED BY <2>1
<1>2. PICK x \in T : \A y \in T : x <= y
  <2> HIDE DEF T
  <2> QED BY <1>1, LeastNumber
<1>3. PICK i \in S : x = n - i
  OBVIOUS
<1>4. \A j \in S : i >= j
  <2> SUFFICES ASSUME NEW j \in S PROVE i >= j
    OBVIOUS
  <2>1. n - i <= n - j
    BY <1>2, <1>3
  <2> QED BY <2>1
<1> QED BY <1>4 DEF Max

LEMMA MaxOfFirst ==
  ASSUME NEW n \in Nat
  PROVE  Max(1 .. n + 1) = n + 1
<1>1. n + 1 \in 1 .. n + 1 /\ \A y \in 1 .. n + 1 : n + 1 >= y
  OBVIOUS
<1>2. \A x \in 1 .. n + 1 : (\A y \in 1 .. n + 1 : x >= y) => x = n + 1
  OBVIOUS
<1> QED BY <1>1, <1>2 DEF Max

-----------------------------------------------------------------------------
(* Folds. *)

\* it[s] is what a fold makes of the elements at s, step by step.
Iterates(it, step, base, k) ==
  \A s \in SUBSET (1 .. k) : it[s] = IF s = {} THEN base ELSE step[<<it[s \ {Max(s)}], Max(s)>>]

\* There is such a function.
LEMMA IterationExists ==
  ASSUME NEW n \in Nat, NEW R, NEW base \in R, NEW step \in [R \X (1 .. n) -> R]
  PROVE  \E it \in [SUBSET (1 .. n) -> R] : Iterates(it, step, base, n)
<1> DEFINE S == {k \in 0 .. n : \E it \in [SUBSET (1 .. k) -> R] : Iterates(it, step, base, k)}
<1>1. 0 \in S
  <2> DEFINE it == [s \in SUBSET (1 .. 0) |-> base]
  <2>1. \A s \in SUBSET (1 .. 0) : s = {}
    OBVIOUS
  <2>2. it \in [SUBSET (1 .. 0) -> R] /\ Iterates(it, step, base, 0)
    BY <2>1 DEF Iterates
  <2> QED BY <2>2
<1>2. ASSUME NEW k \in 0 .. n - 1, k \in S
      PROVE  k + 1 \in S
  <2>1. PICK it \in [SUBSET (1 .. k) -> R] : Iterates(it, step, base, k)
    BY <1>2
  <2> DEFINE m == k + 1
             g == [s \in SUBSET (1 .. m) |->
                     IF m \in s THEN step[<<it[s \ {m}], m>>] ELSE it[s]]
  <2>2. m \in 1 .. n /\ m \in 1 .. m /\ m \in Nat /\ 1 .. k \subseteq 1 .. m /\ m \notin 1 .. k
        /\ \A i \in 1 .. m : i # m => i \in 1 .. k
    OBVIOUS
  <2> HIDE DEF m
  <2>3. \A s \in SUBSET (1 .. m) : (m \in s => s \ {m} \in SUBSET (1 .. k))
                                   /\ (m \notin s => s \in SUBSET (1 .. k))
    BY <2>2
  <2>4. g \in [SUBSET (1 .. m) -> R]
    BY <2>2, <2>3
  <2>5. ASSUME NEW s \in SUBSET (1 .. m), m \in s
        PROVE  g[s] = step[<<g[s \ {Max(s)}], Max(s)>>]
    <3>1. Max(s) = m
      <4>1. \A y \in s : m >= y
        BY <2>2
      <4>2. \A x \in s : (\A y \in s : x >= y) => x = m
        <5> SUFFICES ASSUME NEW x \in s, \A y \in s : x >= y PROVE x = m
          OBVIOUS
        <5>1. x >= m /\ m >= x /\ x \in Nat
          BY <2>2, <2>5, <4>1
        <5> QED BY <2>2, <5>1
      <4> QED BY <2>5, <4>1, <4>2 DEF Max
    <3>2. s \ {m} \in SUBSET (1 .. k) /\ s \ {m} \in SUBSET (1 .. m) /\ m \notin s \ {m}
      BY <2>3, <2>5
    <3>3. g[s \ {m}] = it[s \ {m}]
      BY <3>2
    <3> QED BY <2>5, <3>1, <3>3
  <2>6. ASSUME NEW s \in SUBSET (1 .. m), m \notin s
        PROVE  g[s] = IF s = {} THEN base ELSE step[<<g[s \ {Max(s)}], Max(s)>>]
    <3>1. s \in SUBSET (1 .. k) /\ s \ {Max(s)} \in SUBSET (1 .. m) /\ m \notin s \ {Max(s)}
      BY <2>3, <2>6
    <3>2. g[s] = it[s] /\ g[s \ {Max(s)}] = it[s \ {Max(s)}]
      BY <2>6, <3>1
    <3>3. it[s] = IF s = {} THEN base ELSE step[<<it[s \ {Max(s)}], Max(s)>>]
      BY <2>1, <3>1 DEF Iterates
    <3> QED BY <3>2, <3>3
  <2>7. Iterates(g, step, base, m)
    <3> HIDE DEF g
    <3> QED BY <2>5, <2>6 DEF Iterates
  <2>8. m \in 0 .. n
    BY <2>2
  <2>9. m \in S
    <3> HIDE DEF g
    <3> QED BY <2>4, <2>7, <2>8
  <2> QED BY <2>9 DEF m
<1>3. n \in S
  <2> HIDE DEF S
  <2>1. \A k \in 0 .. n - 1 : k \in S => k + 1 \in S
    BY <1>2
  <2> QED BY <1>1, <2>1, FromZero
<1> QED BY <1>3

-----------------------------------------------------------------------------
(* Volumes. *)

Volumes == [name : STRING, source : STRING]
VolumeOf(m) == [name |-> VolumeName(m), source |-> m.name]

\* A mount has a volume name, given or made of its source.
LEMMA VolumeNamed ==
  ASSUME NEW m \in ConfigMountSpec
  PROVE  VolumeName(m) \in STRING /\ VolumeOf(m) \in Volumes
BY DEF ConfigMountSpec, VolumeName, VolumeOf, Volumes

LEMMA VolumeAdded ==
  ASSUME NEW vs \in Seq(Volumes), NEW m \in ConfigMountSpec
  PROVE  AddVolume(vs, m) \in Seq(Volumes)
BY VolumeNamed DEF AddVolume, VolumeOf

\* The volumes are made one mount after the other.
LEMMA VolumesInSteps ==
  ASSUME NEW mounts \in Seq(ConfigMountSpec)
  PROVE  \E f : /\ f[0] = <<>> /\ f[Len(mounts)] = BuildVolumes(mounts)
               /\ \A k \in 0 .. Len(mounts) - 1 : f[k + 1] = AddVolume(f[k], mounts[k + 1])
<1> DEFINE n == Len(mounts)
           R == Seq(Volumes)
           step == [p \in R \X (1 .. n) |-> AddVolume(p[1], mounts[p[2]])]
           Folds(it) == it = [s \in SUBSET (1 .. n) |->
                                IF s = {} THEN <<>>
                                ELSE AddVolume(it[s \ {Max(s)}], mounts[Max(s)])]
           it == CHOOSE it : Folds(it)
<1>1. n \in Nat /\ DOMAIN mounts = 1 .. n /\ \A i \in 1 .. n : mounts[i] \in ConfigMountSpec
  BY LenProperties
<1>2. BuildVolumes(mounts) = it[1 .. n]
  BY <1>1 DEF BuildVolumes, FoldLeft, MapThenFoldSet
<1> HIDE DEF n
<1>3. \A a \in R, i \in 1 .. n : step[<<a, i>>] = AddVolume(a, mounts[i]) /\ AddVolume(a, mounts[i]) \in R
  BY <1>1, VolumeAdded
<1>4. step \in [R \X (1 .. n) -> R]
  BY <1>1, VolumeAdded
<1> HIDE DEF step, R
<1>5. PICK jt \in [SUBSET (1 .. n) -> R] : Iterates(jt, step, <<>>, n)
  <2>1. <<>> \in R
    BY DEF R
  <2> QED BY <1>1, <1>4, <2>1, IterationExists
<1>6. Folds(jt)
  <2> SUFFICES ASSUME NEW s \in SUBSET (1 .. n)
               PROVE  jt[s] = IF s = {} THEN <<>> ELSE AddVolume(jt[s \ {Max(s)}], mounts[Max(s)])
    BY <1>5
  <2>1. jt[s] = IF s = {} THEN <<>> ELSE step[<<jt[s \ {Max(s)}], Max(s)>>]
    BY <1>5 DEF Iterates
  <2>2. CASE s # {}
    <3>1. Max(s) \in 1 .. n /\ jt[s \ {Max(s)}] \in R
      BY <1>1, <1>5, <2>2, MaxIsThere
    <3> QED BY <1>3, <2>1, <2>2, <3>1
  <2> QED BY <2>1, <2>2
<1>7. Folds(it)
  <2> HIDE DEF Folds
  <2> QED BY <1>6
<1> HIDE DEF it
<1>8. /\ it[{}] = <<>>
      /\ \A s \in SUBSET (1 .. n) : s # {} => it[s] = AddVolume(it[s \ {Max(s)}], mounts[Max(s)])
  BY <1>7
<1> DEFINE f == [k \in 0 .. n |-> it[1 .. k]]
<1>9. f[0] = <<>> /\ f[n] = it[1 .. n]
  <2>1. 1 .. 0 = {} /\ 0 \in 0 .. n /\ n \in 0 .. n
    BY <1>1
  <2> QED BY <1>8, <2>1
<1>10. ASSUME NEW k \in 0 .. n - 1
       PROVE  f[k + 1] = AddVolume(f[k], mounts[k + 1])
  <2>1. k \in Nat /\ k \in 0 .. n /\ k + 1 \in 0 .. n /\ k + 1 <= n
    BY ONLY <1>1, <1>10
  <2>3. 1 .. k + 1 \in SUBSET (1 .. n) /\ 1 .. k + 1 # {} /\ (1 .. k + 1) \ {k + 1} = 1 .. k
    BY ONLY <1>1, <2>1
  <2>2. Max(1 .. k + 1) = k + 1
    BY <2>1, MaxOfFirst
  <2> QED BY <1>8, <2>1, <2>2, <2>3
<1> HIDE DEF f
<1>11. f[0] = <<>> /\ f[n] = BuildVolumes(mounts)
       /\ \A k \in 0 .. n - 1 : f[k + 1] = AddVolume(f[k], mounts[k + 1])
  BY <1>2, <1>9, <1>10
<1> QED BY <1>11 DEF n

\* The volumes of the first k mounts: each mount has one, there are no others,
\* and no name twice.
VolumesFor(vs, mounts, k) ==
  /\ vs \in Seq(Volumes)
  /\ \A i \in 1 .. k : \E v \in DOMAIN vs : vs[v].name = VolumeName(mounts[i])
  /\ \A v \in DOMAIN vs : \E i \in 1 .. k : vs[v] = VolumeOf(mounts[i])
  /\ \A v, w \in DOMAIN vs : vs[v].name = vs[w].name => v = w

LEMMA OneMoreVolume ==
  ASSUME NEW mounts \in Seq(ConfigMountSpec), NEW k \in 0 .. Len(mounts) - 1,
         NEW vs, VolumesFor(vs, mounts, k)
  PROVE  VolumesFor(AddVolume(vs, mounts[k + 1]), mounts, k + 1)
<1> DEFINE m == mounts[k + 1]
<1>1. k \in Nat /\ k + 1 \in 1 .. k + 1 /\ \A i \in 1 .. k + 1 : i # k + 1 => i \in 1 .. k
      /\ 1 .. k \subseteq 1 .. k + 1
  OBVIOUS
<1>2. m \in ConfigMountSpec /\ VolumeOf(m) \in Volumes
  <2>1. k + 1 \in 1 .. Len(mounts)
    BY LenProperties
  <2> QED BY <2>1, VolumeNamed
<1>3. /\ vs \in Seq(Volumes)
      /\ \A i \in 1 .. k : \E v \in DOMAIN vs : vs[v].name = VolumeName(mounts[i])
      /\ \A v \in DOMAIN vs : \E i \in 1 .. k : vs[v] = VolumeOf(mounts[i])
      /\ \A v, w \in DOMAIN vs : vs[v].name = vs[w].name => v = w
  BY DEF VolumesFor
<1>4. CASE \E v \in DOMAIN vs : vs[v].name = VolumeName(m)
  <2>1. AddVolume(vs, m) = vs
    BY <1>4 DEF AddVolume
  <2>2. \A i \in 1 .. k + 1 : \E v \in DOMAIN vs : vs[v].name = VolumeName(mounts[i])
    BY <1>1, <1>3, <1>4
  <2>3. \A v \in DOMAIN vs : \E i \in 1 .. k + 1 : vs[v] = VolumeOf(mounts[i])
    BY <1>1, <1>3
  <2> QED BY <1>3, <2>1, <2>2, <2>3 DEF VolumesFor
<1>5. CASE ~\E v \in DOMAIN vs : vs[v].name = VolumeName(m)
  <2> DEFINE e == VolumeOf(m)
             us == AddVolume(vs, m)
             l == Len(vs)
  <2>1. us = Append(vs, e) /\ e.name = VolumeName(m)
    BY <1>5 DEF AddVolume, VolumeOf
  <2>2. l \in Nat /\ DOMAIN vs = 1 .. l
    BY <1>3, LenProperties
  <2>3. /\ us \in Seq(Volumes) /\ Len(us) = l + 1 /\ us[l + 1] = e
        /\ \A v \in 1 .. l : us[v] = vs[v]
    BY <1>2, <1>3, <2>1, AppendProperties
  <2>4. DOMAIN us = 1 .. l + 1
    BY <2>3, LenProperties
  <2> HIDE DEF us, l, e
  <2>5. l + 1 \in DOMAIN us /\ 1 .. l \subseteq DOMAIN us
        /\ \A v \in DOMAIN us : v # l + 1 => v \in 1 .. l
    BY <2>2, <2>4
  <2>6. ASSUME NEW i \in 1 .. k + 1
        PROVE  \E v \in DOMAIN us : us[v].name = VolumeName(mounts[i])
    <3>1. CASE i = k + 1
      BY <2>1, <2>3, <2>5, <3>1
    <3>2. CASE i # k + 1
      <4>1. i \in 1 .. k
        BY <1>1, <3>2
      <4>2. PICK v \in DOMAIN vs : vs[v].name = VolumeName(mounts[i])
        BY <1>3, <4>1
      <4>3. v \in DOMAIN us /\ us[v] = vs[v]
        BY <2>2, <2>3, <2>5
      <4> QED BY <4>2, <4>3
    <3> QED BY <3>1, <3>2
  <2>7. ASSUME NEW v \in DOMAIN us
        PROVE  \E i \in 1 .. k + 1 : us[v] = VolumeOf(mounts[i])
    <3>1. CASE v = l + 1
      BY <1>1, <2>3, <3>1 DEF e
    <3>2. CASE v # l + 1
      <4>1. v \in DOMAIN vs /\ us[v] = vs[v]
        BY <2>2, <2>3, <2>5, <3>2
      <4>2. PICK i \in 1 .. k : vs[v] = VolumeOf(mounts[i])
        BY <1>3, <4>1
      <4> QED BY <1>1, <4>1, <4>2
    <3> QED BY <3>1, <3>2
  <2>8. ASSUME NEW v \in DOMAIN us, NEW w \in DOMAIN us, us[v].name = us[w].name
        PROVE  v = w
    <3>1. /\ v # l + 1 => v \in DOMAIN vs /\ us[v] = vs[v]
          /\ w # l + 1 => w \in DOMAIN vs /\ us[w] = vs[w]
      BY <2>2, <2>3, <2>5
    <3>2. us[l + 1].name = VolumeName(m)
      BY <2>1, <2>3
    <3> QED BY <1>3, <1>5, <2>8, <3>1, <3>2
  <2> QED BY <2>3, <2>6, <2>7, <2>8 DEF VolumesFor, us
<1> QED BY <1>4, <1>5

\* BuildVolumesFromConfigMaps returns the volumes of all mounts.
LEMMA VolumesBuilt ==
  ASSUME NEW mounts \in Seq(ConfigMountSpec)
  PROVE  VolumesFor(BuildVolumes(mounts), mounts, Len(mounts))
<1> DEFINE n == Len(mounts)
<1>1. PICK f : /\ f[0] = <<>> /\ f[n] = BuildVolumes(mounts)
               /\ \A k \in 0 .. n - 1 : f[k + 1] = AddVolume(f[k], mounts[k + 1])
  BY VolumesInSteps
<1>2. n \in Nat
  BY LenProperties
<1> DEFINE S == {k \in 0 .. n : VolumesFor(f[k], mounts, k)}
<1>3. 0 \in S
  <2>1. VolumesFor(<<>>, mounts, 0)
    BY DEF VolumesFor
  <2> QED BY <1>1, <1>2, <2>1
<1>4. ASSUME NEW k \in 0 .. n - 1, k \in S
      PROVE  k + 1 \in S
  <2>1. VolumesFor(f[k], mounts, k)
    BY <1>4
  <2>2. VolumesFor(f[k + 1], mounts, k + 1)
    BY <1>1, <2>1, OneMoreVolume
  <2>3. k + 1 \in 0 .. n
    <3> HIDE DEF n
    <3> QED BY <1>2
  <2> QED BY <2>2, <2>3
<1>5. n \in S
  <2> HIDE DEF S, n
  <2>1. \A k \in 0 .. n - 1 : k \in S => k + 1 \in S
    BY <1>4
  <2> QED BY <1>2, <1>3, <2>1, FromZero
<1> QED BY <1>1, <1>5

-----------------------------------------------------------------------------
(* Names of ports. *)

\* A name with a counter is a name.
LEMMA SuffixedIsName ==
  ASSUME NEW name \in PortNames, NEW k \in Nat
  PROVE  Suffixed(name, k) \in PortNames
<1>1. /\ name = [base |-> name.base, protocol |-> name.protocol, numbers |-> name.numbers]
      /\ name.base \in STRING /\ name.protocol \in Protocols /\ name.numbers \in Seq(Int)
  BY DEF PortNames
<1>2. Append(name.numbers, k) \in Seq(Int)
  BY <1>1
<1> QED BY <1>1, <1>2 DEF Suffixed, PortNames

\* Two counters make two names.
LEMMA SuffixesDiffer ==
  ASSUME NEW name \in PortNames, NEW k \in Nat, NEW l \in Nat, Suffixed(name, k) = Suffixed(name, l)
  PROVE  k = l
<1> DEFINE ns == name.numbers
<1>1. ns \in Seq(Int) /\ DOMAIN name = {"base", "protocol", "numbers"}
  BY DEF PortNames
<1>2. \A j \in Nat : j # 0 => Suffixed(name, j).numbers = Append(ns, j)
  BY <1>1 DEF Suffixed
<1>3. Suffixed(name, 0).numbers = ns
  BY DEF Suffixed
<1> HIDE DEF ns
<1>4. \A j \in Nat : /\ Len(Append(ns, j)) = Len(ns) + 1 /\ Len(ns) \in Nat
                     /\ Append(ns, j)[Len(ns) + 1] = j
  BY <1>1, AppendProperties, LenProperties
<1>5. CASE k = 0 \/ l = 0
  <2>1. Suffixed(name, k).numbers = Suffixed(name, l).numbers
    OBVIOUS
  <2>2. \A j \in Nat : Append(ns, j) # ns
    BY <1>4
  <2> QED BY <1>2, <1>3, <1>5, <2>1, <2>2
<1>6. CASE k # 0 /\ l # 0
  <2>1. Append(ns, k) = Append(ns, l)
    BY <1>2, <1>6
  <2> QED BY <1>4, <2>1
<1> QED BY <1>5, <1>6

\* Some counter up to the number of names in use makes a new name.
LEMMA CounterExists ==
  ASSUME NEW used \in Seq(PortNames), NEW name \in PortNames
  PROVE  \E k \in 0 .. Len(used) : ~Contains(used, Suffixed(name, k))
<1> DEFINE n == Len(used)
<1>1. n \in Nat
  BY LenProperties
<1> SUFFICES ASSUME \A k \in 0 .. n : Contains(used, Suffixed(name, k)) PROVE FALSE
  OBVIOUS
<1> DEFINE f == [k \in 0 .. n |-> CHOOSE i \in 1 .. n : used[i] = Suffixed(name, k)]
<1>2. \A k \in 0 .. n : \E i \in 1 .. n : used[i] = Suffixed(name, k)
  BY DEF Contains
<1> HIDE DEF n
<1>3. \A k \in 0 .. n : f[k] \in 1 .. n /\ used[f[k]] = Suffixed(name, k)
  BY <1>2
<1>4. f \in [0 .. n -> 1 .. n]
  BY <1>3
<1> HIDE DEF f
<1>5. /\ IsFiniteSet(0 .. n) /\ IsFiniteSet(1 .. n)
      /\ Cardinality(0 .. n) = n + 1 /\ Cardinality(1 .. n) = n
  <2>1. 0 \in Int /\ 1 \in Int /\ n \in Int
    BY <1>1
  <2>2. /\ IsFiniteSet(0 .. n) /\ Cardinality(0 .. n) = IF 0 > n THEN 0 ELSE n - 0 + 1
        /\ IsFiniteSet(1 .. n) /\ Cardinality(1 .. n) = IF 1 > n THEN 0 ELSE n - 1 + 1
    BY <2>1, FS_Interval
  <2> QED BY <1>1, <2>2
<1>6. PICK x \in 0 .. n, y \in 0 .. n : x # y /\ f[x] = f[y]
  <2>1. Cardinality(1 .. n) < Cardinality(0 .. n)
    BY <1>1, <1>5
  <2> QED BY <1>4, <1>5, <2>1, FS_PigeonHole
<1>7. Suffixed(name, x) = Suffixed(name, y)
  BY <1>3, <1>6
<1>8. x \in Nat /\ y \in Nat
  BY <1>1
<1> QED BY <1>6, <1>7, <1>8, SuffixesDiffer

\* BuildServicePorts tries counters until the name is new.
LEMMA UnusedIsNew ==
  ASSUME NEW used \in Seq(PortNames), NEW name \in PortNames
  PROVE  Unused(used, name) \in PortNames /\ ~Contains(used, Unused(used, name))
<1> DEFINE n == Len(used)
           T == {k \in 0 .. n : ~Contains(used, Suffixed(name, k))}
           First(k) == /\ ~Contains(used, Suffixed(name, k))
                       /\ \A l \in 0 .. k - 1 : Contains(used, Suffixed(name, l))
           c == CHOOSE k \in 0 .. n : First(k)
<1>1. n \in Nat
  BY LenProperties
<1>2. T \in SUBSET Nat /\ T # {}
  <2>1. T # {}
    BY CounterExists
  <2> QED BY <2>1
<1>3. PICK x \in T : \A y \in T : x <= y
  <2> HIDE DEF T
  <2> QED BY <1>2, LeastNumber
<1>4. x \in 0 .. n /\ First(x)
  <2>1. x \in 0 .. n /\ ~Contains(used, Suffixed(name, x))
    OBVIOUS
  <2>2. ASSUME NEW l \in 0 .. x - 1
        PROVE  Contains(used, Suffixed(name, l))
    <3>1. l \notin T
      <4>1. l < x
        BY <1>1, <2>1
      <4> HIDE DEF T
      <4> QED BY <1>1, <1>2, <1>3, <4>1
    <3>2. l \in 0 .. n
      <4> HIDE DEF n
      <4> QED BY <1>1, <2>1
    <3> QED BY <3>1, <3>2
  <2> QED BY <2>1, <2>2
<1>5. c \in 0 .. n /\ First(c)
  <2> HIDE DEF First, n
  <2> QED BY <1>4
<1>6. Unused(used, name) = Suffixed(name, c)
  BY DEF Unused
<1>7. c \in Nat
  <2> HIDE DEF c, n
  <2> QED BY <1>1, <1>5
<1> HIDE DEF c
<1> QED BY <1>5, <1>6, <1>7, SuffixedIsName

-----------------------------------------------------------------------------
(* Ports. *)

Ports == [name : PortNames, port : Int, nodePort : Int]

\* What BuildServicePorts adds to some ports for a spec.
AddedFor(port, spec, ports) ==
  /\ port \in Ports /\ port.port = spec.containerPort
  /\ \A i \in DOMAIN ports : ports[i].name # port.name

LEMMA OnePortAdded ==
  ASSUME NEW ports \in Seq(Ports), NEW spec \in PortSpec
  PROVE  \E port : AddPort(ports, spec) = Append(ports, port) /\ AddedFor(port, spec, ports)
<1> DEFINE used == [i \in DOMAIN ports |-> ports[i].name]
           name == Unused(used, PortName(spec))
           nodePort == IF spec.nodePort \in NodePorts THEN spec.nodePort ELSE 0
           port == [name |-> name, port |-> spec.containerPort, nodePort |-> nodePort]
<1>1. Len(ports) \in Nat /\ DOMAIN ports = 1 .. Len(ports) /\ \A i \in 1 .. Len(ports) : ports[i] \in Ports
  BY LenProperties
<1>2. used \in Seq(PortNames) /\ Len(used) = Len(ports)
  <2>1. used \in [1 .. Len(ports) -> PortNames]
    BY <1>1 DEF Ports
  <2> QED BY <1>1, <2>1, LenProperties
<1>3. PortName(spec) \in PortNames
  <2> DEFINE protocol == IF spec.protocol = "" THEN "tcp" ELSE spec.protocol
             numbers == <<spec.containerPort>>
  <2>1. spec.name \in PortNames /\ protocol \in Protocols /\ numbers \in Seq(Int)
    <3>1. spec.name \in PortNames /\ spec.containerPort \in Int /\ spec.protocol \in Protocols
      BY DEF PortSpec
    <3>2. protocol \in Protocols
      BY <3>1 DEF Protocols
    <3>3. numbers \in Seq(Int)
      BY <3>1
    <3> QED BY <3>1, <3>2, <3>3
  <2>2. PortName(spec) = IF spec.name # NoName THEN spec.name
                         ELSE [spec.name EXCEPT !.protocol = protocol, !.numbers = numbers]
    BY DEF PortName
  <2> HIDE DEF protocol, numbers
  <2>3. [spec.name EXCEPT !.protocol = protocol, !.numbers = numbers] \in PortNames
    BY <2>1 DEF PortNames
  <2> QED BY <2>1, <2>2, <2>3
<1>4. name \in PortNames /\ ~Contains(used, name)
  <2> HIDE DEF used
  <2> QED BY <1>2, <1>3, UnusedIsNew
<1>5. \A i \in DOMAIN ports : ports[i].name # name
  <2>1. \A i \in 1 .. Len(ports) : used[i] # name
    BY <1>2, <1>4 DEF Contains
  <2>2. \A i \in DOMAIN ports : used[i] = ports[i].name
    OBVIOUS
  <2> HIDE DEF used, name
  <2> QED BY <1>1, <2>1, <2>2
<1>6. nodePort \in Int /\ spec.containerPort \in Int
  BY DEF PortSpec
<1>7. AddPort(ports, spec) = Append(ports, port)
  BY DEF AddPort
<1> HIDE DEF name, nodePort
<1>8. AddedFor(port, spec, ports)
  BY <1>4, <1>5, <1>6 DEF AddedFor, Ports
<1> QED BY <1>7, <1>8

LEMMA PortAdded ==
  ASSUME NEW ports \in Seq(Ports), NEW spec \in PortSpec
  PROVE  AddPort(ports, spec) \in Seq(Ports)
<1>1. PICK port : AddPort(ports, spec) = Append(ports, port) /\ AddedFor(port, spec, ports)
  BY OnePortAdded
<1> QED BY <1>1 DEF AddedFor

\* The ports are made one spec after the other.
LEMMA PortsInSteps ==
  ASSUME NEW specs \in Seq(PortSpec)
  PROVE  \E f : /\ f[0] = <<>> /\ f[Len(specs)] = BuildServicePorts(specs)
               /\ \A k \in 0 .. Len(specs) - 1 : f[k + 1] = AddPort(f[k], specs[k + 1])
<1> DEFINE n == Len(specs)
           R == Seq(Ports)
           step == [p \in R \X (1 .. n) |-> AddPort(p[1], specs[p[2]])]
           Folds(it) == it = [s \in SUBSET (1 .. n) |->
                                IF s = {} THEN <<>>
                                ELSE AddPort(it[s \ {Max(s)}], specs[Max(s)])]
           it == CHOOSE it : Folds(it)
<1>1. n \in Nat /\ DOMAIN specs = 1 .. n /\ \A i \in 1 .. n : specs[i] \in PortSpec
  BY LenProperties
<1>2. BuildServicePorts(specs) = it[1 .. n]
  BY <1>1 DEF BuildServicePorts, FoldLeft, MapThenFoldSet
<1> HIDE DEF n
<1>3. \A a \in R, i \in 1 .. n : step[<<a, i>>] = AddPort(a, specs[i]) /\ AddPort(a, specs[i]) \in R
  BY <1>1, PortAdded
<1>4. step \in [R \X (1 .. n) -> R]
  BY <1>1, PortAdded
<1> HIDE DEF step, R
<1>5. PICK jt \in [SUBSET (1 .. n) -> R] : Iterates(jt, step, <<>>, n)
  <2>1. <<>> \in R
    BY DEF R
  <2> QED BY <1>1, <1>4, <2>1, IterationExists
<1>6. Folds(jt)
  <2> SUFFICES ASSUME NEW s \in SUBSET (1 .. n)
               PROVE  jt[s] = IF s = {} THEN <<>> ELSE AddPort(jt[s \ {Max(s)}], specs[Max(s)])
    BY <1>5
  <2>1. jt[s] = IF s = {} THEN <<>> ELSE step[<<jt[s \ {Max(s)}], Max(s)>>]
    BY <1>5 DEF Iterates
  <2>2. CASE s # {}
    <3>1. Max(s) \in 1 .. n /\ jt[s \ {Max(s)}] \in R
      BY <1>1, <1>5, <2>2, MaxIsThere
    <3> QED BY <1>3, <2>1, <2>2, <3>1
  <2> QED BY <2>1, <2>2
<1>7. Folds(it)
  <2> HIDE DEF Folds
  <2> QED BY <1>6
<1> HIDE DEF it
<1>8. /\ it[{}] = <<>>
      /\ \A s \in SUBSET (1 .. n) : s # {} => it[s] = AddPort(it[s \ {Max(s)}], specs[Max(s)])
  BY <1>7
<1> DEFINE f == [k \in 0 .. n |-> it[1 .. k]]
<1>9. f[0] = <<>> /\ f[n] = it[1 .. n]
  <2>1. 1 .. 0 = {} /\ 0 \in 0 .. n /\ n \in 0 .. n
    BY <1>1
  <2> QED BY <1>8, <2>1
<1>10. ASSUME NEW k \in 0 .. n - 1
       PROVE  f[k + 1] = AddPort(f[k], specs[k + 1])
  <2>1. k \in Nat /\ k \in 0 .. n /\ k + 1 \in 0 .. n /\ k + 1 <= n
    BY ONLY <1>1, <1>10
  <2>3. 1 .. k + 1 \in SUBSET (1 .. n) /\ 1 .. k + 1 # {} /\ (1 .. k + 1) \ {k + 1} = 1 .. k
    BY ONLY <1>1, <2>1
  <2>2. Max(1 .. k + 1) = k + 1
    BY <2>1, MaxOfFirst
  <2> QED BY <1>8, <2>1, <2>2, <2>3
<1> HIDE DEF f
<1>11. f[0] = <<>> /\ f[n] = BuildServicePorts(specs)
       /\ \A k \in 0 .. n - 1 : f[k + 1] = AddPort(f[k], specs[k + 1])
  BY <1>2, <1>9, <1>10
<1> QED BY <1>11 DEF n

\* The ports of the first k specs, in their order and with names of their own.
PortsFor(ports, specs, k) ==
  /\ ports \in Seq(Ports) /\ Len(ports) = k
  /\ \A i \in 1 .. k : ports[i].port = specs[i].containerPort
  /\ \A i, j \in 1 .. k : ports[i].name = ports[j].name => i = j

LEMMA OneMorePort ==
  ASSUME NEW specs \in Seq(PortSpec), NEW k \in 0 .. Len(specs) - 1,
         NEW ports, PortsFor(ports, specs, k)
  PROVE  PortsFor(AddPort(ports, specs[k + 1]), specs, k + 1)
<1> DEFINE l == k + 1
           more == AddPort(ports, specs[l])
<1>1. /\ k \in Nat /\ l \in 1 .. Len(specs) /\ l \in 1 .. l
      /\ \A i \in 1 .. l : i # l => i \in 1 .. k
  BY LenProperties
<1>2. ports \in Seq(Ports) /\ Len(ports) = k /\ DOMAIN ports = 1 .. k
  BY LenProperties DEF PortsFor
<1>3. specs[l] \in PortSpec
  BY <1>1
<1>4. PICK port : more = Append(ports, port) /\ AddedFor(port, specs[l], ports)
  BY <1>2, <1>3, OnePortAdded
<1>5. /\ more \in Seq(Ports) /\ Len(more) = l /\ more[l] = port
      /\ \A i \in 1 .. k : more[i] = ports[i]
  <2>1. port \in Ports
    BY <1>4 DEF AddedFor
  <2> QED BY <1>2, <1>4, <2>1, AppendProperties
<1> HIDE DEF more, l
<1>6. ASSUME NEW i \in 1 .. l
      PROVE  more[i].port = specs[i].containerPort
  <2>1. CASE i = l
    BY <1>4, <1>5, <2>1 DEF AddedFor
  <2>2. CASE i # l
    BY <1>1, <1>5, <2>2 DEF PortsFor
  <2> QED BY <2>1, <2>2
<1>7. ASSUME NEW i \in 1 .. l, NEW j \in 1 .. l, more[i].name = more[j].name
      PROVE  i = j
  <2>1. /\ i # l => i \in 1 .. k /\ more[i] = ports[i]
        /\ j # l => j \in 1 .. k /\ more[j] = ports[j]
    BY <1>1, <1>5
  <2>2. \A h \in 1 .. k : ports[h].name # more[l].name
    BY <1>2, <1>4, <1>5 DEF AddedFor
  <2> QED BY <1>7, <2>1, <2>2 DEF PortsFor
<1> QED BY <1>5, <1>6, <1>7 DEF PortsFor, more, l

\* BuildServicePorts returns the ports of all specs.
LEMMA PortsBuilt ==
  ASSUME NEW specs \in Seq(PortSpec)
  PROVE  PortsFor(BuildServicePorts(specs), specs, Len(specs))
<1> DEFINE n == Len(specs)
<1>1. PICK f : /\ f[0] = <<>> /\ f[n] = BuildServicePorts(specs)
               /\ \A k \in 0 .. n - 1 : f[k + 1] = AddPort(f[k], specs[k + 1])
  BY PortsInSteps
<1>2. n \in Nat
  BY LenProperties
<1> DEFINE S == {k \in 0 .. n : PortsFor(f[k], specs, k)}
<1>3. 0 \in S
  <2>1. PortsFor(<<>>, specs, 0)
    BY DEF PortsFor
  <2> QED BY <1>1, <1>2, <2>1
<1>4. ASSUME NEW k \in 0 .. n - 1, k \in S
      PROVE  k + 1 \in S
  <2>1. PortsFor(f[k], specs, k)
    BY <1>4
  <2>2. PortsFor(f[k + 1], specs, k + 1)
    BY <1>1, <2>1, OneMorePort
  <2>3. k + 1 \in 0 .. n
    <3> HIDE DEF n
    <3> QED BY <1>2
  <2> QED BY <2>2, <2>3
<1>5. n \in S
  <2> HIDE DEF S, n
  <2>1. \A k \in 0 .. n - 1 : k \in S => k + 1 \in S
    BY <1>4
  <2> QED BY <1>2, <1>3, <2>1, FromZero
<1> QED BY <1>1, <1>5

-----------------------------------------------------------------------------
(* The parts of the pod. *)

\* The elements of two sequences joined, and where they are.
LEMMA JoinedElements ==
  ASSUME NEW S, NEW s \in Seq(S), NEW t \in Seq(S)
  PROVE  /\ s \o t \in Seq(S) /\ DOMAIN (s \o t) = 1 .. Len(s) + Len(t)
         /\ Len(s) \in Nat /\ Len(t) \in Nat
         /\ DOMAIN s = 1 .. Len(s) /\ DOMAIN t = 1 .. Len(t)
         /\ \A i \in DOMAIN s : i \in DOMAIN (s \o t) /\ (s \o t)[i] = s[i]
         /\ \A i \in DOMAIN t : Len(s) + i \in DOMAIN (s \o t) /\ (s \o t)[Len(s) + i] = t[i]
         /\ \A i \in DOMAIN (s \o t) : i \in DOMAIN s \/ i - Len(s) \in DOMAIN t
<1> DEFINE u == s \o t
           l == Len(s)
           m == Len(t)
<1>1. /\ u \in Seq(S) /\ Len(u) = l + m
      /\ \A i \in 1 .. l + m : u[i] = IF i <= l THEN s[i] ELSE t[i - l]
  BY ConcatProperties
<1>2. l \in Nat /\ m \in Nat /\ DOMAIN s = 1 .. l /\ DOMAIN t = 1 .. m
  BY LenProperties
<1>3. DOMAIN u = 1 .. l + m
  BY <1>1, LenProperties
<1> HIDE DEF u, l, m
<1>4. ASSUME NEW i \in 1 .. l
      PROVE  i \in 1 .. l + m /\ u[i] = s[i]
  <2>1. i \in 1 .. l + m /\ i <= l
    BY <1>2
  <2> QED BY <1>1, <2>1
<1>5. ASSUME NEW i \in 1 .. m
      PROVE  l + i \in 1 .. l + m /\ u[l + i] = t[i]
  <2>1. l + i \in 1 .. l + m /\ ~(l + i <= l) /\ (l + i) - l = i
    BY <1>2
  <2> QED BY <1>1, <2>1
<1>6. \A i \in 1 .. l + m : i \in 1 .. l \/ i - l \in 1 .. m
  BY <1>2
<1> QED BY <1>1, <1>2, <1>3, <1>4, <1>5, <1>6 DEF u, l, m

AllVolumesOf(c) == BuildVolumes(c.configMounts) \o BuildVolumes(c.secretMounts)
AllMountsOf(c) == BuildVolumeMounts(c.configMounts) \o BuildVolumeMounts(c.secretMounts)

\* What BuildObjects has put together.
LEMMA PartsBuilt ==
  ASSUME runtimeConfig \in Configs, BuildObjects, Built'
  PROVE  LET c == runtimeConfig
         IN /\ built'.claims = BuildVolumeClaimTemplates(c.storage)
            /\ built'.volumes = AllVolumesOf(c)
            /\ built'.mounts = AllMountsOf(c) \o BuildStorageMounts(c.storage)
            /\ built'.initMounts = InitMounts(c)
            /\ built'.ports = BuildServicePorts(c.ports)
            /\ built'.clientPorts = <<>> \/ built'.clientPorts = BuildServicePorts(c.service.ports)
            /\ c.ports \in Seq(PortSpec) /\ c.service.ports \in Seq(PortSpec)
            /\ c.configMounts \in Seq(ConfigMountSpec) /\ c.secretMounts \in Seq(ConfigMountSpec)
<1>1. verifyParameters(runtimeConfig)
  BY DEF BuildObjects, Built, Refused
<1> QED BY <1>1, ConfigsAssumption DEF BuildObjects, AllVolumesOf, AllMountsOf

\* The names of the mounts of a list of mount specs.
LEMMA MountsNamed ==
  ASSUME NEW mounts \in Seq(ConfigMountSpec)
  PROVE  /\ BuildVolumeMounts(mounts) \in Seq(STRING) /\ Len(BuildVolumeMounts(mounts)) = Len(mounts)
         /\ \A i \in 1 .. Len(mounts) : BuildVolumeMounts(mounts)[i] = VolumeName(mounts[i])
<1> DEFINE n == Len(mounts)
           b == BuildVolumeMounts(mounts)
<1>1. n \in Nat /\ DOMAIN mounts = 1 .. n /\ \A i \in 1 .. n : mounts[i] \in ConfigMountSpec
  BY LenProperties
<1>2. b = [i \in 1 .. n |-> VolumeName(mounts[i])]
  BY <1>1 DEF BuildVolumeMounts
<1> HIDE DEF n, b
<1>3. b \in [1 .. n -> STRING]
  BY <1>1, <1>2, VolumeNamed
<1>4. b \in Seq(STRING) /\ Len(b) = n
  BY <1>1, <1>3, LenProperties
<1> QED BY <1>2, <1>4 DEF n, b

\* Every mount of a ConfigMap or a Secret has its volume.
LEMMA VolumesResolve ==
  ASSUME NEW c, c.configMounts \in Seq(ConfigMountSpec), c.secretMounts \in Seq(ConfigMountSpec)
  PROVE  /\ AllMountsOf(c) \in Seq(STRING) /\ AllVolumesOf(c) \in Seq(Volumes)
         /\ \A i \in DOMAIN AllMountsOf(c) : \E v \in DOMAIN AllVolumesOf(c) : AllVolumesOf(c)[v].name = AllMountsOf(c)[i]
<1> DEFINE one == c.configMounts
           two == c.secretMounts
           v1 == BuildVolumes(one)
           v2 == BuildVolumes(two)
           m1 == BuildVolumeMounts(one)
           m2 == BuildVolumeMounts(two)
           v == AllVolumesOf(c)
           m == AllMountsOf(c)
<1>1. v = v1 \o v2 /\ m = m1 \o m2
  BY DEF AllVolumesOf, AllMountsOf
<1>2. VolumesFor(v1, one, Len(one)) /\ VolumesFor(v2, two, Len(two))
  BY VolumesBuilt
<1>3. /\ m1 \in Seq(STRING) /\ Len(m1) = Len(one) /\ \A i \in 1 .. Len(one) : m1[i] = VolumeName(one[i])
      /\ m2 \in Seq(STRING) /\ Len(m2) = Len(two) /\ \A i \in 1 .. Len(two) : m2[i] = VolumeName(two[i])
  BY MountsNamed
<1> HIDE DEF v1, v2, m1, m2, v, m, one, two
<1>4. /\ v \in Seq(Volumes)
      /\ \A i \in DOMAIN v1 : i \in DOMAIN v /\ v[i] = v1[i]
      /\ \A i \in DOMAIN v2 : Len(v1) + i \in DOMAIN v /\ v[Len(v1) + i] = v2[i]
  <2>1. v1 \in Seq(Volumes) /\ v2 \in Seq(Volumes)
    BY <1>2 DEF VolumesFor
  <2> QED BY <1>1, <2>1, JoinedElements
<1>5. /\ m \in Seq(STRING) /\ DOMAIN m1 = 1 .. Len(m1) /\ DOMAIN m2 = 1 .. Len(m2)
      /\ \A i \in DOMAIN m1 : m[i] = m1[i]
      /\ \A i \in DOMAIN m2 : m[Len(m1) + i] = m2[i]
      /\ \A i \in DOMAIN m : i \in DOMAIN m1 \/ i - Len(m1) \in DOMAIN m2
      /\ DOMAIN m = 1 .. Len(m1) + Len(m2) /\ Len(m1) \in Nat /\ Len(m2) \in Nat
  <2>1. m1 \in Seq(STRING) /\ m2 \in Seq(STRING) /\ m = m1 \o m2
    BY <1>1, <1>3
  <2> QED BY ONLY <2>1, JoinedElements
<1>6. ASSUME NEW i \in DOMAIN m
      PROVE  \E w \in DOMAIN v : v[w].name = m[i]
  <2>1. CASE i \in DOMAIN m1
    <3>1. m[i] = VolumeName(one[i]) /\ i \in 1 .. Len(one)
      BY <1>3, <1>5, <2>1
    <3>2. PICK w \in DOMAIN v1 : v1[w].name = VolumeName(one[i])
      BY <1>2, <3>1 DEF VolumesFor
    <3> QED BY <1>4, <3>1, <3>2
  <2>2. CASE i - Len(m1) \in DOMAIN m2
    <3> DEFINE j == i - Len(m1)
    <3>1. m[Len(m1) + j] = m2[j] /\ j \in DOMAIN m2
      BY <1>5, <2>2
    <3>2. Len(m1) + j = i
      BY <1>5
    <3> HIDE DEF j
    <3>3. m[i] = VolumeName(two[j]) /\ j \in 1 .. Len(two)
      BY <1>3, <1>5, <3>1, <3>2
    <3>4. PICK w \in DOMAIN v2 : v2[w].name = VolumeName(two[j])
      BY <1>2, <3>3 DEF VolumesFor
    <3> QED BY <1>4, <3>3, <3>4
  <2> QED BY <1>5, <2>1, <2>2
<1> QED BY <1>4, <1>5, <1>6 DEF v, m

LEMMA ShortSequences ==
  ASSUME NEW S, NEW x \in S
  PROVE  <<x>> \in Seq(S) /\ <<x>> \o <<x>> \in Seq(S) /\ <<x>> \o <<>> \in Seq(S)
<1>1. <<x>> \in Seq(S)
  OBVIOUS
<1>2. <<>> \in Seq(S)
  OBVIOUS
<1> QED BY <1>1, <1>2, ConcatProperties

\* What is mounted of the storage is the claim.
LEMMA StorageMounted ==
  ASSUME NEW c, NEW P,
         c.storage.volumeClaimTemplateName # "" => c.storage.volumeClaimTemplateName \in P
  PROVE  BuildStorageMounts(c.storage) \in Seq(P) /\ InitMounts(c) \in Seq(P)
<1> DEFINE vct == c.storage.volumeClaimTemplateName
<1>1. <<>> \in Seq(P)
  BY EmptySeq
<1>2. CASE vct = ""
  <2>1. BuildStorageMounts(c.storage) = <<>>
    BY <1>2 DEF BuildStorageMounts
  <2>2. InitMounts(c) = <<>>
    BY <1>2 DEF InitMounts
  <2> QED BY ONLY <1>1, <2>1, <2>2
<1>3. CASE vct # ""
  <2>1. vct \in P
    BY <1>3
  <2>2. BuildStorageMounts(c.storage) = <<vct>> \o (IF c.storage.dataSubpath THEN <<vct>> ELSE <<>>)
    BY <1>3 DEF BuildStorageMounts
  <2>3. InitMounts(c) = <<vct>> \/ InitMounts(c) = <<>>
    BY DEF InitMounts
  <2> HIDE DEF vct
  <2>4. <<vct>> \in Seq(P) /\ <<vct>> \o <<vct>> \in Seq(P) /\ <<vct>> \o <<>> \in Seq(P)
    BY <2>1, ShortSequences
  <2>5. BuildStorageMounts(c.storage) \in Seq(P)
    BY <2>2, <2>4
  <2> QED BY <1>1, <2>3, <2>4, <2>5
<1> QED BY <1>2, <1>3

-----------------------------------------------------------------------------
(* The results. *)

\* The properties stay, and what is built is built once.
LEMMA StutterObjects ==
  ASSUME UNCHANGED objectVars
  PROVE  /\ runtimeConfig' = runtimeConfig /\ built' = built
         /\ MountsResolve' = MountsResolve /\ MountsShowTheirSource' = MountsShowTheirSource
         /\ PortsAccepted' = PortsAccepted
BY DEF objectVars, Built, MountsResolve, MountsShowTheirSource, PortsAccepted, Accepted

LEMMA MountsResolveWhenBuilt ==
  ASSUME runtimeConfig \in Configs, BuildObjects
  PROVE  MountsResolve'
<1> SUFFICES ASSUME Built' PROVE MountsResolve'
  BY DEF MountsResolve
<1> DEFINE c == runtimeConfig
           vct == c.storage.volumeClaimTemplateName
           a == AllMountsOf(c)
           v == AllVolumesOf(c)
           st == BuildStorageMounts(c.storage)
           im == InitMounts(c)
           P == {name \in STRING \cup {vct} : \/ Contains(built'.claims, name)
                                            \/ \E i \in DOMAIN v : v[i].name = name}
<1>1. /\ built'.claims = BuildVolumeClaimTemplates(c.storage) /\ built'.volumes = v
      /\ built'.mounts = a \o st /\ built'.initMounts = im
      /\ c.configMounts \in Seq(ConfigMountSpec) /\ c.secretMounts \in Seq(ConfigMountSpec)
  BY PartsBuilt
<1>2. vct # "" => vct \in P
  <2>1. ASSUME vct # ""
        PROVE  Contains(built'.claims, vct)
    <3>1. built'.claims = <<vct>>
      BY <1>1, <2>1 DEF BuildVolumeClaimTemplates
    <3> QED BY <3>1 DEF Contains
  <2> QED BY <2>1
<1>3. st \in Seq(P) /\ im \in Seq(P)
  <2> HIDE DEF P
  <2> QED BY <1>2, StorageMounted
<1>4. a \in Seq(P)
  <2>1. a \in Seq(STRING) /\ \A i \in DOMAIN a : \E w \in DOMAIN v : v[w].name = a[i]
    BY <1>1, VolumesResolve
  <2> HIDE DEF a, v
  <2>2. \A i \in DOMAIN a : a[i] \in STRING
    BY <2>1, LenProperties
  <2>3. \A i \in DOMAIN a : a[i] \in P
    BY <2>1, <2>2
  <2> HIDE DEF P
  <2> QED BY <2>1, <2>3, LenProperties
<1> HIDE DEF P, a, st, im
<1>5. (a \o st) \o im \in Seq(P)
  BY <1>3, <1>4, ConcatProperties
<1> DEFINE all == (a \o st) \o im
<1>6. all = built'.mounts \o built'.initMounts
  BY <1>1
<1> HIDE DEF all
<1>7. \A i \in DOMAIN all : all[i] \in P
  BY <1>5, LenProperties DEF all
<1>8. ASSUME NEW i \in DOMAIN all
      PROVE  Contains(built'.claims, all[i]) \/ \E w \in DOMAIN built'.volumes : built'.volumes[w].name = all[i]
  <2>1. all[i] \in P
    BY <1>7
  <2> QED BY <1>1, <2>1 DEF P
<1> QED BY <1>6, <1>8 DEF MountsResolve

\* buildPodTemplateSpec: whatever volumes, storage and init container the
\* properties ask for, no mount of the pod is left without its volume or claim.
THEOREM MountsCorrect == ObjectsSpec => []MountsResolve
<1> DEFINE Inv == runtimeConfig \in Configs /\ MountsResolve
<1>1. ObjectsInit => Inv
  BY DEF ObjectsInit, NotBuilt, Built, MountsResolve
<1>2. Inv /\ [BuildObjects]_objectVars => Inv'
  <2> SUFFICES ASSUME Inv, [BuildObjects]_objectVars PROVE Inv'
    OBVIOUS
  <2>1. CASE BuildObjects
    BY <2>1, MountsResolveWhenBuilt DEF BuildObjects
  <2>2. CASE UNCHANGED objectVars
    BY <2>2, StutterObjects
  <2> QED BY <2>1, <2>2
<1>3. Inv => MountsResolve
  OBVIOUS
<1> HIDE DEF Inv
<1> QED BY <1>1, <1>2, <1>3, PTL DEF ObjectsSpec

LEMMA PortsForAccepted ==
  ASSUME NEW specs, NEW ports, PortsFor(ports, specs, Len(specs))
  PROVE  Accepted(ports, specs)
<1>1. Len(ports) = Len(specs) /\ DOMAIN ports = 1 .. Len(specs)
  BY LenProperties DEF PortsFor
<1>2. \A i \in DOMAIN ports : ports[i].port = specs[i].containerPort
  BY <1>1 DEF PortsFor
<1>3. \A i, j \in DOMAIN ports : ports[i].name = ports[j].name => i = j
  BY <1>1 DEF PortsFor
<1> QED BY <1>1, <1>2, <1>3 DEF Accepted

LEMMA PortsAcceptedWhenBuilt ==
  ASSUME runtimeConfig \in Configs, BuildObjects
  PROVE  PortsAccepted'
<1> SUFFICES ASSUME Built' PROVE (Built => PortsAccepted)'
  BY DEF PortsAccepted
<1> DEFINE c == runtimeConfig
           client == built'.clientPorts
<1>1. /\ built'.ports = BuildServicePorts(c.ports)
      /\ client = <<>> \/ client = BuildServicePorts(c.service.ports)
      /\ c.ports \in Seq(PortSpec) /\ c.service.ports \in Seq(PortSpec)
  BY PartsBuilt
<1>2. \A specs \in Seq(PortSpec) : Accepted(BuildServicePorts(specs), specs)
  BY PortsBuilt, PortsForAccepted
<1>3. Accepted(built'.ports, c.ports)
  BY <1>1, <1>2
<1>4. client = <<>> \/ Accepted(client, c.service.ports)
  BY <1>1, <1>2
<1>5. runtimeConfig' = c
  BY DEF BuildObjects
<1> QED BY <1>3, <1>4, <1>5 DEF PortsAccepted

\* BuildServicePorts: for any list of ports, named or not, the service gets
\* each port, in its place and under a name of its own.
THEOREM PortsCorrect == ObjectsSpec => []PortsAccepted
<1> DEFINE Inv == runtimeConfig \in Configs /\ PortsAccepted
<1>1. ObjectsInit => Inv
  BY DEF ObjectsInit, NotBuilt, Built, PortsAccepted
<1>2. Inv /\ [BuildObjects]_objectVars => Inv'
  <2> SUFFICES ASSUME Inv, [BuildObjects]_objectVars PROVE Inv'
    OBVIOUS
  <2>1. CASE BuildObjects
    BY <2>1, PortsAcceptedWhenBuilt DEF BuildObjects
  <2>2. CASE UNCHANGED objectVars
    BY <2>2, StutterObjects
  <2> QED BY <2>1, <2>2
<1>3. Inv => PortsAccepted
  OBVIOUS
<1> HIDE DEF Inv
<1> QED BY <1>1, <1>2, <1>3, PTL DEF ObjectsSpec

AllSpecsOf(c) == c.configMounts \o c.secretMounts

\* The i-th mount is that of the i-th of all specs.
LEMMA MountsInPlace ==
  ASSUME NEW c, c.configMounts \in Seq(ConfigMountSpec), c.secretMounts \in Seq(ConfigMountSpec)
  PROVE  /\ AllSpecsOf(c) \in Seq(ConfigMountSpec)
         /\ DOMAIN AllSpecsOf(c) = DOMAIN AllMountsOf(c)
         /\ \A i \in DOMAIN AllSpecsOf(c) : AllMountsOf(c)[i] = VolumeName(AllSpecsOf(c)[i])
<1> DEFINE one == c.configMounts
           two == c.secretMounts
           m1 == BuildVolumeMounts(one)
           m2 == BuildVolumeMounts(two)
           all == AllSpecsOf(c)
           m == AllMountsOf(c)
<1>1. all = one \o two /\ m = m1 \o m2
  BY DEF AllSpecsOf, AllMountsOf
<1>2. /\ m1 \in Seq(STRING) /\ Len(m1) = Len(one) /\ \A i \in 1 .. Len(one) : m1[i] = VolumeName(one[i])
      /\ m2 \in Seq(STRING) /\ Len(m2) = Len(two) /\ \A i \in 1 .. Len(two) : m2[i] = VolumeName(two[i])
      /\ one \in Seq(ConfigMountSpec) /\ two \in Seq(ConfigMountSpec)
  BY MountsNamed
<1> HIDE DEF one, two, m1, m2, all, m
<1>3. /\ DOMAIN m = 1 .. Len(m1) + Len(m2)
      /\ DOMAIN m1 = 1 .. Len(m1) /\ DOMAIN m2 = 1 .. Len(m2)
      /\ \A i \in DOMAIN m1 : m[i] = m1[i]
      /\ \A i \in DOMAIN m2 : m[Len(m1) + i] = m2[i]
  <2>1. m1 \in Seq(STRING) /\ m2 \in Seq(STRING) /\ m = m1 \o m2
    BY <1>1, <1>2
  <2> QED BY ONLY <2>1, JoinedElements
<1>4. /\ all \in Seq(ConfigMountSpec) /\ DOMAIN all = 1 .. Len(one) + Len(two)
      /\ DOMAIN one = 1 .. Len(one) /\ DOMAIN two = 1 .. Len(two)
      /\ \A i \in DOMAIN one : all[i] = one[i]
      /\ \A i \in DOMAIN two : all[Len(one) + i] = two[i]
      /\ \A i \in DOMAIN all : i \in DOMAIN one \/ i - Len(one) \in DOMAIN two
      /\ Len(one) \in Nat /\ Len(two) \in Nat
  BY ONLY <1>1, <1>2, JoinedElements
<1>5. ASSUME NEW i \in DOMAIN all
      PROVE  m[i] = VolumeName(all[i])
  <2>1. CASE i \in DOMAIN one
    BY <1>2, <1>3, <1>4, <2>1
  <2>2. CASE i - Len(one) \in DOMAIN two
    <3> DEFINE j == i - Len(one)
    <3>1. j \in DOMAIN two /\ Len(one) + j = i
      BY <1>4, <2>2
    <3> HIDE DEF j
    <3>2. m[Len(m1) + j] = m2[j] /\ all[Len(one) + j] = two[j] /\ m2[j] = VolumeName(two[j])
      BY <1>2, <1>3, <1>4, <3>1
    <3> QED BY <1>2, <3>1, <3>2
  <2> QED BY <1>4, <2>1, <2>2
<1> QED BY <1>2, <1>3, <1>4, <1>5 DEF all, m

\* Every volume is that of a spec: of a ConfigMap mount if it comes before the
\* volumes of the Secrets, of a Secret mount if not.
LEMMA VolumesFromSpecs ==
  ASSUME NEW c, c.configMounts \in Seq(ConfigMountSpec), c.secretMounts \in Seq(ConfigMountSpec),
         NEW v \in DOMAIN AllVolumesOf(c)
  PROVE  \E i \in DOMAIN AllSpecsOf(c) :
           /\ AllVolumesOf(c)[v] = VolumeOf(AllSpecsOf(c)[i])
           /\ (i <= Len(c.configMounts)) <=> v \in DOMAIN BuildVolumes(c.configMounts)
<1> DEFINE one == c.configMounts
           two == c.secretMounts
           v1 == BuildVolumes(one)
           v2 == BuildVolumes(two)
           all == AllSpecsOf(c)
           vols == AllVolumesOf(c)
<1>1. all = one \o two /\ vols = v1 \o v2
  BY DEF AllSpecsOf, AllVolumesOf
<1>2. /\ VolumesFor(v1, one, Len(one)) /\ VolumesFor(v2, two, Len(two))
      /\ one \in Seq(ConfigMountSpec) /\ two \in Seq(ConfigMountSpec)
  BY VolumesBuilt
<1>3. v \in DOMAIN vols
  OBVIOUS
<1> HIDE DEF one, two, v1, v2, all, vols
<1>4. v1 \in Seq(Volumes) /\ v2 \in Seq(Volumes)
  BY <1>2 DEF VolumesFor
<1>5. /\ DOMAIN v1 = 1 .. Len(v1) /\ DOMAIN v2 = 1 .. Len(v2) /\ Len(v1) \in Nat /\ Len(v2) \in Nat
      /\ DOMAIN vols = 1 .. Len(v1) + Len(v2)
      /\ \A i \in DOMAIN v1 : vols[i] = v1[i]
      /\ \A i \in DOMAIN v2 : vols[Len(v1) + i] = v2[i]
      /\ \A i \in DOMAIN vols : i \in DOMAIN v1 \/ i - Len(v1) \in DOMAIN v2
  BY ONLY <1>1, <1>4, JoinedElements
<1>6. /\ DOMAIN one = 1 .. Len(one) /\ DOMAIN two = 1 .. Len(two)
      /\ \A i \in DOMAIN one : i \in DOMAIN all /\ all[i] = one[i]
      /\ \A i \in DOMAIN two : Len(one) + i \in DOMAIN all /\ all[Len(one) + i] = two[i]
      /\ Len(one) \in Nat /\ Len(two) \in Nat
  BY ONLY <1>1, <1>2, JoinedElements
<1>7. \E i \in DOMAIN all : vols[v] = VolumeOf(all[i]) /\ ((i <= Len(one)) <=> v \in DOMAIN v1)
  <2>1. CASE v \in DOMAIN v1
    <3>1. PICK i \in 1 .. Len(one) : v1[v] = VolumeOf(one[i])
      BY <1>2, <2>1 DEF VolumesFor
    <3>2. i <= Len(one) /\ i \in DOMAIN all /\ vols[v] = VolumeOf(all[i])
      BY <1>5, <1>6, <2>1, <3>1
    <3> QED BY <2>1, <3>2
  <2>2. CASE v - Len(v1) \in DOMAIN v2
    <3> DEFINE w == v - Len(v1)
    <3>1. w \in DOMAIN v2 /\ Len(v1) + w = v /\ v \notin DOMAIN v1
      BY <1>3, <1>5, <2>2
    <3> HIDE DEF w
    <3>2. PICK i \in 1 .. Len(two) : v2[w] = VolumeOf(two[i])
      BY <1>2, <3>1 DEF VolumesFor
    <3>3. Len(one) + i \in DOMAIN all /\ all[Len(one) + i] = two[i] /\ ~(Len(one) + i <= Len(one))
      BY <1>6, <3>2
    <3>4. vols[v] = v2[w]
      BY <1>5, <3>1
    <3> QED BY <3>1, <3>2, <3>3, <3>4
  <2> QED BY <1>3, <1>5, <2>1, <2>2
<1> QED BY <1>7 DEF one, v1, all, vols

\* Names that the specs keep apart are kept apart: no two volumes have one.
LEMMA VolumesOnce ==
  ASSUME NEW c, c.configMounts \in Seq(ConfigMountSpec), c.secretMounts \in Seq(ConfigMountSpec),
         NamesApart(c),
         NEW v \in DOMAIN AllVolumesOf(c), NEW w \in DOMAIN AllVolumesOf(c),
         AllVolumesOf(c)[v].name = AllVolumesOf(c)[w].name
  PROVE  v = w
<1> DEFINE one == c.configMounts
           two == c.secretMounts
           v1 == BuildVolumes(one)
           v2 == BuildVolumes(two)
           all == AllSpecsOf(c)
           vols == AllVolumesOf(c)
<1>1. vols = v1 \o v2
  BY DEF AllVolumesOf
<1>2. VolumesFor(v1, one, Len(one)) /\ VolumesFor(v2, two, Len(two))
  BY VolumesBuilt
<1>3. (v \in DOMAIN v1) <=> (w \in DOMAIN v1)
  <2>1. PICK i \in DOMAIN all : vols[v] = VolumeOf(all[i]) /\ ((i <= Len(one)) <=> v \in DOMAIN v1)
    BY VolumesFromSpecs
  <2>2. PICK j \in DOMAIN all : vols[w] = VolumeOf(all[j]) /\ ((j <= Len(one)) <=> w \in DOMAIN v1)
    BY VolumesFromSpecs
  <2>3. VolumeName(all[i]) = VolumeName(all[j])
    BY <2>1, <2>2 DEF VolumeOf
  <2>4. (i <= Len(one)) = (j <= Len(one))
    BY <2>3, Zenon DEF NamesApart, AllSpecsOf
  <2> QED BY <2>1, <2>2, <2>4
<1>4. v \in DOMAIN vols /\ w \in DOMAIN vols /\ vols[v].name = vols[w].name
  OBVIOUS
<1> HIDE DEF one, two, v1, v2, all, vols
<1>5. v1 \in Seq(Volumes) /\ v2 \in Seq(Volumes)
  BY <1>2 DEF VolumesFor
<1>6. /\ DOMAIN v1 = 1 .. Len(v1) /\ DOMAIN v2 = 1 .. Len(v2) /\ Len(v1) \in Nat /\ Len(v2) \in Nat
      /\ DOMAIN vols = 1 .. Len(v1) + Len(v2)
      /\ \A i \in DOMAIN v1 : vols[i] = v1[i]
      /\ \A i \in DOMAIN v2 : vols[Len(v1) + i] = v2[i]
      /\ \A i \in DOMAIN vols : i \in DOMAIN v1 \/ i - Len(v1) \in DOMAIN v2
  BY ONLY <1>1, <1>5, JoinedElements
<1>7. CASE v \in DOMAIN v1
  <2>1. w \in DOMAIN v1
    BY <1>3, <1>7
  <2>2. v1[v].name = v1[w].name
    BY <1>4, <1>6, <1>7, <2>1
  <2> QED BY <1>2, <1>7, <2>1, <2>2 DEF VolumesFor
<1>8. CASE v \notin DOMAIN v1
  <2> DEFINE a == v - Len(v1)
             b == w - Len(v1)
  <2>1. a \in DOMAIN v2 /\ b \in DOMAIN v2
    BY <1>3, <1>4, <1>6, <1>8
  <2>2. Len(v1) + a = v /\ Len(v1) + b = w
    BY <1>4, <1>6
  <2> HIDE DEF a, b
  <2>3. v2[a].name = v2[b].name
    BY <1>4, <1>6, <2>1, <2>2
  <2>4. a = b
    BY <1>2, <2>1, <2>3 DEF VolumesFor
  <2> QED BY <2>2, <2>4
<1> QED BY <1>7, <1>8

\* And the volume a mount names is the one made for its source.
LEMMA VolumesOfSources ==
  ASSUME NEW c, c.configMounts \in Seq(ConfigMountSpec), c.secretMounts \in Seq(ConfigMountSpec),
         NamesApart(c), NEW i \in DOMAIN AllSpecsOf(c)
  PROVE  \E v \in DOMAIN AllVolumesOf(c) :
           AllVolumesOf(c)[v] = [name |-> AllMountsOf(c)[i], source |-> AllSpecsOf(c)[i].name]
<1> DEFINE all == AllSpecsOf(c)
           vols == AllVolumesOf(c)
           m == AllMountsOf(c)
<1>1. DOMAIN all = DOMAIN m /\ m[i] = VolumeName(all[i])
  BY MountsInPlace
<1>2. PICK v \in DOMAIN vols : vols[v].name = m[i]
  BY <1>1, VolumesResolve
<1>3. PICK j \in DOMAIN all : vols[v] = VolumeOf(all[j])
  BY VolumesFromSpecs
<1>4. VolumeName(all[i]) = VolumeName(all[j])
  BY <1>1, <1>2, <1>3 DEF VolumeOf
<1>5. all[i].name = all[j].name
  BY <1>4, Zenon DEF NamesApart, AllSpecsOf
<1>6. vols[v] = [name |-> m[i], source |-> all[i].name]
  BY <1>1, <1>3, <1>4, <1>5 DEF VolumeOf
<1> QED BY <1>6

LEMMA SourcesShownWhenBuilt ==
  ASSUME runtimeConfig \in Configs, BuildObjects
  PROVE  MountsShowTheirSource'
<1>1. runtimeConfig' = runtimeConfig
  BY DEF BuildObjects
<1>2. NamesApart(runtimeConfig)' = NamesApart(runtimeConfig)
  BY <1>1 DEF NamesApart
<1>3. AllSpecsOf(runtimeConfig)' = AllSpecsOf(runtimeConfig)
  BY <1>1 DEF AllSpecsOf
<1> DEFINE c == runtimeConfig
           all == AllSpecsOf(c)
           vols == AllVolumesOf(c)
           m == AllMountsOf(c)
           st == BuildStorageMounts(c.storage)
<1> SUFFICES ASSUME Built', NamesApart(c)
             PROVE  /\ \A v, w \in DOMAIN built'.volumes :
                         built'.volumes[v].name = built'.volumes[w].name => v = w
                    /\ \A i \in DOMAIN all : \E v \in DOMAIN built'.volumes :
                         built'.volumes[v] = [name |-> built'.mounts[i], source |-> all[i].name]
  <2>1. (Built /\ NamesApart(runtimeConfig) =>
           /\ \A v, w \in DOMAIN built.volumes :
                built.volumes[v].name = built.volumes[w].name => v = w
           /\ \A i \in DOMAIN AllSpecsOf(runtimeConfig) : \E v \in DOMAIN built.volumes :
                built.volumes[v] = [name |-> built.mounts[i], source |-> AllSpecsOf(runtimeConfig)[i].name])'
        => MountsShowTheirSource'
    BY DEF MountsShowTheirSource, AllSpecsOf
  <2> QED BY <1>2, <1>3, <2>1
<1>4. /\ built'.volumes = vols /\ built'.mounts = m \o st
      /\ c.configMounts \in Seq(ConfigMountSpec) /\ c.secretMounts \in Seq(ConfigMountSpec)
  BY PartsBuilt
<1>5. \A v, w \in DOMAIN vols : vols[v].name = vols[w].name => v = w
  BY <1>4, VolumesOnce
<1>6. ASSUME NEW i \in DOMAIN all
      PROVE  \E v \in DOMAIN vols : vols[v] = [name |-> built'.mounts[i], source |-> all[i].name]
  <2>1. built'.mounts[i] = m[i]
    <3> DEFINE P == STRING \cup {c.storage.volumeClaimTemplateName}
    <3>1. st \in Seq(P)
      BY StorageMounted
    <3>2. m \in Seq(STRING) /\ i \in DOMAIN m
      BY <1>4, VolumesResolve, MountsInPlace
    <3>3. (m \o st)[i] = m[i]
      <4> HIDE DEF m, st, P
      <4>1. m \in Seq(P)
        <5>1. \A k \in DOMAIN m : m[k] \in P
          <6>1. \A k \in DOMAIN m : m[k] \in STRING
            BY <3>2, LenProperties
          <6> QED BY <6>1 DEF P
        <5> QED BY <3>2, <5>1, LenProperties
      <4> QED BY ONLY <3>1, <3>2, <4>1, JoinedElements
    <3> QED BY <1>4, <3>3
  <2>2. \E v \in DOMAIN vols : vols[v] = [name |-> m[i], source |-> all[i].name]
    BY <1>4, VolumesOfSources
  <2> QED BY <2>1, <2>2
<1> QED BY <1>4, <1>5, <1>6

\* BuildVolumes and BuildVolumeMounts: a pod has each volume once, and a mount
\* shows the ConfigMap or the Secret it was given, unless the properties give
\* one name to two of them.
THEOREM SourcesCorrect == ObjectsSpec => []MountsShowTheirSource
<1> DEFINE Inv == runtimeConfig \in Configs /\ MountsShowTheirSource
<1>1. ObjectsInit => Inv
  BY DEF ObjectsInit, NotBuilt, Built, MountsShowTheirSource
<1>2. Inv /\ [BuildObjects]_objectVars => Inv'
  <2> SUFFICES ASSUME Inv, [BuildObjects]_objectVars PROVE Inv'
    OBVIOUS
  <2>1. CASE BuildObjects
    BY <2>1, SourcesShownWhenBuilt DEF BuildObjects
  <2>2. CASE UNCHANGED objectVars
    BY <2>2, StutterObjects
  <2> QED BY <2>1, <2>2
<1>3. Inv => MountsShowTheirSource
  OBVIOUS
<1> HIDE DEF Inv
<1> QED BY <1>1, <1>2, <1>3, PTL DEF ObjectsSpec

\* A member of a sequence is one of a longer one that starts with it.
LEMMA StillContained ==
  ASSUME NEW S, NEW s \in Seq(S), NEW t \in Seq(S), NEW e, Contains(s, e)
  PROVE  Contains(s \o t, e)
<1>1. PICK i \in DOMAIN s : s[i] = e
  BY LenProperties DEF Contains
<1>2. i \in DOMAIN (s \o t) /\ (s \o t)[i] = e
  BY <1>1, JoinedElements
<1> QED BY <1>2, JoinedElements DEF Contains

LEMMA TypeWhenBuilt ==
  ASSUME runtimeConfig \in Configs, BuildObjects
  PROVE  ObjectsTypeOK'
<1> DEFINE c == runtimeConfig
           ss == [kind |-> "StatefulSet", name |-> "app"]
<1>1. built'.status = "error" \/ built'.status = "built"
  BY DEF BuildObjects, Refused
<1>2. ASSUME Built'
      PROVE  /\ Contains(built'.objects, ss)
             /\ Len(built'.claims) = 1 /\ built'.ports # <<>>
  <2>1. built'.objects = Objects(c) /\ verifyParameters(c)
    BY <1>2 DEF BuildObjects, Built, Refused
  <2>2. Len(built'.claims) = 1
    <3>1. built'.claims = BuildVolumeClaimTemplates(c.storage)
      BY <1>2, PartsBuilt
    <3> DEFINE claim == IF c.storage.volumeClaimTemplateName = "" THEN "data"
                        ELSE c.storage.volumeClaimTemplateName
    <3>2. built'.claims = <<claim>>
      BY <3>1 DEF BuildVolumeClaimTemplates
    <3> HIDE DEF claim
    <3> QED BY <3>2
  <2>3. built'.ports # <<>>
    <3>1. built'.ports = BuildServicePorts(c.ports) /\ c.ports \in Seq(PortSpec)
      BY <1>2, PartsBuilt
    <3>2. PortsFor(built'.ports, c.ports, Len(c.ports))
      BY <3>1, PortsBuilt
    <3>3. c.ports # <<>>
      BY <2>1 DEF verifyParameters
    <3>4. Len(c.ports) # 0
      BY <3>1, <3>3, EmptySeq
    <3> QED BY <3>2, <3>4, EmptySeq DEF PortsFor
  <2>4. Contains(Objects(c), ss)
    <3> DEFINE cm == [kind |-> "ConfigMap", name |-> "app-config"]
               hs == [kind |-> "Service", name |-> "app-headless"]
               cs == [kind |-> "Service", name |-> "app"]
               sa == [kind |-> "ServiceAccount", name |-> DeriveServiceAccountName(c.serviceAccount)]
               S == {cm, ss, hs, cs, sa}
               a == IF c.configFiles THEN <<cm>> ELSE <<>>
               d == IF ShouldBuildClientService(c.service) THEN <<cs>> ELSE <<>>
               e == IF c.serviceAccount.given /\ c.serviceAccount.create # "false" THEN <<sa>> ELSE <<>>
    <3>1. Objects(c) = (((a \o <<ss>>) \o <<hs>>) \o d) \o e
      BY DEF Objects, Object
    <3>2. /\ cm \in S /\ ss \in S /\ hs \in S /\ cs \in S /\ sa \in S
      OBVIOUS
    <3> HIDE DEF cm, ss, hs, cs, sa, S
    <3>3. /\ <<ss>> \in Seq(S) /\ <<hs>> \in Seq(S) /\ <<cm>> \in Seq(S) /\ <<cs>> \in Seq(S)
          /\ <<sa>> \in Seq(S) /\ <<>> \in Seq(S)
      BY <3>2, ShortSequences, EmptySeq
    <3>4. a \in Seq(S) /\ d \in Seq(S) /\ e \in Seq(S)
      BY <3>3
    <3> HIDE DEF a, d, e
    <3> DEFINE one == <<ss>>
               two == <<hs>>
    <3>5. one \in Seq(S) /\ two \in Seq(S) /\ 1 \in DOMAIN one /\ one[1] = ss
      BY <3>3
    <3>6. Objects(c) = (((a \o one) \o two) \o d) \o e
      BY <3>1
    <3> HIDE DEF one, two
    <3>7. a \o one \in Seq(S) /\ Contains(a \o one, ss)
      <4>1. a \o one \in Seq(S) /\ Len(a) + 1 \in DOMAIN (a \o one) /\ (a \o one)[Len(a) + 1] = ss
            /\ DOMAIN (a \o one) = 1 .. Len(a \o one)
        BY <3>4, <3>5, JoinedElements, LenProperties
      <4> QED BY <4>1 DEF Contains
    <3>8. (a \o one) \o two \in Seq(S) /\ Contains((a \o one) \o two, ss)
      BY <3>5, <3>7, StillContained, JoinedElements
    <3>9. ((a \o one) \o two) \o d \in Seq(S) /\ Contains(((a \o one) \o two) \o d, ss)
      BY <3>4, <3>8, StillContained, JoinedElements
    <3> QED BY <3>4, <3>6, <3>9, StillContained
  <2> QED BY <2>1, <2>2, <2>3, <2>4
<1> QED BY <1>1, <1>2 DEF ObjectsTypeOK, Built

\* BuildObjects either refuses the properties or returns a StatefulSet with
\* one claim and at least one port.
THEOREM ObjectsTypeCorrect == ObjectsSpec => []ObjectsTypeOK
<1> DEFINE Inv == runtimeConfig \in Configs /\ ObjectsTypeOK
<1>1. ObjectsInit => Inv
  BY DEF ObjectsInit, NotBuilt, Built, ObjectsTypeOK
<1>2. Inv /\ [BuildObjects]_objectVars => Inv'
  <2> SUFFICES ASSUME Inv, [BuildObjects]_objectVars PROVE Inv'
    OBVIOUS
  <2>1. CASE BuildObjects
    BY <2>1, TypeWhenBuilt DEF BuildObjects
  <2>2. CASE UNCHANGED objectVars
    BY <2>2 DEF objectVars, ObjectsTypeOK, Built
  <2> QED BY <2>1, <2>2
<1>3. Inv => ObjectsTypeOK
  OBVIOUS
<1> HIDE DEF Inv
<1> QED BY <1>1, <1>2, <1>3, PTL DEF ObjectsSpec
=============================================================================
