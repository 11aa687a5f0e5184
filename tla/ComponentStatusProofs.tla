------------------------- MODULE ComponentStatusProofs -------------------------
(***************************************************************************)
(* What the saved status says of the components, for any specs, names and  *)
(* bounds: phase and entries agree, the components whose objects were      *)
(* refused are the ones named, a healthy component's StatefulSet was       *)
(* applied in the same cycle, and with no cycle to come all is applied.    *)
(*                                                                         *)
(* The objects of a spec are a sequence made of sequences.  Its elements   *)
(* are found by an induction over that sequence; the induction itself is   *)
(* that of the least element of a set of numbers.                          *)
(***************************************************************************)
EXTENDS ComponentStatus, SequenceTheorems, WellFoundedInduction, TLAPS

(* Sequences of sequences. *)

\* A set of numbers has a least one.
LEMMA LeastNumber ==
  ASSUME NEW T \in SUBSET Nat, T # {}
  PROVE  \E x \in T : \A y \in T : ~(y < x)
<1>1. PICK x \in T : \A y \in T : ~ (<<y, x>> \in OpToRel(<, Nat))
  BY NatLessThanWellFounded, WFMin
<1>2. \A y \in T : y < x => <<y, x>> \in OpToRel(<, Nat)
  BY DEF OpToRel
<1> QED BY <1>1, <1>2

\* Induction up to n, over membership in a set.
LEMMA UpTo ==
  ASSUME NEW n \in Nat, NEW S, 1 \in S, \A k \in 1 .. n - 1 : k \in S => k + 1 \in S
  PROVE  1 .. n \subseteq S
<1> DEFINE T == {k \in 1 .. n : k \notin S}
<1> SUFFICES ASSUME T # {} PROVE FALSE
  OBVIOUS
<1>1. PICK x \in T : \A y \in T : ~(y < x)
  <2> T \in SUBSET Nat
    OBVIOUS
  <2> HIDE DEF T
  <2> QED BY LeastNumber
<1>2. x \in 1 .. n /\ x \notin S
  OBVIOUS
<1>3. x # 1 /\ x - 1 \in 1 .. n - 1
  BY <1>2
<1>4. x - 1 \in S
  BY <1>1, <1>3
<1> QED BY <1>2, <1>3, <1>4

\* f[i] is the first i sequences of ss, one after the other.
Flattens(f, ss, k) == f = [i \in 1 .. k |-> IF i = 1 THEN ss[i] ELSE f[i - 1] \o ss[i]]

\* There is such a function.
LEMMA FlattensExists ==
  ASSUME NEW ss, NEW n \in Nat \ {0}
  PROVE  \E f : Flattens(f, ss, n)
<1> DEFINE S == {k \in 1 .. n : \E f : Flattens(f, ss, k)}
<1>1. 1 \in S
  <2> DEFINE g == [i \in 1 .. 1 |-> ss[i]]
  <2>1. \A i \in 1 .. 1 : (IF i = 1 THEN ss[i] ELSE g[i - 1] \o ss[i]) = ss[i]
    OBVIOUS
  <2>2. Flattens(g, ss, 1)
    BY <2>1 DEF Flattens
  <2> QED BY <2>2
<1>2. ASSUME NEW k \in 1 .. n - 1, k \in S
      PROVE  k + 1 \in S
  <2>1. PICK f : Flattens(f, ss, k)
    BY <1>2
  <2> DEFINE g == [i \in 1 .. k + 1 |-> IF i \in 1 .. k THEN f[i] ELSE f[k] \o ss[k + 1]]
             h == [i \in 1 .. k + 1 |-> IF i = 1 THEN ss[i] ELSE g[i - 1] \o ss[i]]
  <2>2. ASSUME NEW i \in 1 .. k + 1
        PROVE  g[i] = h[i]
    <3>1. CASE i = k + 1
      BY <3>1
    <3>2. CASE i = 1
      BY <2>1, <3>2 DEF Flattens
    <3>3. CASE i # 1 /\ i # k + 1
      <4>1. i \in 1 .. k /\ i - 1 \in 1 .. k /\ i - 1 \in 1 .. k + 1
        BY <3>3
      <4>2. f[i] = f[i - 1] \o ss[i]
        <5>1. f = [j \in 1 .. k |-> IF j = 1 THEN ss[j] ELSE f[j - 1] \o ss[j]]
          BY <2>1 DEF Flattens
        <5> QED BY <3>3, <4>1, <5>1
      <4>3. g[i] = f[i] /\ g[i - 1] = f[i - 1]
        BY <4>1
      <4>4. h[i] = g[i - 1] \o ss[i]
        <5> HIDE DEF g
        <5> QED BY <3>3
      <4> QED BY <4>2, <4>3, <4>4
    <3> QED BY <3>1, <3>2, <3>3
  <2>3. g = h
    BY <2>2
  <2>4. Flattens(g, ss, k + 1)
    BY <2>3 DEF Flattens
  <2> QED BY <2>4
<1>3. 1 .. n \subseteq S
  <2> HIDE DEF S
  <2> QED BY <1>1, <1>2, UpTo
<1> QED BY <1>3

\* The elements of two sequences joined.
LEMMA ConcatElements ==
  ASSUME NEW S, NEW s \in Seq(S), NEW t \in Seq(S)
  PROVE  s \o t \in Seq(S) /\ ToSet(s \o t) = ToSet(s) \cup ToSet(t)
<1>1. /\ s \o t \in Seq(S) /\ Len(s \o t) = Len(s) + Len(t)
      /\ \A i \in 1 .. Len(s) + Len(t) :
           (s \o t)[i] = IF i <= Len(s) THEN s[i] ELSE t[i - Len(s)]
  BY ConcatProperties
<1>2. ASSUME NEW i \in 1 .. Len(s) + Len(t)
      PROVE  (s \o t)[i] \in ToSet(s) \cup ToSet(t)
  <2>1. CASE i <= Len(s)
    BY <1>1, <2>1 DEF ToSet
  <2>2. CASE ~(i <= Len(s))
    <3>1. i - Len(s) \in 1 .. Len(t)
      BY <2>2
    <3> QED BY <1>1, <2>2, <3>1 DEF ToSet
  <2> QED BY <2>1, <2>2
<1>3. ASSUME NEW i \in 1 .. Len(s)
      PROVE  s[i] \in ToSet(s \o t)
  <2>1. i \in 1 .. Len(s) + Len(t) /\ (s \o t)[i] = s[i]
    BY <1>1
  <2> QED BY <1>1, <2>1 DEF ToSet
<1>4. ASSUME NEW i \in 1 .. Len(t)
      PROVE  t[i] \in ToSet(s \o t)
  <2> DEFINE j == i + Len(s)
  <2>1. Len(s) \in Nat /\ Len(t) \in Nat
    BY LenProperties
  <2>2. j \in 1 .. Len(s) + Len(t) /\ ~(j <= Len(s)) /\ j - Len(s) = i
    BY <2>1
  <2> HIDE DEF j
  <2>3. (s \o t)[j] = t[i]
    BY <1>1, <2>2
  <2>4. j \in DOMAIN (s \o t)
    BY <1>1, <2>2, LenProperties
  <2> QED BY <2>3, <2>4 DEF ToSet
<1>5. /\ DOMAIN (s \o t) = 1 .. Len(s) + Len(t)
      /\ DOMAIN s = 1 .. Len(s) /\ DOMAIN t = 1 .. Len(t)
  BY <1>1, LenProperties
<1>6. ToSet(s \o t) \subseteq ToSet(s) \cup ToSet(t)
  BY <1>2, <1>5 DEF ToSet
<1>7. ToSet(s) \subseteq ToSet(s \o t) /\ ToSet(t) \subseteq ToSet(s \o t)
  <2> DEFINE u == ToSet(s \o t)
  <2>1. (\A i \in 1 .. Len(s) : s[i] \in u) /\ (\A i \in 1 .. Len(t) : t[i] \in u)
    BY <1>3, <1>4
  <2> HIDE DEF u
  <2>2. ToSet(s) \subseteq u /\ ToSet(t) \subseteq u
    BY <1>5, <2>1 DEF ToSet
  <2> QED BY <2>2 DEF u
<1> QED BY <1>1, <1>6, <1>7

\* The elements of the first k sequences.
ElementsTo(ss, k) == UNION {ToSet(ss[i]) : i \in 1 .. k}

\* One more sequence, its elements more.
LEMMA OneMore ==
  ASSUME NEW ss, NEW k \in Nat
  PROVE  ElementsTo(ss, k + 1) = ElementsTo(ss, k) \cup ToSet(ss[k + 1])
<1>1. 1 .. k + 1 = (1 .. k) \cup {k + 1}
  OBVIOUS
<1> QED BY <1>1 DEF ElementsTo

\* FlattenSeq returns a sequence with the elements of the given ones.
LEMMA Flattened ==
  ASSUME NEW S, NEW ss, NEW n \in Nat \ {0}, ss \in [1 .. n -> Seq(S)]
  PROVE  FlattenSeq(ss) \in Seq(S) /\ ToSet(FlattenSeq(ss)) = ElementsTo(ss, n)
<1> DEFINE f == CHOOSE g : Flattens(g, ss, n)
<1>1. Flattens(f, ss, n)
  BY FlattensExists
<1>2. Len(ss) = n
  BY LenProperties
<1>3. FlattenSeq(ss) = f[n]
  BY <1>2 DEF FlattenSeq, Flattens
<1> HIDE DEF f
<1>4. f[1] = ss[1] /\ \A k \in 1 .. n - 1 : f[k + 1] = f[k] \o ss[k + 1]
  <2>1. f = [i \in 1 .. n |-> IF i = 1 THEN ss[i] ELSE f[i - 1] \o ss[i]]
    BY <1>1 DEF Flattens
  <2>2. 1 \in 1 .. n
    OBVIOUS
  <2>3. f[1] = ss[1]
    BY <2>1, <2>2
  <2>4. ASSUME NEW k \in 1 .. n - 1
        PROVE  f[k + 1] = f[k] \o ss[k + 1]
    <3>1. k + 1 \in 1 .. n /\ k + 1 # 1 /\ (k + 1) - 1 = k
      OBVIOUS
    <3> QED BY <2>1, <3>1
  <2> QED BY <2>3, <2>4
<1> DEFINE G == {k \in 1 .. n : f[k] \in Seq(S) /\ ToSet(f[k]) = ElementsTo(ss, k)}
<1>5. 1 \in G
  <2>1. ElementsTo(ss, 1) = ToSet(ss[1])
    BY DEF ElementsTo
  <2> QED BY <1>4, <2>1
<1>6. ASSUME NEW k \in 1 .. n - 1, k \in G
      PROVE  k + 1 \in G
  <2>1. f[k] \in Seq(S) /\ ToSet(f[k]) = ElementsTo(ss, k)
    BY <1>6
  <2> HIDE DEF G
  <2>2. ss[k + 1] \in Seq(S) /\ k + 1 \in 1 .. n
    OBVIOUS
  <2> DEFINE before == f[k]
             next == ss[k + 1]
  <2>3. f[k + 1] = before \o next /\ before \in Seq(S) /\ next \in Seq(S)
    BY <1>4, <2>1, <2>2
  <2>4. f[k + 1] \in Seq(S) /\ ToSet(f[k + 1]) = ToSet(before) \cup ToSet(next)
    <3> HIDE DEF before, next
    <3> QED BY <2>3, ConcatElements
  <2>5. ToSet(f[k + 1]) = ElementsTo(ss, k + 1)
    <3>1. ElementsTo(ss, k + 1) = ElementsTo(ss, k) \cup ToSet(ss[k + 1])
      <4>1. k \in Nat
        OBVIOUS
      <4> QED BY <4>1, OneMore
    <3> QED BY <2>1, <2>4, <3>1
  <2> USE DEF G
  <2> QED BY <2>2, <2>4, <2>5
<1>7. 1 .. n \subseteq G
  <2> HIDE DEF G
  <2>1. \A k \in 1 .. n - 1 : k \in G => k + 1 \in G
    BY <1>6
  <2> QED BY <1>5, <2>1, UpTo
<1>8. n \in G
  <2> HIDE DEF G
  <2> QED BY <1>7
<1> QED BY <1>3, <1>8

-----------------------------------------------------------------------------
(* Specs, objects and names. *)

\* A spec is a list of components with valid names.
LEMMA SpecFacts ==
  ASSUME NEW s \in Apps
  PROVE  /\ s \in Seq(Components) /\ Len(s) \in Nat \ {0} /\ DOMAIN s = 1 .. Len(s) /\ s # <<>>
         /\ \A c \in ToSet(s) : c \in Components /\ ValidName(c.name)
         /\ Names(s) # {}
<1>1. s \in Seq(Components) /\ s # <<>> /\ \A c \in ToSet(s) : ValidName(c.name)
  BY NamesAssumption
<1>2. Len(s) \in Nat \ {0} /\ DOMAIN s = 1 .. Len(s)
  BY <1>1, LenProperties, EmptySeq
<1>3. ToSet(s) # {} /\ \A c \in ToSet(s) : c \in Components
  BY <1>1, <1>2 DEF ToSet
<1> QED BY <1>1, <1>2, <1>3 DEF Names

\* What the objects of a component have in common.
ObjectOf(o, c) ==
  /\ o.comp = c.name /\ o.headless \in BOOLEAN /\ o.id[1] \in {"StatefulSet", "Service"}
  /\ o.id[1] = "StatefulSet" => o.id = <<"StatefulSet", DeriveResourceName(c.name)>>

\* A component has a StatefulSet and one or two Services, all its own.
LEMMA ObjectsOfComponent ==
  ASSUME NEW c
  PROVE  /\ BuildObjects(c) \in Seq(ToSet(BuildObjects(c)))
         /\ \A o \in ToSet(BuildObjects(c)) : ObjectOf(o, c)
         /\ \E o \in ToSet(BuildObjects(c)) : o.id = <<"StatefulSet", DeriveResourceName(c.name)>>
<1> DEFINE name == DeriveResourceName(c.name)
           sts == Object("StatefulSet", name, c, FALSE)
           peer == Object("Service", name \o Headless, c, TRUE)
           client == Object("Service", name, c, FALSE)
           S == {sts, peer, client}
<1>1. ObjectOf(sts, c) /\ ObjectOf(peer, c) /\ ObjectOf(client, c) /\ sts.id = <<"StatefulSet", name>>
  BY DEF ObjectOf, Object
<1>2. BuildObjects(c) = <<sts, peer>> \o (IF c.service THEN <<client>> ELSE <<>>)
  BY DEF BuildObjects
<1> HIDE DEF sts, peer, client
<1>3. /\ <<sts, peer>> \in Seq(S) /\ <<client>> \in Seq(S) /\ <<>> \in Seq(S)
      /\ ToSet(<<sts, peer>>) = {sts, peer} /\ ToSet(<<client>>) = {client} /\ ToSet(<<>>) = {}
  BY DEF ToSet
<1>4. BuildObjects(c) \in Seq(S) /\ {sts, peer} \subseteq ToSet(BuildObjects(c))
      /\ ToSet(BuildObjects(c)) \subseteq S
  <2> DEFINE front == <<sts, peer>>
             back == IF c.service THEN <<client>> ELSE <<>>
  <2>1. front \in Seq(S) /\ back \in Seq(S)
    BY <1>3
  <2>2. ToSet(front) = {sts, peer} /\ ToSet(back) \subseteq S
    BY <1>3
  <2>3. BuildObjects(c) = front \o back
    BY <1>2
  <2> HIDE DEF front, back, S
  <2>4. BuildObjects(c) \in Seq(S) /\ ToSet(BuildObjects(c)) = ToSet(front) \cup ToSet(back)
    BY <2>1, <2>3, ConcatElements
  <2> QED BY <2>2, <2>4 DEF S
<1>5. BuildObjects(c) \in Seq(ToSet(BuildObjects(c)))
  <2> DEFINE b == BuildObjects(c)
  <2>1. b \in Seq(S)
    BY <1>4
  <2> HIDE DEF b, S
  <2>2. b \in Seq(ToSet(b))
    BY <2>1, LenProperties DEF ToSet
  <2> QED BY <2>2 DEF b
<1> QED BY <1>1, <1>4, <1>5

\* The objects of a spec are those of its components, and no others.
LEMMA ObjectsOfSpec ==
  ASSUME NEW s \in Apps
  PROVE  /\ DesiredObjects(s) \in Seq(ToSet(DesiredObjects(s)))
         /\ \A o \in ToSet(DesiredObjects(s)) : \E c \in ToSet(s) : ObjectOf(o, c)
         /\ \A c \in ToSet(s) : \E o \in ToSet(DesiredObjects(s)) :
              o.id = <<"StatefulSet", DeriveResourceName(c.name)>>
<1> DEFINE n == Len(s)
           ss == [i \in DOMAIN s |-> BuildObjects(s[i])]
           S == ElementsTo(ss, n)
<1>1. n \in Nat \ {0} /\ DOMAIN s = 1 .. n
  BY SpecFacts
<1>2. \A i \in 1 .. n : ss[i] = BuildObjects(s[i])
  BY <1>1
<1>3. DOMAIN ss = 1 .. n /\ ss = [i \in 1 .. n |-> ss[i]]
  BY <1>1
<1>4. DesiredObjects(s) = FlattenSeq(ss)
  BY DEF DesiredObjects
<1> HIDE DEF ss, n
<1>5. ss \in [1 .. n -> Seq(S)]
  <2> SUFFICES ASSUME NEW i \in 1 .. n PROVE ss[i] \in Seq(S)
    BY <1>3
  <2>1. ss[i] \in Seq(ToSet(ss[i]))
    BY <1>2, ObjectsOfComponent
  <2>2. ToSet(ss[i]) \subseteq S
    BY DEF ElementsTo
  <2> HIDE DEF S
  <2> QED BY <2>1, <2>2
<1>6. FlattenSeq(ss) \in Seq(S) /\ ToSet(FlattenSeq(ss)) = S
  <2> HIDE DEF S
  <2>1. FlattenSeq(ss) \in Seq(S) /\ ToSet(FlattenSeq(ss)) = ElementsTo(ss, n)
    BY <1>1, <1>5, Flattened
  <2> QED BY <2>1 DEF S
<1>7. \A o \in S : \E i \in 1 .. n : o \in ToSet(BuildObjects(s[i]))
  BY <1>2 DEF ElementsTo
<1>8. \A i \in 1 .. n : ToSet(BuildObjects(s[i])) \subseteq S
  BY <1>2 DEF ElementsTo
<1> HIDE DEF S
<1>9. \A o \in S : \E c \in ToSet(s) : ObjectOf(o, c)
  <2> SUFFICES ASSUME NEW o \in S PROVE \E c \in ToSet(s) : ObjectOf(o, c)
    OBVIOUS
  <2>1. PICK i \in 1 .. n : o \in ToSet(BuildObjects(s[i]))
    BY <1>7
  <2>2. s[i] \in ToSet(s)
    BY <1>1 DEF ToSet
  <2>3. ObjectOf(o, s[i])
    BY <2>1, ObjectsOfComponent
  <2> QED BY <2>2, <2>3
<1>10. \A c \in ToSet(s) : \E o \in S : o.id = <<"StatefulSet", DeriveResourceName(c.name)>>
  <2> SUFFICES ASSUME NEW c \in ToSet(s)
               PROVE  \E o \in S : o.id = <<"StatefulSet", DeriveResourceName(c.name)>>
    OBVIOUS
  <2>1. PICK i \in 1 .. n : c = s[i]
    BY <1>1 DEF ToSet
  <2>2. \E o \in ToSet(BuildObjects(c)) : o.id = <<"StatefulSet", DeriveResourceName(c.name)>>
    BY ObjectsOfComponent
  <2>3. ToSet(BuildObjects(c)) \subseteq S
    BY <1>8, <2>1
  <2> QED BY <2>2, <2>3
<1> QED BY <1>4, <1>6, <1>9, <1>10

\* The largest and the smallest of some numbers.
LEMMA MaxIs ==
  ASSUME NEW S \in SUBSET Nat, NEW l \in S, \A i \in S : i <= l
  PROVE  Max(S) = l
<1>1. \A y \in S : l >= y
  OBVIOUS
<1>2. \A x \in S : (\A y \in S : x >= y) => x = l
  <2> SUFFICES ASSUME NEW x \in S, x >= l PROVE x = l
    OBVIOUS
  <2>1. x \in Nat /\ l \in Nat /\ x <= l
    OBVIOUS
  <2> QED BY <2>1
<1> QED BY <1>1, <1>2 DEF Max

LEMMA MinIs ==
  ASSUME NEW S \in SUBSET Nat, NEW l \in S, \A i \in S : l <= i
  PROVE  Min(S) = l
<1>1. \A x \in S : (\A y \in S : x =< y) => x = l
  <2> SUFFICES ASSUME NEW x \in S, x <= l PROVE x = l
    OBVIOUS
  <2>1. x \in Nat /\ l \in Nat /\ l <= x
    OBVIOUS
  <2> QED BY <2>1
<1> QED BY <1>1 DEF Min

\* A valid name without underscores is its own resource name.
LEMMA PlainName ==
  ASSUME NEW n \in Seq(Characters), ValidName(n), "_" \notin ToSet(n)
  PROVE  DeriveResourceName(n) = n
<1> DEFINE l == Len(n)
<1>1. l \in Nat /\ DOMAIN n = 1 .. l /\ n = [i \in 1 .. l |-> n[i]]
  BY LenProperties
<1>2. l \in 2 .. MaxLabel /\ MaxLabel \in Nat /\ n[l] \in Letters \cup Digits
  BY LimitsAssumption DEF ValidName, Last
<1>3. SubSeq(n, 1, l) = n
  BY SubSeqFull
<1>4. l \in Nat /\ l <= MaxLabel /\ 2 <= l
  <2> HIDE DEF l
  <2>1. l \in 2 .. MaxLabel /\ MaxLabel \in Nat
    BY <1>2
  <2> QED BY ONLY <2>1
<1> DEFINE dashed == [i \in DOMAIN n |-> IF n[i] = "_" THEN "-" ELSE n[i]]
<1>5. dashed = n
  <2>1. \A i \in DOMAIN n : n[i] # "_"
    BY DEF ToSet
  <2>2. dashed = [i \in 1 .. l |-> n[i]]
    BY <1>1, <2>1
  <2> QED BY <1>1, <2>2
<1>6. Min({l, MaxLabel}) = l
  <2> HIDE DEF l
  <2>1. {l, MaxLabel} \in SUBSET Nat /\ l \in {l, MaxLabel} /\ \A i \in {l, MaxLabel} : l <= i
    BY ONLY <1>2, <1>4
  <2> DEFINE S == {l, MaxLabel}
  <2> HIDE DEF S
  <2>2. S \in SUBSET Nat /\ l \in S /\ \A i \in S : l <= i
    BY <2>1 DEF S
  <2>3. Min(S) = l
    BY ONLY <2>2, MinIs
  <2> QED BY <2>3 DEF S
<1>7. TrimRight(n) = n
  <2> DEFINE S == {i \in DOMAIN n : n[i] # "-"} \cup {0}
  <2>1. n[l] # "-"
    BY <1>2 DEF Letters, Digits
  <2>2. \A i \in S : i = 0 \/ i \in 1 .. l
    BY <1>1
  <2>3. l \in DOMAIN n
    <3>1. DOMAIN n = 1 .. l
      BY <1>1
    <3> HIDE DEF l
    <3>2. l \in 1 .. l
      BY ONLY <1>4
    <3> QED BY ONLY <3>1, <3>2
  <2>4. l \in S
    BY <2>1, <2>3
  <2> HIDE DEF S, l
  <2>5. S \in SUBSET Nat /\ \A i \in S : i <= l
    BY ONLY <1>4, <2>2
  <2>6. Max(S) = l
    BY ONLY <2>4, <2>5, MaxIs
  <2> QED BY <1>3, <2>6 DEF TrimRight, S
<1> QED BY <1>3, <1>5, <1>6, <1>7 DEF DeriveResourceName

-----------------------------------------------------------------------------
(* The invariant. *)

\* A cycle works on a spec of its generation and on its objects.
Working ==
  /\ firstError \in BOOLEAN /\ faults \in Nat
  /\ pc = "idle" => ~firstError /\ refused = {}
  /\ pc # "idle" =>
       spec \in Apps /\ specGen \in 1 .. gen /\ todo \in Seq(ToSet(DesiredObjects(spec)))

\* While objects are applied, the refused ones are named, and nobody else.
Applying ==
  pc = "apply" =>
    /\ refused \subseteq Names(spec)
    /\ \A n \in Names(spec) : messages[n] = IF n \in refused THEN "ApplyFailed" ELSE "Built"

\* While components are checked, an error is one that a component shows.
Checking ==
  pc = "check" =>
    /\ todo = <<>>
    /\ \A n \in Names(spec) : messages[n] \in Messages
    /\ \A n \in unchecked : messages[n] = "Applied"
    /\ firstError <=> \E n \in Names(spec) : messages[n] \in Errors

\* Nothing is stored under a name the API server refuses.
AcceptedOnly == \A id \in Ids : store[id] # Nothing => Accepted(id)

\* What is stored was applied in this cycle, for a component of that name.
Fresh(id) ==
  \/ store[id] = Nothing
  \/ /\ store[id].gen = specGen /\ store[id].comp \in Names(spec)
     /\ DeriveResourceName(store[id].comp) = id[2]

StsId(c) == <<"StatefulSet", DeriveResourceName(c.name)>>

\* Without an error so far, a StatefulSet of the spec was applied or will be.
AppliedOrTodo ==
  (pc = "apply" /\ ~firstError) \/ pc = "check" =>
    \A c \in ToSet(spec) : (\E o \in ToSet(todo) : o.id = StsId(c)) \/ Fresh(StsId(c))

\* A healthy component was found under its name.
ReadyIsThere ==
  pc = "check" /\ spec[1].kind = "StatefulSet" =>
    \A n \in Names(spec) : messages[n] = "ready" => Present(<<"StatefulSet", n>>)

StatusInv ==
  /\ StatusTypeOK /\ Working /\ Applying /\ Checking /\ StatusAgrees
  /\ AcceptedOnly /\ AppliedOrTodo /\ ReadyIsThere

\* A list that is not empty is its head and its tail.
LEMMA HeadAndTail ==
  ASSUME NEW S, NEW s \in Seq(S), s # <<>>
  PROVE  /\ Head(s) \in S /\ Tail(s) \in Seq(S)
         /\ Head(s) \in ToSet(s) /\ ToSet(s) = {Head(s)} \cup ToSet(Tail(s))
<1> DEFINE t == Tail(s)
<1>1. /\ Head(s) \in S /\ t \in Seq(S) /\ Len(t) = Len(s) - 1
      /\ \A i \in 1 .. Len(t) : t[i] = s[i + 1]
  BY HeadTailProperties
<1>2. Head(s) = s[1] /\ DOMAIN s = 1 .. Len(s) /\ Len(s) \in Nat \ {0}
  BY LenProperties, EmptySeq
<1>3. DOMAIN t = 1 .. Len(s) - 1
  BY <1>1, LenProperties
<1> HIDE DEF t
<1>4. Head(s) \in ToSet(s)
  BY <1>2 DEF ToSet
<1>5. ToSet(t) \subseteq ToSet(s)
  <2> SUFFICES ASSUME NEW i \in 1 .. Len(s) - 1 PROVE t[i] \in ToSet(s)
    BY <1>3 DEF ToSet
  <2>1. i + 1 \in DOMAIN s /\ t[i] = s[i + 1]
    BY <1>1, <1>2
  <2> QED BY <2>1 DEF ToSet
<1>6. ToSet(s) \subseteq {Head(s)} \cup ToSet(t)
  <2> SUFFICES ASSUME NEW i \in 1 .. Len(s), i # 1 PROVE s[i] \in ToSet(t)
    BY <1>2 DEF ToSet
  <2> DEFINE j == i - 1
  <2>1. j \in 1 .. Len(s) - 1 /\ j + 1 = i
    BY <1>2
  <2> HIDE DEF j
  <2>2. s[i] = t[j] /\ j \in DOMAIN t
    BY <1>1, <1>3, <2>1
  <2> QED BY <2>2 DEF ToSet
<1>7. ToSet(s) = {Head(s)} \cup ToSet(t)
  BY <1>4, <1>5, <1>6
<1> QED BY <1>1, <1>4, <1>7 DEF t

\* The empty list.
LEMMA NothingInIt == Names(<<>>) = {} /\ DOMAIN <<>> = {} /\ ToSet(<<>>) = {}
BY DEF Names, ToSet

\* What a step leaves alone of the types, once a cycle is over.
LEMMA IdleKeeps ==
  ASSUME StatusInv, Return, UNCHANGED <<app, gen, store, pods>>, faults' \in Nat,
         StatusAgrees', status'.phase \in Phases,
         \A n \in DOMAIN status'.messages : status'.messages[n] \in Messages
  PROVE  StatusInv'
<1>1. /\ pc' = "idle" /\ spec' = <<>> /\ specGen' = 0 /\ todo' = <<>> /\ unchecked' = {}
      /\ messages' = <<>> /\ firstError' = FALSE /\ refused' = {}
  BY DEF Return
<1>2. StatusTypeOK'
  <2>1. 0 \in 0 .. gen
    BY DEF StatusInv, StatusTypeOK
  <2>2. DOMAIN messages' = Names(spec') /\ unchecked' \subseteq Names(spec')
    BY <1>1, NothingInIt
  <2> QED BY <1>1, <2>1, <2>2 DEF StatusInv, StatusTypeOK
<1>3. Working' /\ Applying' /\ Checking' /\ AppliedOrTodo' /\ ReadyIsThere'
  BY <1>1 DEF Working, Applying, Checking, AppliedOrTodo, ReadyIsThere
<1>4. AcceptedOnly'
  BY DEF StatusInv, AcceptedOnly
<1> QED BY <1>2, <1>3, <1>4 DEF StatusInv

\* The status is saved, failed when an entry is an error.
LEMMA ConcludeKeeps ==
  ASSUME StatusInv, NEW final, NEW failed \in BOOLEAN, Conclude(final, failed),
         \A n \in DOMAIN final : final[n] \in Messages,
         failed <=> \E n \in DOMAIN final : final[n] \in Errors,
         UNCHANGED <<app, gen, store, pods, faults>>
  PROVE  StatusInv'
<1> DEFINE phase == FinalPhase(failed, \A n \in DOMAIN final : final[n] = "ready")
<1>1. status' = [phase |-> phase, messages |-> final] /\ Return
  BY DEF Conclude, SaveEntries
<1>2. "ready" \notin Errors
  BY DEF Errors
<1>3. /\ phase \in Phases
      /\ phase = "Failed" <=> failed
      /\ phase = "Running" <=> ~failed /\ \A n \in DOMAIN final : final[n] = "ready"
  BY DEF FinalPhase, Phases
<1> HIDE DEF phase
<1>4. status'.phase = phase /\ status'.messages = final
  BY <1>1
<1>5. StatusAgrees'
  BY <1>2, <1>3, <1>4 DEF StatusAgrees
<1>6. faults' \in Nat
  BY DEF StatusInv, Working
<1> QED BY <1>1, <1>3, <1>4, <1>5, <1>6, IdleKeeps

\* The entries after an error are all errors.
LEMMA ErrorEntries ==
  ASSUME NEW entries, NEW N, DOMAIN entries = N, N # {}
  PROVE  LET final == updateComponentStatusesForError(entries)
         IN /\ \A n \in DOMAIN final : final[n] \in Messages
            /\ \E n \in DOMAIN final : final[n] \in Errors
BY DEF updateComponentStatusesForError, Errors, Messages

-----------------------------------------------------------------------------
(* The steps. *)

\* Nothing is stored, nothing is said.
LEMMA StatusInitial == StatusInit => StatusInv
<1> SUFFICES ASSUME StatusInit PROVE StatusInv
  OBVIOUS
<1>1. status.phase = "Creating" /\ status.messages = <<>>
  BY DEF StatusInit
<1>2. StatusTypeOK
  <2>1. gen \in 1 .. MaxEdits + 1 /\ specGen \in 0 .. gen
    BY LimitsAssumption DEF StatusInit
  <2>2. DOMAIN messages = Names(spec) /\ unchecked \subseteq Names(spec)
    BY NothingInIt DEF StatusInit
  <2>3. /\ \A id \in DOMAIN store : store[id] = Nothing
        /\ DOMAIN store = Ids /\ pods \in [Workloads -> {"none", "starting", "ready"}]
    BY DEF StatusInit
  <2>4. {status.messages[n] : n \in DOMAIN status.messages} \subseteq Messages
    BY <1>1, NothingInIt
  <2> QED BY <1>1, <2>1, <2>2, <2>3, <2>4 DEF StatusInit, StatusTypeOK, Phases
<1>3. AcceptedOnly
  BY DEF StatusInit, AcceptedOnly
<1>4. StatusAgrees
  BY <1>1 DEF StatusAgrees
<1> QED BY <1>2, <1>3, <1>4 DEF StatusInit, StatusInv, Working, Applying, Checking,
                                AppliedOrTodo, ReadyIsThere

\* A cycle starts, or ends at once with an error for every component.
LEMMA StartCycleKeeps ==
  ASSUME StatusInv, StartCycle
  PROVE  StatusInv'
<1>1. app \in Apps /\ gen \in 1 .. MaxEdits + 1 /\ pc = "idle" /\ faults \in Nat
      /\ UNCHANGED <<app, gen, store, pods, faults>>
  BY DEF StartCycle, StatusInv, StatusTypeOK, Working, specVars, objectVars
<1> DEFINE entries == [n \in Names(app) |-> "Built"]
<1>2. CASE ~\A c \in ToSet(app) : c.valid
  <2> DEFINE final == updateComponentStatusesForError(entries)
  <2>1. Conclude(final, TRUE)
    BY <1>2 DEF StartCycle
  <2>2. DOMAIN entries = Names(app) /\ Names(app) # {}
    BY <1>1, SpecFacts
  <2>3. /\ \A n \in DOMAIN final : final[n] \in Messages
        /\ \E n \in DOMAIN final : final[n] \in Errors
    <3> HIDE DEF entries
    <3> QED BY <2>2, ErrorEntries
  <2> HIDE DEF final
  <2> QED BY <1>1, <2>1, <2>3, ConcludeKeeps
<1>3. CASE \A c \in ToSet(app) : c.valid
  <2>1. /\ pc' = "apply" /\ spec' = app /\ specGen' = gen
        /\ todo' = DesiredObjects(app) /\ messages' = entries
        /\ UNCHANGED <<status, unchecked, firstError, refused>>
    BY <1>3 DEF StartCycle
  <2>2. /\ pc' # "idle" /\ pc' # "check" /\ spec # spec' /\ unchecked = {} /\ ~firstError
        /\ refused = {} /\ spec = <<>>
    <3>1. unchecked \subseteq Names(spec) /\ spec = <<>>
      BY <1>1 DEF StatusInv, StatusTypeOK
    <3> QED BY <1>1, <2>1, <3>1, NothingInIt, SpecFacts DEF StatusInv, Working
  <2>3. DOMAIN messages' = Names(app) /\ \A n \in Names(app) : messages'[n] = "Built"
    BY <2>1
  <2>4. /\ gen \in 1 .. gen /\ gen \in 0 .. gen /\ app # <<>>
        /\ DesiredObjects(app) \in Seq(ToSet(DesiredObjects(app)))
    <3>1. gen \in 1 .. gen /\ gen \in 0 .. gen
      BY <1>1, LimitsAssumption
    <3> QED BY <1>1, <3>1, SpecFacts, ObjectsOfSpec
  <2>5. StatusTypeOK'
    BY <1>1, <2>1, <2>2, <2>3, <2>4 DEF StatusInv, StatusTypeOK
  <2>6. Working' /\ Applying' /\ Checking' /\ ReadyIsThere'
    BY <1>1, <2>1, <2>2, <2>3, <2>4 DEF StatusInv, Working, Applying, Checking, ReadyIsThere
  <2>7. AppliedOrTodo'
    <3> SUFFICES ASSUME NEW c \in ToSet(app)
                 PROVE  \E o \in ToSet(DesiredObjects(app)) : o.id = StsId(c)
      BY <2>1 DEF AppliedOrTodo, StsId
    <3> QED BY <1>1, ObjectsOfSpec DEF StsId
  <2>8. AcceptedOnly' /\ StatusAgrees'
    BY <1>1, <2>1 DEF StatusInv, AcceptedOnly, StatusAgrees
  <2> QED BY <2>5, <2>6, <2>7, <2>8 DEF StatusInv
<1> QED BY <1>2, <1>3

\* The objects of the cycle, the next one among them.
LEMMA NextObject ==
  ASSUME StatusInv, pc = "apply", todo # <<>>
  PROVE  LET o == Head(todo)
         IN /\ o.comp \in Names(spec) /\ o.id \in Ids /\ o.id \in DOMAIN store
            /\ o.id[1] = "StatefulSet" => DeriveResourceName(o.comp) = o.id[2]
            /\ Tail(todo) \in Seq(ToSet(DesiredObjects(spec)))
            /\ ToSet(todo) = {o} \cup ToSet(Tail(todo))
<1> DEFINE o == Head(todo)
<1>1. spec \in Apps /\ todo \in Seq(ToSet(DesiredObjects(spec)))
  BY DEF StatusInv, Working
<1>2. /\ o \in ToSet(DesiredObjects(spec)) /\ Tail(todo) \in Seq(ToSet(DesiredObjects(spec)))
      /\ ToSet(todo) = {o} \cup ToSet(Tail(todo))
  BY <1>1, HeadAndTail
<1> HIDE DEF o
<1>3. PICK c \in ToSet(spec) : ObjectOf(o, c)
  BY <1>1, <1>2, ObjectsOfSpec
<1>4. o.comp \in Names(spec)
  BY <1>3 DEF Names, ObjectOf
<1>5. o.id[1] = "StatefulSet" => DeriveResourceName(o.comp) = o.id[2]
  BY <1>3 DEF ObjectOf
<1>6. o.id \in Ids
  BY <1>1, <1>2 DEF Ids
<1>7. DOMAIN store = Ids
  BY DEF StatusInv, StatusTypeOK
<1> QED BY <1>2, <1>4, <1>5, <1>6, <1>7 DEF o

\* An object is applied.
LEMMA ApplyObjectKeeps ==
  ASSUME StatusInv, ApplyObject
  PROVE  StatusInv'
<1> DEFINE o == Head(todo)
           new == IF Recreates(o) THEN Nothing ELSE Built(o)
<1>1. /\ pc = "apply" /\ todo # <<>> /\ Accepted(o.id) /\ pc' = pc /\ todo' = Tail(todo)
      /\ UNCHANGED <<app, gen, status, spec, specGen, unchecked, messages, firstError, refused, faults>>
  BY DEF ApplyObject, specVars
<1>2. store' = [store EXCEPT ![o.id] = new]
  BY DEF ApplyObject
<1>3. /\ o.comp \in Names(spec) /\ o.id \in Ids /\ o.id \in DOMAIN store
      /\ o.id[1] = "StatefulSet" => DeriveResourceName(o.comp) = o.id[2]
      /\ Tail(todo) \in Seq(ToSet(DesiredObjects(spec)))
      /\ ToSet(todo) = {o} \cup ToSet(Tail(todo))
  BY <1>1, NextObject
<1>4. new = Nothing \/ (new.gen = specGen /\ new.comp = o.comp)
  BY DEF Built
<1>5. pods' \in [Workloads -> {"none", "starting", "ready"}]
  <2>1. pods \in [Workloads -> {"none", "starting", "ready"}]
    BY DEF StatusInv, StatusTypeOK
  <2>2. pods' = pods \/ \E p \in {"none", "starting"} : pods' = [pods EXCEPT ![o.id] = p]
    BY DEF ApplyObject
  <2> HIDE DEF o
  <2> QED BY <2>1, <2>2
<1> HIDE DEF o, new
<1>6. /\ DOMAIN store' = Ids /\ store'[o.id] = new
      /\ \A id \in Ids : id # o.id => store'[id] = store[id]
  BY <1>2, <1>3 DEF StatusInv, StatusTypeOK
<1>7. StatusTypeOK'
  <2>1. specGen \in 1 .. gen /\ spec \in Apps
    BY <1>1 DEF StatusInv, Working
  <2>2. \A id \in Ids : store'[id] = Nothing \/ store'[id].gen \in 1 .. gen
    BY <1>4, <1>6, <2>1 DEF StatusInv, StatusTypeOK
  <2> QED BY <1>1, <1>5, <1>6, <2>2 DEF StatusInv, StatusTypeOK
<1>8. Working' /\ Applying' /\ Checking' /\ ReadyIsThere' /\ StatusAgrees'
  BY <1>1, <1>3 DEF StatusInv, Working, Applying, Checking, ReadyIsThere, StatusAgrees
<1>9. AcceptedOnly'
  BY <1>1, <1>6 DEF StatusInv, AcceptedOnly
<1>10. AppliedOrTodo'
  <2> SUFFICES ASSUME ~firstError, NEW c \in ToSet(spec)
               PROVE  (\E p \in ToSet(Tail(todo)) : p.id = StsId(c)) \/ Fresh(StsId(c))'
    BY <1>1 DEF AppliedOrTodo, StsId
  <2>1. (\E p \in ToSet(todo) : p.id = StsId(c)) \/ Fresh(StsId(c))
    BY <1>1 DEF StatusInv, AppliedOrTodo
  <2>2. StsId(c)' = StsId(c) /\ StsId(c)[1] = "StatefulSet" /\ StsId(c) \in Ids
    <3>1. spec \in Apps
      BY <1>1 DEF StatusInv, Working
    <3>2. \E p \in ToSet(DesiredObjects(spec)) : p.id = StsId(c)
      BY <3>1, ObjectsOfSpec DEF StsId
    <3> QED BY <3>1, <3>2 DEF StsId, Ids
  <2>3. CASE o.id = StsId(c)
    BY <1>1, <1>3, <1>4, <1>6, <2>2, <2>3 DEF Fresh
  <2>4. CASE o.id # StsId(c)
    <3>1. Fresh(StsId(c)) => Fresh(StsId(c))'
      BY <1>1, <1>6, <2>2, <2>4 DEF Fresh
    <3> QED BY <1>3, <2>1, <2>4, <3>1
  <2> QED BY <2>3, <2>4
<1> QED BY <1>7, <1>8, <1>9, <1>10 DEF StatusInv

\* An error while objects are applied is marked, and may have a culprit.
LEMMA ErrorKeeps ==
  ASSUME StatusInv, pc = "apply", todo' \in Seq(ToSet(DesiredObjects(spec))), firstError' = TRUE,
         UNCHANGED <<app, gen, store, pods, status, pc, spec, specGen, unchecked>>,
         DOMAIN messages' = Names(spec), Applying', faults' \in Nat
  PROVE  StatusInv'
<1>1. StatusTypeOK'
  BY DEF StatusInv, StatusTypeOK
<1>2. Working' /\ Checking' /\ ReadyIsThere' /\ StatusAgrees'
  BY DEF StatusInv, Working, Checking, ReadyIsThere, StatusAgrees
<1>3. AcceptedOnly' /\ AppliedOrTodo'
  BY DEF StatusInv, AcceptedOnly, AppliedOrTodo
<1> QED BY <1>1, <1>2, <1>3 DEF StatusInv

\* The component of a refused object is blamed.
LEMMA BlameKeeps ==
  ASSUME StatusInv, pc = "apply", todo # <<>>, Blame(Head(todo)), ApplyGoesOn, faults' \in Nat
  PROVE  StatusInv'
<1> DEFINE o == Head(todo)
           m == o.comp
           said == IF messages[m] \in Errors THEN messages[m] ELSE "ApplyFailed"
<1>1. /\ todo' = Tail(todo) /\ firstError' = TRUE
      /\ UNCHANGED <<app, gen, store, pods, status, pc, spec, specGen, unchecked>>
  BY DEF ApplyGoesOn, specVars, objectVars
<1>2. messages' = [messages EXCEPT ![m] = said] /\ refused' = refused \cup {m}
  BY DEF Blame
<1>3. m \in Names(spec) /\ Tail(todo) \in Seq(ToSet(DesiredObjects(spec)))
  BY NextObject
<1>4. /\ DOMAIN messages = Names(spec) /\ refused \subseteq Names(spec)
      /\ \A n \in Names(spec) : messages[n] = IF n \in refused THEN "ApplyFailed" ELSE "Built"
  BY DEF StatusInv, StatusTypeOK, Applying
<1>5. said = "ApplyFailed"
  BY <1>3, <1>4 DEF Errors
<1> HIDE DEF said, m
<1>6. /\ DOMAIN messages' = Names(spec) /\ messages'[m] = "ApplyFailed"
      /\ \A n \in Names(spec) : n # m => messages'[n] = messages[n]
  BY <1>2, <1>3, <1>4, <1>5
<1>7. Applying'
  BY <1>1, <1>2, <1>3, <1>4, <1>6 DEF Applying
<1> QED BY <1>1, <1>3, <1>6, <1>7, ErrorKeeps

LEMMA NameRefusedKeeps ==
  ASSUME StatusInv, NameRefused
  PROVE  StatusInv'
BY BlameKeeps DEF NameRefused, StatusInv, Working

\* A fault is one more.
LEMMA FaultCounts ==
  ASSUME StatusInv, Fault
  PROVE  faults' \in Nat /\ faults' # faults
BY DEF StatusInv, Working, Fault

LEMMA ApplyFailsKeeps ==
  ASSUME StatusInv, ApplyFails
  PROVE  StatusInv'
BY BlameKeeps, FaultCounts DEF ApplyFails

\* Conflicts and failed reads have no culprit.
LEMMA ApplyConflictsKeeps ==
  ASSUME StatusInv, ApplyConflicts
  PROVE  StatusInv'
<1>1. /\ pc = "apply" /\ todo # <<>> /\ faults' \in Nat /\ todo' = Tail(todo) /\ firstError' = TRUE
      /\ UNCHANGED <<app, gen, store, pods, status, pc, spec, specGen, unchecked, messages, refused>>
  BY FaultCounts DEF ApplyConflicts, ApplyGoesOn, specVars, objectVars
<1>2. Tail(todo) \in Seq(ToSet(DesiredObjects(spec)))
  BY <1>1, NextObject
<1>3. DOMAIN messages' = Names(spec) /\ Applying'
  BY <1>1 DEF StatusInv, StatusTypeOK, Applying
<1> QED BY <1>1, <1>2, <1>3, ErrorKeeps

LEMMA ServiceReadFailsKeeps ==
  ASSUME StatusInv, ServiceReadFails
  PROVE  StatusInv'
<1>1. /\ pc = "apply" /\ faults' \in Nat /\ todo' = <<>> /\ firstError' = TRUE
      /\ UNCHANGED <<app, gen, store, pods, status, pc, spec, specGen, unchecked, messages, refused>>
  BY FaultCounts DEF ServiceReadFails, specVars, objectVars
<1>2. <<>> \in Seq(ToSet(DesiredObjects(spec)))
  OBVIOUS
<1>3. DOMAIN messages' = Names(spec) /\ Applying'
  BY <1>1 DEF StatusInv, StatusTypeOK, Applying
<1> QED BY <1>1, <1>2, <1>3, ErrorKeeps

\* The entries of a cycle that failed while it applied.
LEMMA FailedEntries ==
  ASSUME StatusInv, pc = "apply"
  PROVE  LET final == updateComponentStatusesForError(messages)
         IN /\ DOMAIN final = Names(spec)
            /\ \A n \in DOMAIN final : final[n] \in Messages
            /\ \E n \in DOMAIN final : final[n] \in Errors
            /\ {n \in DOMAIN final : final[n] = "ApplyFailed"} = refused
<1> DEFINE final == updateComponentStatusesForError(messages)
<1>1. /\ DOMAIN messages = Names(spec) /\ refused \subseteq Names(spec)
      /\ \A n \in Names(spec) : messages[n] = IF n \in refused THEN "ApplyFailed" ELSE "Built"
  BY DEF StatusInv, StatusTypeOK, Applying
<1>2. Names(spec) # {}
  BY SpecFacts DEF StatusInv, Working
<1>3. (\A n \in DOMAIN final : final[n] \in Messages) /\ (\E n \in DOMAIN final : final[n] \in Errors)
  BY <1>1, <1>2, ErrorEntries
<1>4. /\ DOMAIN final = Names(spec)
      /\ \A n \in Names(spec) : final[n] = IF n \in refused THEN "ApplyFailed" ELSE "OverallReconcileError"
  BY <1>1 DEF updateComponentStatusesForError, Errors
<1> QED BY <1>1, <1>3, <1>4

\* All objects were tried: on to the checks, or past them.
LEMMA AppliedAllKeeps ==
  ASSUME StatusInv, AppliedAll
  PROVE  StatusInv'
<1>1. pc = "apply" /\ todo = <<>> /\ UNCHANGED <<app, gen, store, pods, faults>>
  BY DEF AppliedAll, specVars, objectVars
<1>2. CASE firstError
  <2> DEFINE final == updateComponentStatusesForError(messages)
  <2>1. Conclude(final, TRUE)
    BY <1>2 DEF AppliedAll
  <2>2. (\A n \in DOMAIN final : final[n] \in Messages) /\ (\E n \in DOMAIN final : final[n] \in Errors)
    BY <1>1, FailedEntries
  <2> HIDE DEF final
  <2> QED BY <1>1, <2>1, <2>2, ConcludeKeeps
<1>3. CASE ~firstError
  <2>1. /\ pc' = "check" /\ unchecked' = Names(spec)
        /\ messages' = [n \in DOMAIN messages |-> "Applied"]
        /\ UNCHANGED <<status, queued, spec, specGen, todo, firstError, refused>>
    BY <1>3 DEF AppliedAll
  <2>2. DOMAIN messages' = Names(spec) /\ \A n \in Names(spec) : messages'[n] = "Applied"
    BY <2>1 DEF StatusInv, StatusTypeOK
  <2>3. StatusTypeOK'
    BY <1>1, <2>1, <2>2 DEF StatusInv, StatusTypeOK
  <2>4. Working' /\ Applying' /\ ReadyIsThere' /\ StatusAgrees'
    BY <1>1, <2>1, <2>2 DEF StatusInv, Working, Applying, ReadyIsThere, StatusAgrees
  <2>5. Checking'
    BY <1>1, <1>3, <2>1, <2>2 DEF Checking, Messages, Errors
  <2>6. AcceptedOnly'
    BY <1>1 DEF StatusInv, AcceptedOnly
  <2>7. AppliedOrTodo'
    BY <1>1, <1>3, <2>1 DEF StatusInv, AppliedOrTodo, Fresh, StsId
  <2> QED BY <2>3, <2>4, <2>5, <2>6, <2>7 DEF StatusInv
<1> QED BY <1>2, <1>3

\* What a check says.
LEMMA HealthIs ==
  ASSUME NEW n
  PROVE  /\ CheckHealth(n) \in Messages
         /\ CheckHealth(n) \in Errors <=> CheckHealth(n) = "HealthCheckError"
         /\ spec[1].kind = "StatefulSet" /\ CheckHealth(n) = "ready" => Present(<<"StatefulSet", n>>)
<1>1. CheckHealth(n) \in {"InfoMissing", "HealthCheckError", "NotFound", "NotReady", "ready"}
  BY DEF CheckHealth
<1>2. ASSUME spec[1].kind = "StatefulSet", ~Present(<<"StatefulSet", n>>)
      PROVE  CheckHealth(n) = "NotFound"
  BY <1>2 DEF CheckHealth
<1> QED BY <1>1, <1>2 DEF Messages, Errors

\* A result is written down.
LEMMA CheckedKeeps ==
  ASSUME StatusInv, pc = "check", NEW n \in unchecked, NEW message, Checked(n, message), faults' \in Nat,
         message \in Messages, message \in Errors <=> message = "HealthCheckError",
         spec[1].kind = "StatefulSet" /\ message = "ready" => Present(<<"StatefulSet", n>>)
  PROVE  StatusInv'
<1>1. /\ messages' = [messages EXCEPT ![n] = message] /\ unchecked' = unchecked \ {n}
      /\ firstError' = (firstError \/ message = "HealthCheckError")
      /\ UNCHANGED <<app, gen, store, pods, status, pc, spec, specGen, todo, refused>>
  BY DEF Checked, specVars, objectVars
<1>2. /\ DOMAIN messages = Names(spec) /\ n \in Names(spec) /\ unchecked \subseteq Names(spec)
      /\ messages[n] = "Applied" /\ firstError \in BOOLEAN
  BY DEF StatusInv, StatusTypeOK, Checking, Working
<1>3. /\ DOMAIN messages' = Names(spec) /\ messages'[n] = message
      /\ \A m \in Names(spec) : m # n => messages'[m] = messages[m]
  BY <1>1, <1>2
<1>4. StatusTypeOK'
  BY <1>1, <1>2, <1>3 DEF StatusInv, StatusTypeOK
<1>5. Working' /\ Applying' /\ StatusAgrees'
  BY <1>1, <1>2 DEF StatusInv, Working, Applying, StatusAgrees
<1>6. Checking'
  <2>1. firstError <=> \E m \in Names(spec) : messages[m] \in Errors
    BY DEF StatusInv, Checking
  <2>2. messages[n] \notin Errors
    BY <1>2 DEF Errors
  <2>3. firstError' <=> \E m \in Names(spec) : messages'[m] \in Errors
    BY <1>1, <1>2, <1>3, <2>1, <2>2
  <2>4. /\ todo = <<>> /\ \A m \in Names(spec) : messages'[m] \in Messages
        /\ \A m \in unchecked' : messages'[m] = "Applied"
    BY <1>1, <1>2, <1>3 DEF StatusInv, Checking
  <2> QED BY <1>1, <2>3, <2>4 DEF Checking
<1>7. AcceptedOnly' /\ AppliedOrTodo'
  BY <1>1 DEF StatusInv, AcceptedOnly, AppliedOrTodo, Fresh, StsId
<1>8. ReadyIsThere'
  BY <1>1, <1>2, <1>3 DEF StatusInv, ReadyIsThere, Present
<1> QED BY <1>4, <1>5, <1>6, <1>7, <1>8 DEF StatusInv

\* A component is checked, or the check fails.
LEMMA CheckComponentKeeps ==
  ASSUME StatusInv, NEW n \in unchecked, CheckComponent(n)
  PROVE  StatusInv'
<1>1. pc = "check" /\ faults \in Nat
  BY DEF CheckComponent, StatusInv, Working
<1>2. CASE Checked(n, CheckHealth(n)) /\ UNCHANGED faults
  BY <1>1, <1>2, HealthIs, CheckedKeeps
<1>3. CASE Checked(n, "HealthCheckError") /\ Fault
  <2>1. "HealthCheckError" \in Messages /\ "HealthCheckError" \in Errors /\ "HealthCheckError" # "ready"
    BY DEF Messages, Errors
  <2>2. faults' \in Nat
    BY <1>3, FaultCounts
  <2> QED BY <1>1, <1>3, <2>1, <2>2, CheckedKeeps
<1> QED BY <1>2, <1>3 DEF CheckComponent

\* All are checked and the status is saved.
LEMMA SaveStatusKeeps ==
  ASSUME StatusInv, SaveStatus
  PROVE  StatusInv'
<1>1. /\ pc = "check" /\ Conclude(messages, firstError) /\ firstError \in BOOLEAN
      /\ UNCHANGED <<app, gen, store, pods, faults>>
  BY DEF SaveStatus, specVars, objectVars, StatusInv, Working
<1>2. DOMAIN messages = Names(spec)
  BY DEF StatusInv, StatusTypeOK
<1>3. /\ \A n \in DOMAIN messages : messages[n] \in Messages
      /\ firstError <=> \E n \in DOMAIN messages : messages[n] \in Errors
  BY <1>1, <1>2 DEF StatusInv, Checking
<1> QED BY <1>1, <1>3, ConcludeKeeps

\* A restart drops the cycle.
LEMMA RestartKeeps ==
  ASSUME StatusInv, Restart
  PROVE  StatusInv'
<1>1. Return /\ faults' \in Nat /\ UNCHANGED <<app, gen, store, pods, status>>
  BY FaultCounts DEF Restart, specVars, objectVars
<1>2. StatusAgrees'
  BY <1>1 DEF StatusInv, StatusAgrees
<1>3. status'.phase \in Phases /\ \A n \in DOMAIN status'.messages : status'.messages[n] \in Messages
  BY <1>1 DEF StatusInv, StatusTypeOK
<1> QED BY <1>1, <1>2, <1>3, IdleKeeps

\* Pods come and go.
LEMMA PodsKeep ==
  ASSUME StatusInv, NEW id \in DOMAIN pods, PodsComeUp(id) \/ PodFails(id)
  PROVE  StatusInv'
<1>1. faults' \in Nat
  BY FaultCounts DEF PodsComeUp, PodFails, StatusInv, Working
<1>2. PICK state \in {"starting", "ready"} : PodsGoTo(id, state)
  BY DEF PodsComeUp, PodFails
<1>3. /\ pods' = [pods EXCEPT ![id] = state]
      /\ UNCHANGED <<app, gen, store, status, pc, spec, specGen, todo, unchecked, messages, firstError,
                     refused>>
  BY <1>2 DEF PodsGoTo, specVars, cycleVars
<1>4. pods' \in [Workloads -> {"none", "starting", "ready"}]
  BY <1>3 DEF StatusInv, StatusTypeOK
<1>5. StatusTypeOK'
  BY <1>3, <1>4 DEF StatusInv, StatusTypeOK
<1>6. Working' /\ Applying' /\ Checking' /\ StatusAgrees'
  BY <1>1, <1>3 DEF StatusInv, Working, Applying, Checking, StatusAgrees
<1>7. AcceptedOnly' /\ AppliedOrTodo' /\ ReadyIsThere'
  BY <1>3 DEF StatusInv, AcceptedOnly, AppliedOrTodo, Fresh, StsId, ReadyIsThere, Present
<1> QED BY <1>5, <1>6, <1>7 DEF StatusInv

\* An edit is a new generation; the cycle goes on with the old one.
LEMMA EditAppKeeps ==
  ASSUME StatusInv, EditApp
  PROVE  StatusInv'
<1>1. /\ gen <= MaxEdits /\ app' \in Apps /\ gen' = gen + 1
      /\ UNCHANGED <<store, pods, status, pc, spec, specGen, todo, unchecked, messages, firstError,
                     refused, faults>>
  BY DEF EditApp, objectVars, cycleVars
<1>2. gen \in 1 .. MaxEdits + 1 /\ MaxEdits \in Nat
  BY LimitsAssumption DEF StatusInv, StatusTypeOK
<1>3. gen' \in 1 .. MaxEdits + 1 /\ 1 .. gen \subseteq 1 .. gen' /\ 0 .. gen \subseteq 0 .. gen'
  BY <1>1, <1>2
<1>4. StatusTypeOK'
  BY <1>1, <1>3 DEF StatusInv, StatusTypeOK
<1>5. Working' /\ Applying' /\ Checking' /\ StatusAgrees'
  BY <1>1, <1>3 DEF StatusInv, Working, Applying, Checking, StatusAgrees
<1>6. AcceptedOnly' /\ AppliedOrTodo' /\ ReadyIsThere'
  BY <1>1 DEF StatusInv, AcceptedOnly, AppliedOrTodo, Fresh, StsId, ReadyIsThere, Present
<1> QED BY <1>4, <1>5, <1>6 DEF StatusInv

\* Nothing changes.
LEMMA StatusStutters ==
  ASSUME StatusInv, UNCHANGED statusVars
  PROVE  StatusInv'
<1>1. UNCHANGED <<app, gen, store, pods, status, pc, spec, specGen, todo, unchecked, messages, firstError,
                  refused, faults>>
  BY DEF statusVars, specVars, objectVars, cycleVars
<1>2. StatusTypeOK' /\ Working' /\ Applying' /\ Checking' /\ StatusAgrees'
  BY <1>1 DEF StatusInv, StatusTypeOK, Working, Applying, Checking, StatusAgrees
<1>3. AcceptedOnly' /\ AppliedOrTodo' /\ ReadyIsThere'
  BY <1>1 DEF StatusInv, AcceptedOnly, AppliedOrTodo, Fresh, StsId, ReadyIsThere, Present
<1> QED BY <1>2, <1>3 DEF StatusInv

LEMMA StatusStep == StatusInv /\ [StatusNext]_statusVars => StatusInv'
<1> SUFFICES ASSUME StatusInv, [StatusNext]_statusVars PROVE StatusInv'
  OBVIOUS
<1>1. CASE Cycle
  BY <1>1, StartCycleKeeps, ApplyObjectKeeps, NameRefusedKeeps, AppliedAllKeeps, CheckComponentKeeps,
     SaveStatusKeeps DEF Cycle
<1>2. CASE ApplyFails \/ ApplyConflicts \/ ServiceReadFails \/ Restart \/ EditApp
  BY <1>2, ApplyFailsKeeps, ApplyConflictsKeeps, ServiceReadFailsKeeps, RestartKeeps, EditAppKeeps
<1>3. CASE \E id \in DOMAIN pods : PodsComeUp(id) \/ PodFails(id)
  BY <1>3, PodsKeep
<1>4. CASE UNCHANGED statusVars
  BY <1>4, StatusStutters
<1> QED BY <1>1, <1>2, <1>3, <1>4 DEF StatusNext

\* The invariant holds in every state the operator gets to.
LEMMA StatusAlways == StatusSpec => []StatusInv
<1>1. StatusInit => StatusInv
  BY StatusInitial
<1>2. StatusInv /\ [StatusNext]_statusVars => StatusInv'
  BY StatusStep
<1> QED BY <1>1, <1>2, PTL DEF StatusSpec

-----------------------------------------------------------------------------
(* Rest. *)

\* A key that is not queued has had no edit since the cycle under way read the
\* spec, and no object of that cycle was changed: what it got through without
\* an error stands at its generation.
AppliedSoFar ==
  \A o \in ToSet(DesiredObjects(spec)) : o \in ToSet(todo) \/ store[o.id].gen = specGen

RestInv ==
  /\ queued \in BOOLEAN
  /\ ~queued /\ pc # "idle" => spec = app /\ specGen = gen
  /\ ~queued /\ ((pc = "apply" /\ ~firstError) \/ pc = "check") => AppliedSoFar
  /\ RestsApplied

\* While the key is queued there is nothing to show.
LEMMA QueuedRests ==
  ASSUME queued' = TRUE
  PROVE  RestInv'
BY DEF RestInv, RestsApplied

\* A cycle that failed, or is not ready, is followed by another one.
LEMMA ConcludeQueues ==
  ASSUME queued \in BOOLEAN, NEW final, NEW failed \in BOOLEAN, Conclude(final, failed)
  PROVE  queued' \in BOOLEAN /\ pc' = "idle" /\ (queued \/ failed => queued' = TRUE)
BY DEF Conclude, Return

\* A cycle starts with all objects to apply.
LEMMA StartCycleRests ==
  ASSUME RestInv, StartCycle
  PROVE  RestInv'
<1>1. CASE ~\A c \in ToSet(app) : c.valid
  <2>1. PICK final : Conclude(final, TRUE)
    BY <1>1 DEF StartCycle
  <2>2. queued' = TRUE
    BY <2>1, ConcludeQueues DEF RestInv
  <2> QED BY <2>2, QueuedRests
<1>2. CASE \A c \in ToSet(app) : c.valid
  <2>1. /\ pc' = "apply" /\ queued' = FALSE /\ spec' = app /\ specGen' = gen
        /\ todo' = DesiredObjects(app) /\ app' = app /\ gen' = gen
    BY <1>2 DEF StartCycle, specVars
  <2>2. AppliedSoFar'
    BY <2>1 DEF AppliedSoFar
  <2> QED BY <2>1, <2>2 DEF RestInv, RestsApplied
<1> QED BY <1>1, <1>2

\* An object that stays as it is was applied already.
LEMMA ApplyObjectRests ==
  ASSUME StatusInv, RestInv, ApplyObject
  PROVE  RestInv'
<1> DEFINE o == Head(todo)
           new == IF Recreates(o) THEN Nothing ELSE Built(o)
<1>1. /\ pc = "apply" /\ todo # <<>> /\ todo' = Tail(todo)
      /\ UNCHANGED <<app, gen, pc, spec, specGen, firstError>>
      /\ store' = [store EXCEPT ![o.id] = new] /\ queued' = (queued \/ store' # store)
  BY DEF ApplyObject, specVars
<1>2. /\ o.id \in DOMAIN store /\ ToSet(todo) = {o} \cup ToSet(Tail(todo))
  BY <1>1, NextObject
<1>3. CASE queued'
  BY <1>1, <1>3, QueuedRests DEF RestInv
<1>4. CASE ~queued'
  <2>1. ~queued /\ store' = store /\ queued' \in BOOLEAN
    BY <1>1, <1>4
  <2>2. store[o.id] = new
    <3> HIDE DEF o, new
    <3> QED BY <1>1, <1>2, <2>1
  <2>3. ~Recreates(o)
    <3>1. Recreates(o) => store[o.id].comp # <<>>
      BY DEF Recreates
    <3> QED BY <2>2, <3>1 DEF Nothing
  <2>4. store[o.id].gen = specGen
    BY <2>2, <2>3 DEF Built
  <2>5. ~firstError => AppliedSoFar'
    <3> SUFFICES ASSUME ~firstError, NEW p \in ToSet(DesiredObjects(spec))
                 PROVE  p \in ToSet(Tail(todo)) \/ store[p.id].gen = specGen
      BY <1>1, <2>1 DEF AppliedSoFar
    <3>1. p \in ToSet(todo) \/ store[p.id].gen = specGen
      BY <1>1, <2>1 DEF RestInv, AppliedSoFar
    <3> HIDE DEF o
    <3> QED BY <1>2, <2>4, <3>1
  <2>6. spec' = app' /\ specGen' = gen'
    BY <1>1, <2>1 DEF RestInv
  <2> QED BY <1>1, <1>4, <2>5, <2>6 DEF RestInv, RestsApplied
<1> QED BY <1>3, <1>4

\* An error while objects are applied stays to the end of the cycle.
LEMMA ErrorRests ==
  ASSUME RestInv, pc = "apply", firstError' = TRUE, UNCHANGED <<app, gen, queued, pc, spec, specGen>>
  PROVE  RestInv'
BY DEF RestInv, RestsApplied

\* All objects were tried.
LEMMA AppliedAllRests ==
  ASSUME RestInv, AppliedAll
  PROVE  RestInv'
<1>1. pc = "apply" /\ todo = <<>> /\ UNCHANGED <<app, gen, store>>
  BY DEF AppliedAll, specVars, objectVars
<1>2. CASE firstError
  <2>1. PICK final : Conclude(final, TRUE)
    BY <1>2 DEF AppliedAll
  <2>2. queued' = TRUE
    BY <2>1, ConcludeQueues DEF RestInv
  <2> QED BY <2>2, QueuedRests
<1>3. CASE ~firstError
  <2>1. pc' = "check" /\ UNCHANGED <<queued, spec, specGen, todo>>
    BY <1>3 DEF AppliedAll
  <2>2. AppliedSoFar => AppliedSoFar'
    BY <1>1, <2>1 DEF AppliedSoFar
  <2> QED BY <1>1, <1>3, <2>1, <2>2 DEF RestInv, RestsApplied
<1> QED BY <1>2, <1>3

\* The checks apply nothing.
LEMMA CheckComponentRests ==
  ASSUME RestInv, NEW n \in unchecked, CheckComponent(n)
  PROVE  RestInv'
<1>1. pc = "check" /\ UNCHANGED <<app, gen, store, queued, pc, spec, specGen, todo>>
  BY DEF CheckComponent, Checked, specVars, objectVars
<1>2. AppliedSoFar => AppliedSoFar'
  BY <1>1 DEF AppliedSoFar
<1> QED BY <1>1, <1>2 DEF RestInv, RestsApplied

\* The cycle ends, with everything applied or the key queued.
LEMMA SaveStatusRests ==
  ASSUME StatusInv, RestInv, SaveStatus
  PROVE  RestInv'
<1>1. pc = "check" /\ Conclude(messages, firstError) /\ UNCHANGED <<app, gen, store>>
  BY DEF SaveStatus, specVars, objectVars
<1>2. firstError \in BOOLEAN /\ todo = <<>>
  BY <1>1 DEF StatusInv, Working, Checking
<1>3. queued' \in BOOLEAN /\ pc' = "idle" /\ (queued => queued' = TRUE)
  BY <1>1, <1>2, ConcludeQueues DEF RestInv
<1>4. ~queued => RestsApplied'
  <2> SUFFICES ASSUME ~queued, NEW o \in ToSet(DesiredObjects(app))
               PROVE  store[o.id].gen = gen
    BY <1>1 DEF RestsApplied
  <2>1. spec = app /\ specGen = gen /\ AppliedSoFar
    BY <1>1 DEF RestInv
  <2> QED BY <1>2, <2>1, NothingInIt DEF AppliedSoFar
<1> QED BY <1>3, <1>4, QueuedRests DEF RestInv

LEMMA RestStep == StatusInv /\ RestInv /\ [StatusNext]_statusVars => RestInv'
<1> SUFFICES ASSUME StatusInv, RestInv, [StatusNext]_statusVars PROVE RestInv'
  OBVIOUS
<1>1. CASE Cycle
  <2>1. ASSUME NameRefused PROVE RestInv'
    BY <2>1, ErrorRests DEF NameRefused, ApplyGoesOn, specVars
  <2> QED BY <1>1, <2>1, StartCycleRests, ApplyObjectRests, AppliedAllRests, CheckComponentRests,
             SaveStatusRests DEF Cycle
<1>2. CASE ApplyFails \/ ApplyConflicts \/ ServiceReadFails
  BY <1>2, ErrorRests DEF ApplyFails, ApplyConflicts, ServiceReadFails, ApplyGoesOn, specVars
<1>3. CASE Restart \/ EditApp
  BY <1>3, QueuedRests DEF Restart, EditApp
<1>4. CASE \E id \in DOMAIN pods : PodsComeUp(id) \/ PodFails(id)
  BY <1>4, QueuedRests DEF PodsComeUp, PodFails, PodsGoTo
<1>5. CASE UNCHANGED statusVars
  <2>1. UNCHANGED <<app, gen, store, queued, pc, spec, specGen, todo, firstError>>
    BY <1>5 DEF statusVars, specVars, objectVars, cycleVars
  <2> QED BY <2>1 DEF RestInv, RestsApplied, AppliedSoFar
<1> QED BY <1>1, <1>2, <1>3, <1>4, <1>5 DEF StatusNext

-----------------------------------------------------------------------------
(* The results. *)

\* Every variable is of its type: each object is stored for a generation that
\* there was, and each entry of the status is one the code writes.
THEOREM StatusTypeCorrect == StatusSpec => []StatusTypeOK
<1>1. StatusInv => StatusTypeOK
  BY DEF StatusInv
<1> QED BY <1>1, StatusAlways, PTL

\* The saved phase and the saved entries tell one story: Running is every
\* component healthy, Failed an error that a component shows, whichever way the
\* cycle ended (builder refused, applies failed, checks done).
THEOREM AgreesCorrect == StatusSpec => []StatusAgrees
<1>1. StatusInv => StatusAgrees
  BY DEF StatusInv
<1> QED BY <1>1, StatusAlways, PTL

\* With no cycle to come every object of the current spec is applied for it,
\* for any specs and names: a cycle that left one out, for an error of its own,
\* an edit or a deleted workload, has put the key back.
THEOREM RestsAppliedCorrect == StatusSpec => []RestsApplied
<1>1. StatusInit => RestInv
  BY DEF StatusInit, RestInv, RestsApplied
<1>2. StatusInv /\ RestInv /\ [StatusNext]_statusVars => RestInv'
  BY RestStep
<1>3. RestInv => RestsApplied
  BY DEF RestInv
<1> QED BY <1>1, <1>2, <1>3, StatusAlways, PTL DEF StatusSpec

\* A component that the health checks call healthy is so on account of a
\* StatefulSet applied in the same cycle: a name looked up among the stored
\* objects is one the API server accepted, such a name is its own resource
\* name, and the cycle has applied that StatefulSet or deleted it.
THEOREM HealthyOwnCorrect == StatusSpec => []HealthyIsOwn
<1>1. StatusInv => HealthyIsOwn
  <2> SUFFICES ASSUME StatusInv, pc = "check", spec[1].kind = "StatefulSet",
                      NEW n \in Names(spec), messages[n] = "ready"
               PROVE  LET sts == store[<<"StatefulSet", n>>]
                      IN sts.gen = specGen /\ sts.comp \in Names(spec) /\ DeriveResourceName(sts.comp) = n
    BY DEF HealthyIsOwn, StatusInv, StatusTypeOK
  <2> DEFINE id == <<"StatefulSet", n>>
  <2>1. id \in Ids /\ store[id] # Nothing
    BY DEF StatusInv, StatusTypeOK, ReadyIsThere, Present
  <2>2. Accepted(id)
    BY <2>1 DEF StatusInv, AcceptedOnly
  <2>3. "_" \notin ToSet(n)
    BY <2>2 DEF Accepted
  <2>4. PICK c \in ToSet(spec) : c.name = n
    BY DEF Names
  <2>5. n \in Seq(Characters) /\ ValidName(n)
    <3>1. spec \in Apps
      BY DEF StatusInv, Working
    <3>2. c \in Components /\ ValidName(c.name)
      BY <2>4, <3>1, SpecFacts
    <3> QED BY <2>4, <3>2 DEF Components
  <2>6. DeriveResourceName(n) = n
    BY <2>3, <2>5, PlainName
  <2>7. StsId(c) = id
    BY <2>4, <2>6 DEF StsId
  <2>8. Fresh(id)
    <3>1. todo = <<>>
      BY DEF StatusInv, Checking
    <3> QED BY <2>4, <2>7, <3>1, NothingInIt DEF StatusInv, AppliedOrTodo
  <2> QED BY <2>1, <2>8 DEF Fresh
<1> QED BY <1>1, StatusAlways, PTL

\* A cycle that could not apply names exactly the components whose objects were
\* refused, whatever else went wrong in it: the error that is written to all
\* entries leaves the specific ones alone.
THEOREM CulpritCorrect == StatusSpec => CulpritIsNamed
<1>1. ASSUME StatusInv, [StatusNext]_statusVars, pc = "apply", pc' = "idle", UNCHANGED faults
      PROVE  {n \in DOMAIN status'.messages : status'.messages[n] = "ApplyFailed"} = refused
  <2>1. AppliedAll
    <3>1. ~UNCHANGED statusVars
      BY <1>1 DEF statusVars, cycleVars
    <3>2. ~StartCycle /\ ~SaveStatus /\ ~ApplyObject /\ ~NameRefused
      BY <1>1 DEF StartCycle, SaveStatus, ApplyObject, NameRefused, ApplyGoesOn
    <3>3. \A n \in unchecked : ~CheckComponent(n)
      BY <1>1 DEF CheckComponent
    <3>4. ~ApplyFails /\ ~ApplyConflicts /\ ~ServiceReadFails /\ ~Restart
      BY <1>1, FaultCounts DEF ApplyFails, ApplyConflicts, ServiceReadFails, Restart
    <3>5. ~EditApp
      BY <1>1 DEF EditApp, cycleVars
    <3>6. \A id \in DOMAIN pods : ~PodsComeUp(id) /\ ~PodFails(id)
      BY <1>1 DEF PodsComeUp, PodFails, PodsGoTo, cycleVars
    <3> QED BY <1>1, <3>1, <3>2, <3>3, <3>4, <3>5, <3>6 DEF StatusNext, Cycle
  <2> DEFINE final == updateComponentStatusesForError(messages)
  <2>2. Conclude(final, TRUE)
    BY <1>1, <2>1 DEF AppliedAll
  <2>3. status'.messages = final
    BY <2>2 DEF Conclude, SaveEntries
  <2>4. {n \in DOMAIN final : final[n] = "ApplyFailed"} = refused
    BY <1>1, FailedEntries
  <2> HIDE DEF final
  <2> QED BY <2>3, <2>4
<1>2. StatusInv /\ [StatusNext]_statusVars =>
        [pc = "apply" /\ pc' = "idle" /\ UNCHANGED faults =>
          {n \in DOMAIN status'.messages : status'.messages[n] = "ApplyFailed"} = refused]_statusVars
  BY <1>1
<1> QED BY <1>2, StatusAlways, PTL DEF StatusSpec, CulpritIsNamed
=============================================================================
