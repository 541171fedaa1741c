---------------------------- MODULE RemakeWalkProof ----------------------------
(***************************************************************************)
(* What every step of Remake keeps true of the shape of the walk, for      *)
(* makefiles without circular prerequisites, :: rules and grouped rules:   *)
(* the types, who calls whom and how deep, the lists of prerequisites and  *)
(* the marks of the files that are being updated.  For such makefiles an   *)
(* action is also given the simpler form (... Plain) that the proofs about *)
(* the order of recipes start from.                                        *)
(***************************************************************************)
EXTENDS RemakeInv, FiniteSetTheorems, SequenceTheorems, WellFoundedInduction, TLAPS

--------------------------------------------------------------------------------
(* Numbers *)

\* A set of natural numbers has a least one.
LEMMA LeastNumber ==
    ASSUME NEW B, B \subseteq Nat, B # {}
    PROVE  \E b \in B : \A c \in B : b <= c
<1> DEFINE R == OpToRel(<, Nat)
<1>1. IsWellFoundedOn(R, Nat)
  BY NatLessThanWellFounded
<1>2. PICK b \in B : \A c \in B : ~(<<c, b>> \in R)
  <2> HIDE DEF R
  <2> QED BY <1>1, WFMin
<1>3. ASSUME NEW c \in B PROVE b <= c
  <2>1. c \in Nat /\ b \in Nat
    OBVIOUS
  <2>2. ~(<<c, b>> \in R)
    BY <1>2, <1>3
  <2>3. ~(c < b)
    BY <2>1, <2>2 DEF OpToRel
  <2> QED BY <2>1, <2>3
<1> QED BY <1>3

LEMMA IntervalSplit ==
    ASSUME NEW a \in Nat, NEW b \in Nat, a < b
    PROVE  a .. b = {a} \cup ((a + 1) .. b)
OBVIOUS

--------------------------------------------------------------------------------
(* Stacks and lists *)

LEMMA StackTop ==
    ASSUME NEW T, NEW s \in Seq(T), s # <<>>
    PROVE  /\ Head(s) = s[1] /\ s[1] \in T /\ Len(s) \in Nat /\ Len(s) >= 1
           /\ \A k \in 1 .. Len(s) : s[k] \in T
OBVIOUS

LEMMA StackContinue ==
    ASSUME NEW T, NEW s \in Seq(T), s # <<>>, NEW fr \in T, NEW t, t = <<fr>> \o Tail(s)
    PROVE  /\ t \in Seq(T) /\ t # <<>> /\ Len(t) = Len(s)
           /\ Head(t) = fr /\ t[1] = fr
           /\ \A k \in 2 .. Len(s) : t[k] = s[k]
OBVIOUS

LEMMA StackCall ==
    ASSUME NEW T, NEW s \in Seq(T), s # <<>>, NEW c \in T, NEW fr \in T, NEW t,
           t = <<c, fr>> \o Tail(s)
    PROVE  /\ t \in Seq(T) /\ t # <<>> /\ Len(t) = Len(s) + 1
           /\ Head(t) = c /\ t[1] = c /\ t[2] = fr
           /\ \A k \in 3 .. Len(s) + 1 : t[k] = s[k - 1]
OBVIOUS

LEMMA StackReturn ==
    ASSUME NEW T, NEW s \in Seq(T), s # <<>>, NEW t, t = Tail(s)
    PROVE  /\ t \in Seq(T) /\ Len(t) = Len(s) - 1 /\ Len(t) \in Nat
           /\ \A k \in 1 .. Len(t) : t[k] = s[k + 1]
           /\ t # <<>> <=> Len(s) # 1
           /\ t # <<>> => Head(t) = s[2] /\ t[1] = s[2]
<1>1. t \in Seq(T) /\ Len(t) = Len(s) - 1 /\ Len(t) \in Nat
  OBVIOUS
<1>2. \A k \in 1 .. Len(t) : t[k] = s[k + 1]
  OBVIOUS
<1>3. t # <<>> <=> Len(t) # 0
  BY <1>1
<1>4. Len(t) # 0 <=> Len(s) # 1
  <2>1. Len(s) \in Nat
    OBVIOUS
  <2> QED BY <2>1, <1>1
<1>5. ASSUME t # <<>> PROVE Head(t) = s[2] /\ t[1] = s[2]
  <2>1. Len(t) # 0
    BY <1>3, <1>5
  <2>2. 1 \in 1 .. Len(t)
    BY <1>1, <2>1
  <2>3. 1 + 1 = 2
    OBVIOUS
  <2>4. t[1] = s[2]
    BY <1>2, <2>2, <2>3
  <2>5. Head(t) = t[1]
    BY <1>1, <1>5
  <2> QED BY <2>4, <2>5
<1> QED BY <1>1, <1>2, <1>3, <1>4, <1>5

LEMMA NextIsMore ==
    ASSUME NEW a \in Nat, NEW b \in Nat, a <= b, ~(a + 1 <= b)
    PROVE  a = b
OBVIOUS

\* An element is taken out of a sequence: the others stay, and nothing is added.
LEMMA TakenOut ==
    ASSUME NEW T, NEW s \in Seq(T), NEW k \in 1 .. Len(s)
    PROVE  /\ SubSeq(s, 1, k - 1) \o SubSeq(s, k + 1, Len(s)) \in Seq(T)
           /\ \A i \in DOMAIN (SubSeq(s, 1, k - 1) \o SubSeq(s, k + 1, Len(s))) :
                 \E j \in DOMAIN s : s[j] = (SubSeq(s, 1, k - 1) \o SubSeq(s, k + 1, Len(s)))[i]
           /\ \A j \in DOMAIN s \ {k} :
                 \E i \in DOMAIN (SubSeq(s, 1, k - 1) \o SubSeq(s, k + 1, Len(s))) :
                     s[j] = (SubSeq(s, 1, k - 1) \o SubSeq(s, k + 1, Len(s)))[i]
<1> DEFINE a == SubSeq(s, 1, k - 1)
           b == SubSeq(s, k + 1, Len(s))
           t == a \o b
<1>1. Len(s) \in Nat /\ k \in Nat /\ k <= Len(s) /\ 1 <= k /\ DOMAIN s = 1 .. Len(s)
  OBVIOUS
<1>0. \A i \in 1 .. Len(s) : s[i] \in T
  OBVIOUS
<1>2. a \in Seq(T) /\ Len(a) = k - 1 /\ \A i \in 1 .. k - 1 : a[i] = s[i]
  <2>1. \A i \in 1 .. k - 1 : s[i] \in T
    BY <1>0, <1>1
  <2> HIDE DEF a
  <2>2. /\ a \in Seq(T) /\ Len(a) = IF 1 <= k - 1 THEN (k - 1) - 1 + 1 ELSE 0
        /\ \A i \in 1 .. (k - 1) - 1 + 1 : a[i] = s[1 + i - 1]
    BY <1>1, <2>1, SubSeqProperties DEF a
  <2>3. \A i \in 1 .. k - 1 : i \in 1 .. (k - 1) - 1 + 1 /\ 1 + i - 1 = i
    BY <1>1
  <2>4. Len(a) = k - 1
    BY <1>1, <2>2
  <2> QED BY <2>2, <2>3, <2>4
<1>3. b \in Seq(T) /\ Len(b) = Len(s) - k /\ \A i \in 1 .. Len(s) - k : b[i] = s[k + i]
  <2>1. \A i \in k + 1 .. Len(s) : s[i] \in T
    BY <1>0, <1>1
  <2> HIDE DEF b
  <2>2. /\ b \in Seq(T) /\ Len(b) = IF k + 1 <= Len(s) THEN Len(s) - (k + 1) + 1 ELSE 0
        /\ \A i \in 1 .. Len(s) - (k + 1) + 1 : b[i] = s[k + 1 + i - 1]
    BY <1>1, <2>1, SubSeqProperties DEF b
  <2>3. \A i \in 1 .. Len(s) - k : i \in 1 .. Len(s) - (k + 1) + 1 /\ k + 1 + i - 1 = k + i
    BY <1>1
  <2>4. Len(b) = Len(s) - k
    <3>1. CASE k + 1 <= Len(s)
      <4>1. Len(b) = Len(s) - (k + 1) + 1
        BY <2>2, <3>1
      <4> QED BY <1>1, <4>1
    <3>2. CASE ~(k + 1 <= Len(s))
      <4>1. Len(b) = 0
        BY <2>2, <3>2
      <4>2. k = Len(s)
        BY <1>1, <3>2, NextIsMore
      <4>3. Len(s) - k = 0
        BY <1>1, <4>2
      <4> QED BY <4>1, <4>3
    <3> QED BY <3>1, <3>2
  <2> QED BY <2>2, <2>3, <2>4
<1> HIDE DEF a, b
<1>5. /\ t \in Seq(T) /\ Len(t) = Len(a) + Len(b) /\ DOMAIN t = 1 .. Len(t)
      /\ \A i \in 1 .. Len(a) + Len(b) :
            t[i] = IF i <= Len(a) THEN a[i] ELSE b[i - Len(a)]
  <2>1. /\ t \in Seq(T) /\ Len(t) = Len(a) + Len(b)
        /\ \A i \in 1 .. Len(a) + Len(b) :
              t[i] = IF i <= Len(a) THEN a[i] ELSE b[i - Len(a)]
    BY <1>2, <1>3, ConcatProperties
  <2>2. DOMAIN t = 1 .. Len(t)
    <3> HIDE DEF t
    <3> QED BY <2>1
  <2> QED BY <2>1, <2>2
<1> HIDE DEF t
<1>6. ASSUME NEW i \in 1 .. Len(t) PROVE \E j \in DOMAIN s : s[j] = t[i]
  <2>0. i \in 1 .. Len(a) + Len(b) /\ i \in Int /\ Len(a) = k - 1 /\ Len(b) = Len(s) - k
    BY <1>2, <1>3, <1>5
  <2>1. CASE i <= k - 1
    <3>1. i \in 1 .. k - 1 /\ i \in 1 .. Len(s)
      BY <1>1, <2>0, <2>1
    <3>2. t[i] = a[i]
      BY <1>5, <2>0, <2>1
    <3>3. a[i] = s[i]
      BY <1>2, <3>1
    <3> QED BY <1>1, <3>1, <3>2, <3>3
  <2>2. CASE ~(i <= k - 1)
    <3>1. PICK j : j = i - (k - 1)
      OBVIOUS
    <3>2. j \in 1 .. Len(s) - k /\ k + j \in 1 .. Len(s)
      BY <1>1, <2>0, <2>2, <3>1
    <3>3. t[i] = b[j]
      BY <1>5, <2>0, <2>2, <3>1
    <3>4. b[j] = s[k + j]
      BY <1>3, <3>2
    <3> QED BY <1>1, <3>2, <3>3, <3>4
  <2> QED BY <2>1, <2>2
<1>7. ASSUME NEW j \in DOMAIN s \ {k} PROVE \E i \in DOMAIN t : s[j] = t[i]
  <2>0. j \in Nat /\ 1 <= j /\ j <= Len(s) /\ j # k /\ Len(a) = k - 1 /\ Len(b) = Len(s) - k
    BY <1>1, <1>2, <1>3
  <2>1. CASE j < k
    <3>1. j \in 1 .. k - 1 /\ j \in 1 .. Len(a) + Len(b) /\ j <= Len(a)
      BY <1>1, <2>0, <2>1
    <3>2. t[j] = a[j] /\ a[j] = s[j]
      BY <1>2, <1>5, <3>1
    <3> QED BY <1>5, <3>1, <3>2
  <2>2. CASE ~(j < k)
    <3>1. PICK i : i = j - 1
      OBVIOUS
    <3>2. PICK m : m = i - (k - 1)
      OBVIOUS
    <3>3. /\ i \in 1 .. Len(a) + Len(b) /\ ~(i <= Len(a)) /\ i - Len(a) = m
          /\ m \in 1 .. Len(s) - k /\ k + m = j
      BY <1>1, <2>0, <2>2, <3>1, <3>2
    <3>4. t[i] = b[m] /\ b[m] = s[j]
      BY <1>3, <1>5, <3>3
    <3> QED BY <1>5, <3>3, <3>4
  <2> QED BY <2>1, <2>2
<1>8. /\ t \in Seq(T) /\ \A i \in DOMAIN t : \E j \in DOMAIN s : s[j] = t[i]
      /\ \A j \in DOMAIN s \ {k} : \E i \in DOMAIN t : s[j] = t[i]
  BY <1>5, <1>6, <1>7
<1> QED BY <1>8 DEF t, a, b

--------------------------------------------------------------------------------
(* Plain makefiles *)

LEMMA PlainFiles ==
    ASSUME Plain
    PROVE  \A f \in Files :
              /\ DoubleColon[f] = NoFile /\ AlsoMake[f] = <<>> /\ Prev[f] = NoFile
              /\ Name(f) = f /\ Entries(f) = {f} /\ Peers(f) = {} /\ Group(f) = {f}
              /\ Scanned(f) = <<f>>
<1> TAKE f \in Files
<1>1. DoubleColon[f] = NoFile /\ AlsoMake[f] = <<>>
  BY DEF Plain
<1>2. Prev[f] = NoFile
  BY <1>1, EntriesAssumption
<1>3. \A g \in Files : Name(g) = g
  BY DEF Plain, Name
<1>4. Entries(f) = {f}
  BY <1>3 DEF Entries
<1>5. Peers(f) = {}
  BY <1>1 DEF Peers
<1>6. Group(f) = {f}
  BY <1>5 DEF Group
<1>7. Scanned(f) = <<f>>
  <2>1. <<f>> \o <<>> = <<f>>
    OBVIOUS
  <2> QED BY <1>1, <2>1 DEF Scanned
<1> QED BY <1>1, <1>2, <1>3, <1>4, <1>5, <1>6, <1>7

LEMMA PlainLevels ==
    ASSUME Plain
    PROVE  Level \in [Files -> Nat] /\ Graded
BY DEF Plain, Graded

LEMMA PrereqTypes ==
    /\ \A f \in Files : /\ Prereqs[f] \in Seq(PrereqType) /\ Len(Prereqs[f]) \in Nat
                        /\ DOMAIN Prereqs[f] = 1 .. Len(Prereqs[f])
                        /\ \A i \in 1 .. Len(Prereqs[f]) : Prereqs[f][i] \in PrereqType
    /\ \A n \in Nodes : /\ n[1] \in Files /\ n[2] \in 1 .. Len(Prereqs[n[1]])
                        /\ n = <<n[1], n[2]>> /\ n # NoDep
                        /\ Dep(n) \in PrereqType
    /\ \A f \in Files : \A i \in DOMAIN Prereqs[f] : <<f, i>> \in Nodes
<1>1. \A f \in Files : /\ Prereqs[f] \in Seq(PrereqType) /\ Len(Prereqs[f]) \in Nat
                       /\ DOMAIN Prereqs[f] = 1 .. Len(Prereqs[f])
                       /\ \A i \in 1 .. Len(Prereqs[f]) : Prereqs[f][i] \in PrereqType
  BY PrereqsAssumption
<1>2. ASSUME NEW n \in Nodes
      PROVE  /\ n[1] \in Files /\ n[2] \in 1 .. Len(Prereqs[n[1]])
             /\ n = <<n[1], n[2]>> /\ n # NoDep
             /\ Dep(n) \in PrereqType
  <2>1. PICK f \in Files : n \in {<<f, i>> : i \in DOMAIN Prereqs[f]}
    BY DEF Nodes
  <2>2. PICK i \in DOMAIN Prereqs[f] : n = <<f, i>>
    BY <2>1
  <2>3. n[1] = f /\ n[2] = i
    BY <2>2
  <2>4. f # NoFile
    BY FilesAssumption
  <2> QED BY <1>1, <2>2, <2>3, <2>4 DEF NoDep, Dep
<1>3. \A f \in Files : \A i \in DOMAIN Prereqs[f] : <<f, i>> \in Nodes
  BY DEF Nodes
<1> QED BY <1>1, <1>2, <1>3

LEMMA DepLower ==
    ASSUME Plain, NEW n \in Nodes
    PROVE  /\ Dep(n).file \in Files /\ n[1] \in Files
           /\ Level[Dep(n).file] \in Nat /\ Level[n[1]] \in Nat
           /\ Level[Dep(n).file] < Level[n[1]]
           /\ Dep(n).file # n[1]
<1>1. n[1] \in Files /\ n[2] \in DOMAIN Prereqs[n[1]] /\ Dep(n) \in PrereqType
  BY PrereqTypes
<1>2. Dep(n).file \in Files
  BY <1>1 DEF PrereqType
<1>3. Level[Dep(n).file] \in Nat /\ Level[n[1]] \in Nat
  BY <1>1, <1>2, PlainLevels
<1>4. Level[Dep(n).file] < Level[n[1]]
  BY <1>1, PlainLevels DEF Graded, Dep
<1> QED BY <1>1, <1>2, <1>3, <1>4

\* As long as nothing is taken out of a list, it has all its members.
LEMMA WholeLists ==
    ASSUME ListsKept
    PROVE  \A f \in Files : Prerequisites(f) = {<<f, i>> : i \in DOMAIN Prereqs[f]}
<1> DEFINE S == Nodes \cup {NoDep}
           E(g) == [m \in S |-> IF m = NoDep THEN {} ELSE {m} \cup g[next[m]]]
           nodes == CHOOSE g : g = E(g)
           W == [m \in S |-> IF m = NoDep THEN {}
                              ELSE {<<m[1], i>> : i \in m[2] .. Len(Prereqs[m[1]])}]
<1>1. ASSUME NEW m \in Nodes
      PROVE  /\ m[1] \in Files /\ m[2] \in 1 .. Len(Prereqs[m[1]]) /\ m = <<m[1], m[2]>>
             /\ Len(Prereqs[m[1]]) \in Nat /\ m[2] \in Nat /\ m # NoDep
             /\ m[2] < Len(Prereqs[m[1]]) =>
                   next[m] = <<m[1], m[2] + 1>> /\ <<m[1], m[2] + 1>> \in Nodes
                   /\ <<m[1], m[2] + 1>> # NoDep
             /\ ~(m[2] < Len(Prereqs[m[1]])) => next[m] = NoDep /\ m[2] = Len(Prereqs[m[1]])
  <2>1. /\ m[1] \in Files /\ m[2] \in 1 .. Len(Prereqs[m[1]]) /\ m = <<m[1], m[2]>>
        /\ Len(Prereqs[m[1]]) \in Nat /\ m # NoDep
    BY PrereqTypes
  <2>4. m[2] \in Nat
    BY <2>1
  <2>2. next[m] = IF m[2] < Len(Prereqs[m[1]]) THEN <<m[1], m[2] + 1>> ELSE NoDep
    BY DEF ListsKept
  <2>3. ASSUME m[2] < Len(Prereqs[m[1]])
        PROVE  <<m[1], m[2] + 1>> \in Nodes /\ <<m[1], m[2] + 1>> # NoDep
    <3>1. m[2] + 1 \in DOMAIN Prereqs[m[1]]
      BY <2>1, <2>3, PrereqTypes
    <3>2. <<m[1], m[2] + 1>> \in Nodes
      BY <2>1, <3>1, PrereqTypes
    <3> QED BY <3>2, PrereqTypes
  <2> QED BY <2>1, <2>2, <2>3, <2>4
<1>2. W = E(W)
  <2>1. ASSUME NEW m \in S
        PROVE  W[m] = IF m = NoDep THEN {} ELSE {m} \cup W[next[m]]
    <3>1. CASE m = NoDep
      BY <3>1
    <3>2. CASE m # NoDep
      <4>1. m \in Nodes
        BY <3>2
      <4>2. W[m] = {<<m[1], i>> : i \in m[2] .. Len(Prereqs[m[1]])}
        BY <3>2
      <4>3. CASE m[2] < Len(Prereqs[m[1]])
        <5> DEFINE n == <<m[1], m[2] + 1>>
        <5>0. next[m] = n /\ n \in S /\ n # NoDep /\ n[1] = m[1] /\ n[2] = m[2] + 1
          BY <1>1, <4>1, <4>3
        <5>1. W[next[m]] = {<<m[1], i>> : i \in (m[2] + 1) .. Len(Prereqs[m[1]])}
          <6> HIDE DEF n
          <6> QED BY <5>0
        <5>2. m[2] .. Len(Prereqs[m[1]]) = {m[2]} \cup ((m[2] + 1) .. Len(Prereqs[m[1]]))
          <6>1. m[2] \in Nat /\ Len(Prereqs[m[1]]) \in Nat
            BY <1>1, <4>1
          <6> QED BY <6>1, <4>3, IntervalSplit
        <5>3. {<<m[1], i>> : i \in m[2] .. Len(Prereqs[m[1]])}
                = {<<m[1], m[2]>>} \cup {<<m[1], i>> : i \in (m[2] + 1) .. Len(Prereqs[m[1]])}
          BY <5>2
        <5> QED BY <5>1, <5>3, <4>2, <1>1, <4>1, <3>2
      <4>4. CASE ~(m[2] < Len(Prereqs[m[1]]))
        <5>1. next[m] = NoDep /\ m[2] = Len(Prereqs[m[1]]) /\ m[2] \in Nat
          BY <1>1, <4>1, <4>4
        <5>2. W[next[m]] = {}
          BY <5>1
        <5>3. m[2] .. Len(Prereqs[m[1]]) = {m[2]}
          BY <5>1
        <5>4. {<<m[1], i>> : i \in m[2] .. Len(Prereqs[m[1]])} = {<<m[1], m[2]>>}
          BY <5>3
        <5> QED BY <5>2, <5>4, <4>2, <1>1, <4>1, <3>2
      <4> QED BY <4>3, <4>4
    <3> QED BY <3>1, <3>2
  <2> QED BY <2>1
<1>3. nodes = E(nodes)
  <2> HIDE DEF E, W
  <2> QED BY <1>2
<1>4. /\ nodes[NoDep] = {}
      /\ \A m \in Nodes : nodes[m] = {m} \cup nodes[next[m]]
  <2> HIDE DEF nodes
  <2>1. \A m \in S : nodes[m] = IF m = NoDep THEN {} ELSE {m} \cup nodes[next[m]]
    BY <1>3
  <2> QED BY <2>1, <1>1
<1> HIDE DEF nodes
<1>5. \A m \in Nodes : nodes[m] = {<<m[1], i>> : i \in m[2] .. Len(Prereqs[m[1]])}
  <2> DEFINE Bad == {m \in Nodes : nodes[m] # {<<m[1], i>> : i \in m[2] .. Len(Prereqs[m[1]])}}
             Dist(m) == Len(Prereqs[m[1]]) - m[2]
             B == {Dist(m) : m \in Bad}
  <2>1. SUFFICES ASSUME Bad # {} PROVE FALSE
    OBVIOUS
  <2>2. B \subseteq Nat /\ B # {}
    <3>1. \A m \in Bad : Dist(m) \in Nat
      <4> SUFFICES ASSUME NEW m \in Nodes PROVE Dist(m) \in Nat
        OBVIOUS
      <4>1. m[2] \in 1 .. Len(Prereqs[m[1]]) /\ Len(Prereqs[m[1]]) \in Nat
        BY <1>1
      <4> QED BY <4>1
    <3> HIDE DEF Bad, Dist
    <3> QED BY <2>1, <3>1
  <2>3. PICK b \in B : \A c \in B : b <= c
    <3> HIDE DEF B
    <3> QED BY <2>2, LeastNumber
  <2>4. PICK m \in Bad : b = Dist(m)
    BY <2>3
  <2>5. m \in Nodes /\ nodes[m] # {<<m[1], i>> : i \in m[2] .. Len(Prereqs[m[1]])}
    BY <2>4
  <2>6. nodes[m] = {m} \cup nodes[next[m]] /\ m = <<m[1], m[2]>>
    BY <1>1, <1>4, <2>5
  <2>7. CASE m[2] < Len(Prereqs[m[1]])
    <3> DEFINE n == <<m[1], m[2] + 1>>
    <3>1. next[m] = n /\ n \in Nodes /\ n[1] = m[1] /\ n[2] = m[2] + 1
      BY <1>1, <2>5, <2>7
    <3>2. Dist(n) < Dist(m) /\ Dist(n) \in Int /\ Dist(m) \in Int
      <4>1. m[2] \in Nat /\ Len(Prereqs[m[1]]) \in Nat
        BY <1>1, <2>5
      <4> HIDE DEF n
      <4> QED BY <4>1, <3>1
    <3>3. n \notin Bad
      <4>1. n \in Bad => Dist(n) \in B
        OBVIOUS
      <4> HIDE DEF B, Bad, Dist
      <4> QED BY <4>1, <3>2, <2>3, <2>4
    <3>4. nodes[n] = {<<m[1], i>> : i \in (m[2] + 1) .. Len(Prereqs[m[1]])}
      BY <3>1, <3>3
    <3>5. m[2] .. Len(Prereqs[m[1]]) = {m[2]} \cup ((m[2] + 1) .. Len(Prereqs[m[1]]))
      <4>1. m[2] \in Nat /\ Len(Prereqs[m[1]]) \in Nat
        BY <1>1, <2>5
      <4> QED BY <4>1, <2>7, IntervalSplit
    <3>6. {<<m[1], i>> : i \in m[2] .. Len(Prereqs[m[1]])}
                = {<<m[1], m[2]>>} \cup {<<m[1], i>> : i \in (m[2] + 1) .. Len(Prereqs[m[1]])}
      BY <3>5
    <3> QED BY <2>5, <2>6, <3>1, <3>4, <3>6
  <2>8. CASE ~(m[2] < Len(Prereqs[m[1]]))
    <3>1. next[m] = NoDep /\ m[2] = Len(Prereqs[m[1]]) /\ m[2] \in Nat
      BY <1>1, <2>5, <2>8
    <3>2. m[2] .. Len(Prereqs[m[1]]) = {m[2]}
      BY <3>1
    <3>3. {<<m[1], i>> : i \in m[2] .. Len(Prereqs[m[1]])} = {<<m[1], m[2]>>}
      BY <3>2
    <3> QED BY <2>5, <2>6, <3>1, <3>3, <1>4
  <2> QED BY <2>7, <2>8
<1>6. \A n : ListFrom(n) = nodes[n]
  BY DEF ListFrom, nodes
<1>7. SUFFICES ASSUME NEW f \in Files
               PROVE  Prerequisites(f) = {<<f, i>> : i \in DOMAIN Prereqs[f]}
  OBVIOUS
<1>8. /\ first[f] = IF Prereqs[f] = <<>> THEN NoDep ELSE <<f, 1>>
      /\ Len(Prereqs[f]) \in Nat /\ DOMAIN Prereqs[f] = 1 .. Len(Prereqs[f])
      /\ Prereqs[f] = <<>> <=> Len(Prereqs[f]) = 0
  BY PrereqTypes DEF ListsKept
<1>9. CASE Prereqs[f] = <<>>
  BY <1>4, <1>6, <1>8, <1>9 DEF Prerequisites
<1>10. CASE Prereqs[f] # <<>>
  <2>1. <<f, 1>> \in Nodes
    BY <1>8, <1>10, PrereqTypes
  <2> QED BY <2>1, <1>5, <1>6, <1>8, <1>10 DEF Prerequisites
<1> QED BY <1>9, <1>10

--------------------------------------------------------------------------------
(* Looking at files, and deciding them *)

LEMMA LookPlain ==
    ASSUME Plain, TypeOK, NEW F, F \subseteq Files
    PROVE  /\ Seen(F) = [g \in Files |-> IF g \in F /\ last_mtime[g] = UNKNOWN_MTIME
                                           THEN disk[g] ELSE last_mtime[g]]
           /\ Seen(F) \in [Files -> Times]
           /\ Found(F) = {g \in intermediate :
                  ~(/\ g \in F /\ last_mtime[g] = UNKNOWN_MTIME
                    /\ disk[g] # NONEXISTENT_MTIME /\ command_state[g] = "not_started")}
<1>1. \A g \in Files : Name(g) = g
  BY PlainFiles
<1>2. \A g \in Files : Fetched(F, g) <=> g \in F /\ last_mtime[g] = UNKNOWN_MTIME
  BY <1>1 DEF Fetched
<1>3. Seen(F) = [g \in Files |-> IF g \in F /\ last_mtime[g] = UNKNOWN_MTIME
                                   THEN disk[g] ELSE last_mtime[g]]
  BY <1>1, <1>2 DEF Seen
<1>4. Seen(F) \in [Files -> Times]
  <2>1. \A g \in Files : disk[g] \in Times /\ last_mtime[g] \in Times
    BY DisksAssumption, FilesAssumption, FS_CardinalityType
       DEF TypeOK, Times, NEW_MTIME, NONEXISTENT_MTIME, UNKNOWN_MTIME
  <2> QED BY <1>3, <2>1
<1>5. Found(F) = {g \in intermediate :
                  ~(/\ g \in F /\ last_mtime[g] = UNKNOWN_MTIME
                    /\ disk[g] # NONEXISTENT_MTIME /\ command_state[g] = "not_started")}
  <2>1. intermediate \subseteq Files
    BY FlagsAssumption DEF TypeOK
  <2> QED BY <1>1, <2>1 DEF Found
<1> QED BY <1>3, <1>4, <1>5

LEMMA NoticePlain ==
    ASSUME Plain, TypeOK, NEW f \in Files, NEW result, NEW ran, NEW times,
           times \in [Files -> Times], NoticeFinished(f, result, ran, times)
    PROVE  /\ command_state' = [command_state EXCEPT ![f] = "finished"]
           /\ updated' = updated \cup {f}
           /\ update_status' = [update_status EXCEPT ![f] = result]
           /\ last_mtime' = [g \in Files |-> IF g = f /\ ran /\ f \notin Phony
                                                THEN TimeAfterRecipe ELSE times[g]]
<1>1. Peers(f) = {} /\ DoubleColon[f] = NoFile
  BY PlainFiles
<1> DEFINE others == IF ran THEN Peers(f) ELSE {}
           own == IF ran /\ f \notin Phony THEN [times EXCEPT ![f] = TimeAfterRecipe] ELSE times
<1>2. others = {}
  BY <1>1
<1>3. /\ command_state' = [g \in Files |->
                               IF g = f \/ g \in others THEN "finished" ELSE command_state[g]]
      /\ updated' = updated \cup {f} \cup others
      /\ update_status' = [g \in Files |->
                               IF g = f \/ g \in others THEN result ELSE update_status[g]]
  BY DEF NoticeFinished
<1>4. last_mtime' = [g \in Files |-> own[g]]
  BY <1>1, <1>2 DEF NoticeFinished
<1>5. \A g \in Files : own[g] = IF g = f /\ ran /\ f \notin Phony
                                    THEN TimeAfterRecipe ELSE times[g]
  OBVIOUS
<1>6. last_mtime' = [g \in Files |-> IF g = f /\ ran /\ f \notin Phony
                                      THEN TimeAfterRecipe ELSE times[g]]
  <2> HIDE DEF own
  <2> QED BY <1>4, <1>5
<1>7. /\ command_state' = [command_state EXCEPT ![f] = "finished"]
      /\ update_status' = [update_status EXCEPT ![f] = result]
      /\ updated' = updated \cup {f}
  <2> HIDE DEF others
  <2> QED BY <1>2, <1>3 DEF TypeOK
<1> QED BY <1>6, <1>7

LEMMA SetPlain ==
    ASSUME Plain, TypeOK, NEW f \in Files, NEW state, SetCommandState(f, state)
    PROVE  command_state' = [command_state EXCEPT ![f] = state]
<1>1. Peers(f) = {}
  BY PlainFiles
<1> QED BY <1>1 DEF SetCommandState, TypeOK

--------------------------------------------------------------------------------
(* The shape of the stack *)

LEMMA LevelTypes ==
    ASSUME Plain, NEW a \in FrameType
    PROVE  Level[a.file] \in Nat
BY PlainLevels DEF FrameType

LEMMA ShapeContinue ==
    ASSUME Plain, NEW s \in Seq(FrameType), s # <<>>, Shape(s), NEW fr \in FrameType,
           fr.file = s[1].file, fr.proc = s[1].proc, FrameShape(fr),
           fr.proc = Check /\ s[1].must_make => fr.must_make
    PROVE  Shape(<<fr>> \o Tail(s))
<1> DEFINE t == <<fr>> \o Tail(s)
<1>1. /\ t \in Seq(FrameType) /\ t # <<>> /\ Len(t) = Len(s) /\ t[1] = fr
      /\ \A k \in 2 .. Len(s) : t[k] = s[k]
  BY StackContinue
<1>2. Len(s) \in Nat /\ Len(s) >= 1
  BY StackTop
<1> HIDE DEF t
<1>3. \A k \in 1 .. Len(t) : FrameShape(t[k])
  BY <1>1, <1>2 DEF Shape
<1>4. \A k \in 1 .. Len(t) - 1 : Called(t[k], t[k + 1])
  <2>1. ASSUME NEW k \in 1 .. Len(s) - 1 PROVE Called(t[k], t[k + 1])
    <3>1. Called(s[k], s[k + 1]) /\ t[k + 1] = s[k + 1]
      BY <1>1, <1>2 DEF Shape
    <3>2. CASE k = 1
      BY <3>1, <3>2, <1>1 DEF Called, Update, Update1, Check
    <3>3. CASE k # 1
      BY <3>1, <3>3, <1>1, <1>2
    <3> QED BY <3>2, <3>3
  <2> QED BY <2>1, <1>1
<1>5. \A k, m \in 1 .. Len(t) : k < m => Below(t[k], t[m])
  <2>1. ASSUME NEW k \in 1 .. Len(s), NEW m \in 1 .. Len(s), k < m
        PROVE  Below(t[k], t[m])
    <3>1. Below(s[k], s[m]) /\ t[m] = s[m]
      BY <1>1, <1>2, <2>1 DEF Shape
    <3>2. t[k].file = s[k].file
      BY <1>1, <1>2
    <3> QED BY <3>1, <3>2 DEF Below
  <2> QED BY <2>1, <1>1
<1>6. t[Len(t)].proc = s[Len(s)].proc /\ t[Len(t)].file = s[Len(s)].file
  BY <1>1, <1>2
<1> QED BY <1>1, <1>3, <1>4, <1>5, <1>6 DEF Shape, t

LEMMA ShapeCall ==
    ASSUME Plain, NEW s \in Seq(FrameType), s # <<>>, Shape(s), NEW fr \in FrameType,
           fr.file = s[1].file, fr.proc = s[1].proc, FrameShape(fr),
           fr.proc = Check /\ s[1].must_make => fr.must_make,
           NEW c \in FrameType, FrameShape(c), Called(c, fr), Below(c, fr)
    PROVE  Shape(<<c, fr>> \o Tail(s))
<1> DEFINE t == <<c, fr>> \o Tail(s)
           u == <<fr>> \o Tail(s)
<1>1. /\ t \in Seq(FrameType) /\ t # <<>> /\ Len(t) = Len(s) + 1 /\ t[1] = c /\ t[2] = fr
      /\ \A k \in 3 .. Len(s) + 1 : t[k] = s[k - 1]
  BY StackCall
<1>2. Len(s) \in Nat /\ Len(s) >= 1
  BY StackTop
<1>3. Shape(u)
  BY ShapeContinue
<1>4. /\ Len(u) = Len(s) /\ u[1] = fr /\ \A k \in 2 .. Len(s) : u[k] = s[k]
      /\ \A k \in 1 .. Len(u) : u[k] \in FrameType
  BY StackContinue
<1> HIDE DEF t, u
<1>5. \A k \in 2 .. Len(s) + 1 : t[k] = u[k - 1] /\ k - 1 \in 1 .. Len(u)
  BY <1>1, <1>2, <1>4
<1>6. \A k \in 1 .. Len(t) : FrameShape(t[k])
  BY <1>1, <1>2, <1>3, <1>5 DEF Shape
<1>7. ASSUME NEW k \in 1 .. Len(s) PROVE Called(t[k], t[k + 1])
  <2>1. CASE k = 1
    BY <1>1, <2>1
  <2>2. CASE k # 1
    <3>1. k \in 2 .. Len(s) + 1 /\ k + 1 \in 2 .. Len(s) + 1 /\ k - 1 \in 1 .. Len(u) - 1
      BY <1>2, <1>4, <2>2
    <3>2. t[k] = u[k - 1] /\ t[k + 1] = u[(k - 1) + 1]
      BY <3>1, <1>5
    <3>3. Called(u[k - 1], u[(k - 1) + 1])
      BY <3>1, <1>3 DEF Shape
    <3> QED BY <3>2, <3>3
  <2> QED BY <2>1, <2>2
<1>8. ASSUME NEW k \in 1 .. Len(t), NEW m \in 1 .. Len(t), k < m PROVE Below(t[k], t[m])
  <2>1. m \in 2 .. Len(s) + 1 /\ t[m] = u[m - 1] /\ m - 1 \in 1 .. Len(u)
    BY <1>1, <1>2, <1>5, <1>8
  <2>2. CASE k # 1
    <3>1. t[k] = u[k - 1] /\ k - 1 \in 1 .. Len(u) /\ k - 1 < m - 1
      BY <1>1, <1>2, <1>5, <1>8, <2>2
    <3> QED BY <2>1, <3>1, <1>3 DEF Shape
  <2>3. CASE k = 1 /\ m = 2
    BY <2>3, <1>1
  <2>4. CASE k = 1 /\ m # 2
    <3>1. 1 \in 1 .. Len(u) /\ 1 < m - 1
      BY <1>2, <1>4, <2>1, <2>4
    <3>2. Below(fr, u[m - 1])
      BY <3>1, <2>1, <1>3, <1>4 DEF Shape
    <3>3. u[m - 1] \in FrameType
      BY <1>4, <2>1
    <3>4. Level[c.file] \in Nat /\ Level[fr.file] \in Nat /\ Level[u[m - 1].file] \in Nat
      BY <3>3, LevelTypes
    <3>5. Below(c, u[m - 1])
      BY <3>2, <3>4 DEF Below
    <3> QED BY <3>5, <2>1, <2>4, <1>1
  <2> QED BY <2>2, <2>3, <2>4
<1>9. t[Len(t)] = u[Len(u)]
  BY <1>1, <1>2, <1>4, <1>5
<1>10. /\ u[Len(u)].proc = Update
       /\ \E i \in DOMAIN goaldeps : goaldeps[i] = u[Len(u)].file
  <2>1. u # <<>>
    BY StackContinue DEF u
  <2> QED BY <2>1, <1>3 DEF Shape
<1>11. \A k \in 1 .. Len(t) - 1 : Called(t[k], t[k + 1])
  <2>1. Len(t) - 1 = Len(s)
    BY <1>1, <1>2
  <2> QED BY <2>1, <1>7
<1> QED BY <1>1, <1>6, <1>8, <1>9, <1>10, <1>11 DEF Shape, t

LEMMA ShapeReturn ==
    ASSUME NEW s \in Seq(FrameType), s # <<>>, Shape(s)
    PROVE  Shape(Tail(s))
<1> DEFINE t == Tail(s)
<1>1. /\ t \in Seq(FrameType) /\ Len(t) = Len(s) - 1 /\ Len(t) \in Nat
      /\ \A k \in 1 .. Len(t) : t[k] = s[k + 1]
      /\ t # <<>> <=> Len(s) # 1
  BY StackReturn
<1>2. Len(s) \in Nat /\ Len(s) >= 1
  BY StackTop
<1> HIDE DEF t
<1>3. \A k \in 1 .. Len(t) : FrameShape(t[k])
  BY <1>1, <1>2 DEF Shape
<1>4. ASSUME NEW k \in 1 .. Len(t) - 1 PROVE Called(t[k], t[k + 1])
  <2>1. t[k] = s[k + 1] /\ t[k + 1] = s[(k + 1) + 1]
    BY <1>1, <1>2
  <2>2. k + 1 \in 1 .. Len(s) - 1
    BY <1>1, <1>2
  <2> QED BY <2>1, <2>2 DEF Shape
<1>5. ASSUME NEW k \in 1 .. Len(t), NEW m \in 1 .. Len(t), k < m PROVE Below(t[k], t[m])
  <2>1. k + 1 \in 1 .. Len(s) /\ m + 1 \in 1 .. Len(s) /\ k + 1 < m + 1
    BY <1>1, <1>2, <1>5
  <2>2. t[k] = s[k + 1] /\ t[m] = s[m + 1]
    BY <1>1
  <2> QED BY <2>1, <2>2 DEF Shape
<1>6. t # <<>> => t[Len(t)] = s[Len(s)]
  BY <1>1, <1>2
<1> QED BY <1>1, <1>3, <1>4, <1>5, <1>6 DEF Shape, t

--------------------------------------------------------------------------------
(* The invariant of the walk, for each way the stack changes *)

Marking(fr) == fr.proc # Update /\ fr.at \notin {"enter", "remade"}
Walks == {"walk", "new_job", "linear"}

LEMMA WalkFacts ==
    ASSUME Plain, TypeOK, WalkInv, pc \in Walks
    PROVE  /\ stack \in Seq(FrameType) /\ stack # <<>> /\ Top = stack[1] /\ Top \in FrameType
           /\ Len(stack) \in Nat /\ Len(stack) >= 1
           /\ \A k \in 1 .. Len(stack) : stack[k] \in FrameType
           /\ Shape(stack) /\ FrameShape(Top) /\ DOMAIN stack = 1 .. Len(stack)
           /\ Top.du # NoDep => /\ Top.du \in Nodes /\ Top.du[1] = Top.file
                                /\ Dep(Top.du).file \in Files
                                /\ Level[Dep(Top.du).file] < Level[Top.file]
                                /\ Dep(Top.du).file # Top.file
           /\ Top.file \in Files
<1>1. stack \in Seq(FrameType) /\ stack # <<>>
  BY DEF TypeOK, WalkInv, ControlInv, Walks
<1>2. /\ Top = stack[1] /\ Top \in FrameType /\ Len(stack) \in Nat /\ Len(stack) >= 1
      /\ \A k \in 1 .. Len(stack) : stack[k] \in FrameType
  BY <1>1, StackTop DEF Top
<1>3. Shape(stack) /\ FrameShape(Top)
  BY <1>2 DEF WalkInv, Shape
<1>4. ASSUME Top.du # NoDep
      PROVE  /\ Top.du \in Nodes /\ Top.du[1] = Top.file
             /\ Dep(Top.du).file \in Files
             /\ Level[Dep(Top.du).file] < Level[Top.file]
             /\ Dep(Top.du).file # Top.file
  <2>1. Top.du \in Nodes
    BY <1>2, <1>4 DEF FrameType
  <2>2. Top.du[1] = Top.file
    BY <1>3, <1>4 DEF FrameShape
  <2> QED BY <2>1, <2>2, DepLower
<1>5. Top.file \in Files
  BY <1>2 DEF FrameType
<1>6. DOMAIN stack = 1 .. Len(stack)
  BY <1>1
<1> QED BY <1>1, <1>2, <1>3, <1>4, <1>5, <1>6

LEMMA WalkContinue ==
    ASSUME Plain, TypeOK, WalkInv, pc = "walk",
           NEW fr \in FrameType, stack' = <<fr>> \o Tail(stack),
           fr.file = Top.file, fr.proc = Top.proc, FrameShape(fr), fr.at # "dep_back",
           fr.proc = Check /\ Top.must_make => fr.must_make,
           pc' = "walk" \/ (pc' = "new_job" /\ fr.proc = Update1 /\ fr.at = "remade"),
           UNCHANGED <<goaldeps, goals, goal, entry, first, next>>,
           \A g \in updating' :
              \/ g \in updating /\ (g = Top.file /\ Marking(Top) => Marking(fr))
              \/ g = fr.file /\ Marking(fr)
    PROVE  stack' \in Seq(FrameType) /\ WalkInv'
<1>1. /\ stack \in Seq(FrameType) /\ stack # <<>> /\ Top = stack[1]
      /\ Len(stack) \in Nat /\ Len(stack) >= 1 /\ Shape(stack)
      /\ DOMAIN stack = 1 .. Len(stack)
  BY WalkFacts DEF Walks
<1>2. /\ stack' \in Seq(FrameType) /\ stack' # <<>> /\ Len(stack') = Len(stack)
      /\ Head(stack') = fr /\ stack'[1] = fr
      /\ \A k \in 2 .. Len(stack) : stack'[k] = stack[k]
  BY <1>1, StackContinue
<1>3. Shape(stack)'
  <2>1. PICK t : t = <<fr>> \o Tail(stack)
    OBVIOUS
  <2>2. Shape(t)
    BY <1>1, <2>1, ShapeContinue
  <2> QED BY <2>1, <2>2 DEF Shape
<1>4. ControlInv'
  BY <1>2 DEF WalkInv, ControlInv, Top
<1>5. ListsKept'
  BY DEF WalkInv, ListsKept
<1>6. MarksInv'
  <2>1. ASSUME NEW g \in updating'
        PROVE  \E k \in 1 .. Len(stack) :
                  stack'[k].file = g /\ Marking(stack'[k])
    <3>1. CASE g = fr.file /\ Marking(fr)
      BY <1>1, <1>2, <3>1
    <3>2. CASE g \in updating /\ (g = Top.file /\ Marking(Top) => Marking(fr))
      <4>1. PICK k \in 1 .. Len(stack) : stack[k].file = g /\ Marking(stack[k])
        BY <3>2, <1>1 DEF WalkInv, MarksInv, Over, Marking
      <4>2. CASE k = 1
        BY <4>1, <4>2, <3>2, <1>1, <1>2
      <4>3. CASE k # 1
        BY <4>1, <4>3, <1>1, <1>2
      <4> QED BY <4>2, <4>3
    <3> QED BY <3>1, <3>2, <2>1
  <2>2. DOMAIN stack' = 1 .. Len(stack)
    BY <1>2
  <2> QED BY <2>1, <2>2 DEF MarksInv, Marking
<1> QED BY <1>2, <1>3, <1>4, <1>5, <1>6 DEF WalkInv

LEMMA WalkCall ==
    ASSUME Plain, TypeOK, WalkInv, pc = "walk",
           NEW fr \in FrameType, NEW c \in FrameType, stack' = <<c, fr>> \o Tail(stack),
           fr.file = Top.file, fr.proc = Top.proc, FrameShape(fr),
           fr.proc = Check /\ Top.must_make => fr.must_make,
           FrameShape(c), c.at = "enter", Called(c, fr), Below(c, fr),
           UNCHANGED <<pc, goaldeps, goals, goal, entry, first, next>>,
           \A g \in updating' :
              \/ g \in updating /\ (g = Top.file /\ Marking(Top) => Marking(fr))
              \/ g = fr.file /\ Marking(fr)
    PROVE  stack' \in Seq(FrameType) /\ WalkInv'
<1>1. /\ stack \in Seq(FrameType) /\ stack # <<>> /\ Top = stack[1]
      /\ Len(stack) \in Nat /\ Len(stack) >= 1 /\ Shape(stack)
      /\ DOMAIN stack = 1 .. Len(stack)
  BY WalkFacts DEF Walks
<1>2. /\ stack' \in Seq(FrameType) /\ stack' # <<>> /\ Len(stack') = Len(stack) + 1
      /\ Head(stack') = c /\ stack'[1] = c /\ stack'[2] = fr
      /\ \A k \in 3 .. Len(stack) + 1 : stack'[k] = stack[k - 1]
  BY <1>1, StackCall
<1>3. Shape(stack)'
  <2>1. PICK t : t = <<c, fr>> \o Tail(stack)
    OBVIOUS
  <2>2. Shape(t)
    BY <1>1, <2>1, ShapeCall
  <2> QED BY <2>1, <2>2 DEF Shape
<1>4. ControlInv'
  BY <1>2 DEF WalkInv, ControlInv, Top
<1>5. ListsKept'
  BY DEF WalkInv, ListsKept
<1>6. MarksInv'
  <2>1. ASSUME NEW g \in updating'
        PROVE  \E k \in 1 .. Len(stack) + 1 :
                  stack'[k].file = g /\ Marking(stack'[k])
    <3>1. CASE g = fr.file /\ Marking(fr)
      <4>1. 2 \in 1 .. Len(stack) + 1
        BY <1>1
      <4> QED BY <4>1, <1>2, <3>1
    <3>2. CASE g \in updating /\ (g = Top.file /\ Marking(Top) => Marking(fr))
      <4>1. PICK k \in 1 .. Len(stack) : stack[k].file = g /\ Marking(stack[k])
        BY <3>2, <1>1 DEF WalkInv, MarksInv, Over, Marking
      <4>2. CASE k = 1
        <5>1. 2 \in 1 .. Len(stack) + 1
          BY <1>1
        <5> QED BY <5>1, <4>1, <4>2, <3>2, <1>1, <1>2
      <4>3. CASE k # 1
        <5>1. k + 1 \in 1 .. Len(stack) + 1 /\ stack'[k + 1] = stack[k]
          BY <1>1, <1>2, <4>3
        <5> QED BY <5>1, <4>1
      <4> QED BY <4>2, <4>3
    <3> QED BY <3>1, <3>2, <2>1
  <2>2. DOMAIN stack' = 1 .. Len(stack) + 1
    BY <1>2
  <2> QED BY <2>1, <2>2 DEF MarksInv, Marking
<1> QED BY <1>2, <1>3, <1>4, <1>5, <1>6 DEF WalkInv

LEMMA WalkReturn ==
    ASSUME Plain, TypeOK, WalkInv, pc = "walk", NEW result, NEW must_make,
           Return(result, must_make), Top.proc = Check /\ Top.must_make => must_make,
           UNCHANGED <<goaldeps, goals, goal, entry, first, next>>,
           \A g \in updating' : g \in updating /\ (Marking(Top) => g # Top.file)
    PROVE  stack' \in Seq(FrameType) /\ WalkInv'
<1>1. /\ stack \in Seq(FrameType) /\ stack # <<>> /\ Top = stack[1]
      /\ Len(stack) \in Nat /\ Len(stack) >= 1 /\ Shape(stack)
      /\ DOMAIN stack = 1 .. Len(stack)
  BY WalkFacts DEF Walks
<1>2. stack' = Tail(stack) /\ pc' = IF Len(stack) = 1 THEN "goal_back" ELSE "walk"
  BY DEF Return
<1>3. /\ stack' \in Seq(FrameType) /\ Len(stack') = Len(stack) - 1 /\ Len(stack') \in Nat
      /\ \A k \in 1 .. Len(stack') : stack'[k] = stack[k + 1]
      /\ stack' # <<>> <=> Len(stack) # 1
      /\ stack' # <<>> => Head(stack') = stack[2]
  BY <1>1, <1>2, StackReturn
<1>4. Shape(stack)'
  <2>1. PICK t : t = Tail(stack)
    OBVIOUS
  <2>2. Shape(t)
    BY <1>1, <2>1, ShapeReturn
  <2> QED BY <2>1, <2>2, <1>2 DEF Shape
<1>5. ControlInv'
  <2>1. ASSUME pc' = "walk", Top'.at = "dep_back", Top'.must_make
        PROVE  ret'.must_make
    <3>1. Len(stack) >= 2 /\ Top' = stack[2]
      BY <1>1, <1>2, <1>3, <2>1 DEF Top
    <3>2. 1 \in 1 .. Len(stack) - 1 /\ 1 + 1 = 2
      BY <1>1, <3>1
    <3>3. Called(Top, stack[2])
      BY <1>1, <3>2 DEF Shape
    <3>4. Top.proc \in {"update_file", "update_file_1", "check_dep"}
      BY WalkFacts DEF Walks, FrameType
    <3>5. Top.proc = Check /\ Top.must_make
      BY <2>1, <3>1, <3>3, <3>4 DEF Called, Update, Update1, Check
    <3> QED BY <3>5 DEF Return
  <2>2. /\ pc' \in {"walk", "new_job", "linear"} <=> stack' # <<>>
        /\ pc' \notin {"new_job", "linear"}
        /\ entry' \in Files /\ goal' \in 1 .. Len(goals')
        /\ \A i \in DOMAIN goals' : \E k \in DOMAIN goaldeps' : goaldeps'[k] = goals'[i]
    BY <1>2, <1>3 DEF WalkInv, ControlInv
  <2> QED BY <2>1, <2>2 DEF ControlInv
<1>6. ListsKept'
  BY DEF WalkInv, ListsKept
<1>7. MarksInv'
  <2>1. ASSUME NEW g \in updating'
        PROVE  \E k \in 1 .. Len(stack') : stack'[k].file = g /\ Marking(stack'[k])
    <3>1. PICK k \in 1 .. Len(stack) : stack[k].file = g /\ Marking(stack[k])
      BY <1>1 DEF WalkInv, MarksInv, Over, Marking
    <3>2. k # 1
      BY <3>1, <1>1
    <3>3. k - 1 \in 1 .. Len(stack') /\ stack'[k - 1] = stack[(k - 1) + 1]
      BY <1>3, <3>2
    <3>4. (k - 1) + 1 = k
      OBVIOUS
    <3> QED BY <3>1, <3>3, <3>4
  <2>2. DOMAIN stack' = 1 .. Len(stack')
    BY <1>3
  <2> QED BY <2>1, <2>2 DEF MarksInv, Marking
<1> QED BY <1>3, <1>4, <1>5, <1>6, <1>7 DEF WalkInv

\* reaping children, and starting a recipe
LEMMA WalkSame ==
    ASSUME Plain, TypeOK, WalkInv,
           \/ pc' = pc
           \/ pc = "round" /\ pc' \in {"reaping", "goal"}
           \/ pc = "reaping" /\ pc' = "goal"
           \/ pc = "goal" /\ pc' \in {"round", "end"}
           \/ pc = "new_job" /\ pc' = "linear"
           \/ pc = "linear" /\ pc' = "walk"
           \/ pc = "end" /\ pc' = "exit",
           UNCHANGED <<goaldeps, goals, entry, first, next, stack, ret, updating>>,
           goal' = goal \/ pc' = "goal"
    PROVE  WalkInv'
<1>1. Shape(stack)'
  BY DEF WalkInv, Shape
<1>2. ControlInv'
  BY DEF WalkInv, ControlInv, Top
<1>3. ListsKept'
  BY DEF WalkInv, ListsKept
<1>4. MarksInv'
  BY DEF WalkInv, MarksInv, Over, TypeOK
<1> QED BY <1>1, <1>2, <1>3, <1>4 DEF WalkInv

\* a run that is broken off
LEMMA WalkDie ==
    ASSUME Plain, TypeOK, WalkInv, pc \in Walks \cup {"round", "reaping"}, Die,
           UNCHANGED <<goaldeps, first, next>>
    PROVE  stack' \in Seq(FrameType) /\ WalkInv'
<1>1. stack' = <<>> /\ pc' = "end" /\ UNCHANGED <<goals, goal, entry>>
  BY DEF Die
<1>2. Shape(stack)'
  BY <1>1 DEF Shape
<1>3. ControlInv'
  BY <1>1 DEF WalkInv, ControlInv
<1>4. ListsKept'
  BY DEF WalkInv, ListsKept
<1>5. MarksInv'
  BY <1>1 DEF MarksInv, Over
<1> QED BY <1>1, <1>2, <1>3, <1>4, <1>5 DEF WalkInv

\* the next goal is begun
LEMMA WalkGoal ==
    ASSUME Plain, TypeOK, WalkInv, pc \in {"goal", "goal_back"}, NEW f \in Files,
           UpdateGoalEntry(f), goal \in 1 .. Len(goals),
           \E i \in DOMAIN goaldeps : goaldeps[i] = f,
           UNCHANGED <<goaldeps, goals, goal, first, next, updating>>
    PROVE  stack' \in Seq(FrameType) /\ WalkInv'
<1> DEFINE fr == Frame("update_file", f, UNKNOWN_MTIME, FALSE)
<1>1. stack' = <<fr>> /\ pc' = "walk" /\ entry' = f
  BY DEF UpdateGoalEntry
<1>2. fr \in FrameType /\ FrameShape(fr) /\ fr.file = f /\ fr.proc = Update /\ fr.at = "enter"
  BY DisksAssumption, FilesAssumption, FS_CardinalityType
     DEF FrameType, Frame, FrameShape, Places, Times, Statuses, UNKNOWN_MTIME, us_success,
         us_failed, NEW_MTIME, NONEXISTENT_MTIME, Update, Update1, Check
<1> HIDE DEF fr
<1>3. Len(stack') = 1 /\ stack'[1] = fr /\ stack' \in Seq(FrameType) /\ stack' # <<>>
  BY <1>1, <1>2
<1>4. Shape(stack)'
  BY <1>2, <1>3 DEF Shape
<1>5. ControlInv'
  BY <1>1, <1>2, <1>3 DEF WalkInv, ControlInv, Top
<1>6. ListsKept'
  BY DEF WalkInv, ListsKept
<1>7. updating' = {}
  <2>1. stack = <<>>
    BY DEF WalkInv, ControlInv
  <2> QED BY <2>1 DEF WalkInv, MarksInv, Over
<1>8. MarksInv'
  BY <1>7 DEF MarksInv
<1> QED BY <1>3, <1>4, <1>5, <1>6, <1>8 DEF WalkInv

--------------------------------------------------------------------------------
(* Each action keeps the types and the shape of the walk *)

LEMMA Numbers ==
    /\ Start \in Nat /\ Start > 1 /\ Cardinality(Files) \in Nat /\ NEW_MTIME \in Nat
    /\ NEW_MTIME = Start + Cardinality(Files) + 1 /\ NEW_MTIME > Start
    /\ UNKNOWN_MTIME \in Times /\ NONEXISTENT_MTIME \in Times /\ NEW_MTIME \in Times
    /\ Times \subseteq Nat /\ Statuses = {us_success, us_none, us_question, us_failed}
    /\ us_success \in Statuses /\ us_none \in Statuses /\ us_question \in Statuses
    /\ us_failed \in Statuses /\ Statuses \subseteq Nat
BY DisksAssumption, FilesAssumption, FS_CardinalityType
   DEF NEW_MTIME, Times, Statuses, UNKNOWN_MTIME, NONEXISTENT_MTIME, us_success, us_none,
       us_question, us_failed

LEMMA MtimeType ==
    ASSUME Plain, TypeOK, NEW f \in Files
    PROVE  /\ Mtime(f) = IF last_mtime[f] = UNKNOWN_MTIME THEN disk[f] ELSE last_mtime[f]
           /\ Mtime(f) \in Times /\ Mtime(f) \in Nat
           /\ Mtime(f) # UNKNOWN_MTIME
<1>1. Name(f) = f
  BY PlainFiles
<1>2. disk[f] \in NONEXISTENT_MTIME .. NEW_MTIME - 1 /\ last_mtime[f] \in Times
  BY DEF TypeOK
<1>3. disk[f] \in Times /\ disk[f] # UNKNOWN_MTIME
  BY <1>2, Numbers DEF Times, UNKNOWN_MTIME, NONEXISTENT_MTIME
<1>4. Mtime(f) = IF last_mtime[f] = UNKNOWN_MTIME THEN disk[f] ELSE last_mtime[f]
  BY <1>1 DEF Mtime
<1>5. Mtime(f) \in Times /\ Mtime(f) # UNKNOWN_MTIME
  BY <1>2, <1>3, <1>4
<1> QED BY <1>4, <1>5, Numbers

LEMMA LookTypes ==
    ASSUME Plain, TypeOK, NEW F, F \subseteq Files
    PROVE  /\ Seen(F) \in [Files -> Times]
           /\ Found(F) \subseteq intermediate /\ Found(F) \subseteq Intermediates
<1>1. Seen(F) \in [Files -> Times] /\ Found(F) \subseteq intermediate
  BY LookPlain
<1> QED BY <1>1 DEF TypeOK

LEMMA WorseType ==
    ASSUME NEW a \in Statuses, NEW b \in Statuses
    PROVE  Worse(a, b) \in Statuses
BY DEF Worse

LEMMA FrameTyped ==
    ASSUME NEW proc \in {"update_file", "update_file_1", "check_dep"}, NEW f \in Files, NEW t \in Times,
           NEW m \in BOOLEAN
    PROVE  /\ Frame(proc, f, t, m) \in FrameType
           /\ FrameShape(Frame(proc, f, t, m))
BY Numbers DEF Frame, FrameType, FrameShape, Places, Update, Update1, Check, UNKNOWN_MTIME,
               NoDep

LEMMA PrunedWalk ==
    ASSUME Plain, TypeOK, WalkInv, Pruned
    PROVE  TypeOK' /\ WalkInv'
<1>1. PICK result \in Statuses : Return(result, FALSE)
  <2>1. Name(Top.file) = Top.file /\ Top.file \in Files
    BY WalkFacts, PlainFiles DEF Pruned, At, Walks
  <2> QED BY <2>1, Numbers DEF Pruned, TypeOK
<1>2. stack' \in Seq(FrameType) /\ WalkInv'
  <2>1. Top.proc = Update
    BY DEF Pruned, At, Update
  <2> QED BY <1>1, <2>1, WalkReturn
          DEF Pruned, At, worldVars, fileVars, walkVars, depVars, goalVars, Marking, Update, Check
<1>3. ret' \in [status : Statuses, must_make : BOOLEAN] /\ pc' \in {"goal_back", "walk"}
  BY <1>1 DEF Return
<1>4. TypeOK'
  BY <1>2, <1>3 DEF TypeOK, Pruned, worldVars, fileVars, stateVars, timeVars, walkVars, depVars,
                    goalVars
<1> QED BY <1>2, <1>4

LEMMA UpdateFileWalk ==
    ASSUME Plain, TypeOK, WalkInv, UpdateFile
    PROVE  TypeOK' /\ WalkInv'
<1> DEFINE fr == [Top EXCEPT !.file = Top.file, !.at = "back"]
           c == Frame("update_file_1", Top.file, UNKNOWN_MTIME, FALSE)
<1>1. /\ Name(Top.file) = Top.file /\ Top.file \in Files /\ Top \in FrameType
      /\ pc = "walk" /\ Top.proc = Update /\ Top.at = "enter" /\ FrameShape(Top)
  BY WalkFacts, PlainFiles DEF UpdateFile, At, Walks, Update
<1>2. stack' = <<c, fr>> \o Tail(stack) /\ UNCHANGED <<pc, ret>>
      /\ considered' = considered \cup {Top.file}
  BY <1>1 DEF UpdateFile, UpdateEntry, Call
<1>3. /\ c \in FrameType /\ FrameShape(c) /\ c.proc = Update1 /\ c.file = Top.file
      /\ c.at = "enter"
  <2>1. c \in FrameType /\ FrameShape(c)
    BY <1>1, FrameTyped, Numbers
  <2>2. c.proc = Update1 /\ c.file = Top.file /\ c.at = "enter"
    BY DEF Frame, Update1
  <2> QED BY <2>1, <2>2
<1>4. /\ fr \in FrameType /\ FrameShape(fr) /\ fr.proc = Update /\ fr.file = Top.file
      /\ fr.at = "back"
  BY <1>1 DEF FrameType, FrameShape, Places, Update, Update1, Check
<1> HIDE DEF fr, c
<1>5. Called(c, fr) /\ Below(c, fr)
  <2>1. Level[Top.file] \in Nat
    BY <1>1, LevelTypes
  <2> QED BY <1>3, <1>4, <2>1 DEF Called, Below, Update, Update1, Check
<1>6. stack' \in Seq(FrameType) /\ WalkInv'
  BY <1>1, <1>2, <1>3, <1>4, <1>5, WalkCall
     DEF UpdateFile, worldVars, depVars, goalVars, Marking, Update, Check
<1>7. TypeOK'
  BY <1>1, <1>2, <1>6
     DEF TypeOK, UpdateFile, worldVars, stateVars, timeVars, depVars, goalVars
<1> QED BY <1>6, <1>7

LEMMA EntryUpdatedPlain ==
    ASSUME Plain, TypeOK, WalkInv, EntryUpdated
    PROVE  /\ pc = "walk" /\ Top.proc = Update /\ Top.at = "back" /\ Top.file \in Files
           /\ Return(IF command_state[Top.file] \in Busy /\ (ret.status = us_success \/ opt.keep_going)
                       THEN us_success ELSE ret.status, FALSE)
           /\ UNCHANGED <<worldVars, fileVars, depVars, goalVars>>
<1>1. /\ pc = "walk" /\ Top.proc = Update /\ Top.at = "back" /\ Top.file \in Files
      /\ Top.dep_status = us_success
  BY WalkFacts DEF EntryUpdated, At, Walks, Update, FrameShape
<1>2. Prev[Top.file] = NoFile
  BY <1>1, PlainFiles
<1>3. Worse(Top.dep_status, ret.status) = ret.status
  <2>1. ret.status \in Nat
    BY Numbers DEF TypeOK
  <2> QED BY <1>1, <2>1 DEF Worse, us_success
<1>4. /\ Return(IF command_state[Top.file] \in Busy /\ (ret.status = us_success \/ opt.keep_going)
                       THEN us_success ELSE ret.status, FALSE)
      /\ UNCHANGED considered
  BY <1>2, <1>3 DEF EntryUpdated
<1> QED BY <1>1, <1>4 DEF EntryUpdated, fileVars, walkVars

LEMMA EntryUpdatedWalk ==
    ASSUME Plain, TypeOK, WalkInv, EntryUpdated
    PROVE  TypeOK' /\ WalkInv'
<1>1. PICK result \in Statuses : Return(result, FALSE)
  BY EntryUpdatedPlain, Numbers DEF TypeOK
<1>2. stack' \in Seq(FrameType) /\ WalkInv'
  BY <1>1, WalkReturn, EntryUpdatedPlain
     DEF worldVars, fileVars, walkVars, depVars, goalVars, Marking, Update, Check
<1>3. ret' \in [status : Statuses, must_make : BOOLEAN] /\ pc' \in {"goal_back", "walk"}
  BY <1>1 DEF Return
<1>4. TypeOK'
  BY <1>2, <1>3, EntryUpdatedPlain
     DEF TypeOK, worldVars, fileVars, stateVars, timeVars, walkVars, depVars, goalVars
<1> QED BY <1>2, <1>4

LEMMA AlreadyDecidedWalk ==
    ASSUME Plain, TypeOK, WalkInv, AlreadyDecided
    PROVE  TypeOK' /\ WalkInv'
<1>1. PICK result \in Statuses : Return(result, FALSE)
  <2>1. Top.file \in Files
    BY WalkFacts DEF AlreadyDecided, At, Walks
  <2> QED BY <2>1, Numbers DEF AlreadyDecided, TypeOK
<1>2. stack' \in Seq(FrameType) /\ WalkInv'
  <2>1. Top.at = "enter" /\ pc = "walk" /\ Top.proc # Check
    BY DEF AlreadyDecided, At, Check
  <2> QED BY <1>1, <2>1, WalkReturn
          DEF AlreadyDecided, worldVars, fileVars, walkVars, depVars, goalVars, Marking
<1>3. ret' \in [status : Statuses, must_make : BOOLEAN] /\ pc' \in {"goal_back", "walk"}
  BY <1>1 DEF Return
<1>4. TypeOK'
  BY <1>2, <1>3 DEF TypeOK, AlreadyDecided, worldVars, fileVars, stateVars, timeVars, walkVars,
                    depVars, goalVars
<1> QED BY <1>2, <1>4

LEMMA ConsiderPlain ==
    ASSUME Plain, TypeOK, WalkInv, ConsiderFile
    PROVE  LET f == Top.file
               fr == [Top EXCEPT !.at = "deps", !.noexist = (Mtime(f) = NONEXISTENT_MTIME),
                                 !.must_make = (Mtime(f) = NONEXISTENT_MTIME),
                                 !.this_mtime = Mtime(f), !.du = first[f]]
           IN /\ pc = "walk" /\ Top.proc = Update1 /\ Top.at = "enter" /\ Top.file \in Files
              /\ ~Decided(f)
              /\ updating' = updating \cup {f}
              /\ Look({f})
              /\ Continue(fr) /\ fr \in FrameType /\ FrameShape(fr)
              /\ UNCHANGED <<worldVars, stateVars, considered, secondary, depVars, goalVars>>
<1> DEFINE f == Top.file
           looked == IF Mtime(f) = NONEXISTENT_MTIME THEN {f}
                     ELSE {f} \cup {AlsoMake[f][i] : i \in {j \in DOMAIN AlsoMake[f] :
                              \A k \in 1 .. (j - 1) : Mtime(AlsoMake[f][k]) # NONEXISTENT_MTIME}}
           noexist == \E g \in looked : Mtime(g) = NONEXISTENT_MTIME
           exist == {g \in looked : g = f \/ Mtime(g) # NONEXISTENT_MTIME}
           old == [Top EXCEPT !.at = "deps", !.noexist = noexist, !.must_make = noexist,
                              !.this_mtime = Min({Mtime(g) : g \in exist}),
                              !.du = first[f]]
           fr == [Top EXCEPT !.at = "deps", !.noexist = (Mtime(f) = NONEXISTENT_MTIME),
                             !.must_make = (Mtime(f) = NONEXISTENT_MTIME),
                             !.this_mtime = Mtime(f), !.du = first[f]]
<1>1. /\ pc = "walk" /\ Top.proc = Update1 /\ Top.at = "enter" /\ Top.file \in Files
      /\ Top \in FrameType /\ FrameShape(Top)
  BY WalkFacts DEF ConsiderFile, At, Walks, Update1
<1>2. looked = {f} /\ Name(f) = f
  <2>1. DOMAIN AlsoMake[f] = {} /\ Name(f) = f
    BY <1>1, PlainFiles
  <2> QED BY <2>1
<1>3. noexist <=> Mtime(f) = NONEXISTENT_MTIME
  BY <1>2
<1>4. Mtime(f) \in Times /\ Mtime(f) \in Nat
  BY <1>1, MtimeType
<1>5. Min({Mtime(g) : g \in exist}) = Mtime(f)
  <2>1. {Mtime(g) : g \in exist} = {Mtime(f)}
    BY <1>2
  <2>2. Min({Mtime(f)}) = Mtime(f)
    <3> HIDE DEF f
    <3>1. \A x, y \in {Mtime(f)} : x <= y
      BY <1>4
    <3> QED BY <3>1 DEF Min
  <2> QED BY <2>1, <2>2
<1>6. /\ updating' = updating \cup {Name(f)} /\ Look(looked) /\ Continue(old)
      /\ UNCHANGED <<worldVars, stateVars, considered, secondary, depVars, goalVars>>
      /\ ~Decided(f)
  BY DEF ConsiderFile
<1>7. old = fr
  <2> HIDE DEF looked, noexist, exist, f
  <2> QED BY <1>3, <1>5
<1>8. first[f] \in Nodes \cup {NoDep} /\ (first[f] # NoDep => first[f][1] = f)
  <2>1. first[f] = IF Prereqs[f] = <<>> THEN NoDep ELSE <<f, 1>>
    BY <1>1 DEF WalkInv, ListsKept
  <2> QED BY <1>1, <2>1 DEF TypeOK
<1>9. fr \in FrameType /\ FrameShape(fr)
  <2> HIDE DEF looked, noexist, exist, old
  <2>1. fr \in FrameType
    BY <1>1, <1>4, <1>8 DEF FrameType, Places
  <2>2. FrameShape(fr)
    BY <1>1, <1>8 DEF FrameShape, FrameType, Update, Update1, Check
  <2> QED BY <2>1, <2>2
<1>10. Look({f}) /\ Continue(fr) /\ updating' = updating \cup {f}
  <2> HIDE DEF looked, noexist, exist, old, fr, f
  <2> QED BY <1>2, <1>6, <1>7
<1> HIDE DEF looked, noexist, exist, old
<1> QED BY <1>1, <1>6, <1>9, <1>10

LEMMA ConsiderFileWalk ==
    ASSUME Plain, TypeOK, WalkInv, ConsiderFile
    PROVE  TypeOK' /\ WalkInv'
<1> DEFINE f == Top.file
           fr == [Top EXCEPT !.at = "deps", !.noexist = (Mtime(f) = NONEXISTENT_MTIME),
                             !.must_make = (Mtime(f) = NONEXISTENT_MTIME),
                             !.this_mtime = Mtime(f), !.du = first[f]]
<1>1. /\ pc = "walk" /\ Top.proc = Update1 /\ Top.at = "enter" /\ Top.file \in Files
      /\ updating' = updating \cup {f}
      /\ Look({f})
      /\ Continue(fr) /\ fr \in FrameType /\ FrameShape(fr)
      /\ UNCHANGED <<worldVars, stateVars, considered, secondary, depVars, goalVars>>
      /\ Top \in FrameType
  BY ConsiderPlain, WalkFacts DEF Walks
<1>2. fr.file = f /\ fr.proc = Update1 /\ fr.at = "deps"
  BY <1>1 DEF FrameType
<1> HIDE DEF fr
<1>3. stack' \in Seq(FrameType) /\ WalkInv'
  BY <1>1, <1>2, WalkContinue
     DEF Continue, worldVars, depVars, goalVars, Marking, Update, Update1, Check
<1>4. last_mtime' \in [Files -> Times] /\ intermediate' \subseteq Intermediates
  BY <1>1, LookTypes DEF Look
<1>5. TypeOK'
  BY <1>1, <1>3, <1>4 DEF TypeOK, Continue, worldVars, stateVars, depVars, goalVars
<1> QED BY <1>3, <1>5

\* the next prerequisite in a list
LEMMA NextNode ==
    ASSUME Plain, TypeOK, ListsKept, NEW n \in Nodes
    PROVE  /\ next[n] \in Nodes \cup {NoDep}
           /\ next[n] # NoDep => next[n][1] = n[1] /\ next[n][2] = n[2] + 1
           /\ n[2] \in 1 .. Len(Prereqs[n[1]]) /\ Len(Prereqs[n[1]]) \in Nat
           /\ next[n] = NoDep => n[2] = Len(Prereqs[n[1]])
<1>1. n[1] \in Files /\ n[2] \in 1 .. Len(Prereqs[n[1]]) /\ Len(Prereqs[n[1]]) \in Nat
  BY PrereqTypes
<1>2. next[n] = IF n[2] < Len(Prereqs[n[1]]) THEN <<n[1], n[2] + 1>> ELSE NoDep
  BY DEF ListsKept
<1>3. next[n] \in Nodes \cup {NoDep}
  BY DEF TypeOK
<1>4. <<n[1], n[2] + 1>> # NoDep
  BY <1>1, FilesAssumption DEF NoDep
<1> QED BY <1>1, <1>2, <1>3, <1>4

LEMMA FirstNode ==
    ASSUME Plain, TypeOK, ListsKept, NEW f \in Files
    PROVE  /\ first[f] \in Nodes \cup {NoDep} /\ Len(Prereqs[f]) \in Nat
           /\ first[f] # NoDep => first[f][1] = f /\ first[f][2] = 1
           /\ first[f] = NoDep => Len(Prereqs[f]) = 0
<1>1. first[f] = IF Prereqs[f] = <<>> THEN NoDep ELSE <<f, 1>>
  BY DEF ListsKept
<1>2. first[f] \in Nodes \cup {NoDep}
  BY DEF TypeOK
<1>3. Len(Prereqs[f]) \in Nat /\ (Prereqs[f] = <<>> => Len(Prereqs[f]) = 0)
  BY PrereqTypes
<1>4. <<f, 1>> # NoDep
  BY FilesAssumption DEF NoDep
<1> QED BY <1>1, <1>2, <1>3, <1>4

LEMMA ListDonePlain ==
    ASSUME Plain, TypeOK, WalkInv, ListDone
    PROVE  LET fr == [Top EXCEPT !.at = "inter",
                                 !.du = IF Top.must_make \/ opt.always_make
                                           THEN first[Top.file] ELSE NoDep]
           IN /\ pc = "walk" /\ Top.proc = Update1 /\ Top.at = "deps" /\ Top.file \in Files
              /\ Top.du = NoDep \/ Waits(Top)
              /\ Continue(fr) /\ fr \in FrameType /\ FrameShape(fr)
              /\ UNCHANGED <<worldVars, fileVars, depVars, goalVars>>
<1> DEFINE fr == [Top EXCEPT !.at = "inter",
                             !.du = IF Top.must_make \/ opt.always_make
                                       THEN first[Top.file] ELSE NoDep]
<1>1. /\ pc = "walk" /\ Top.proc = Update1 /\ Top.at = "deps" /\ Top.file \in Files
      /\ Top \in FrameType /\ FrameShape(Top) /\ Top.ad = 1
      /\ Top.du = NoDep \/ Waits(Top)
      /\ UNCHANGED <<worldVars, fileVars, depVars, goalVars>>
  BY WalkFacts DEF ListDone, At, Walks, Update1, FrameShape
<1>2. Len(Scanned(Top.file)) = 1
  <2>1. Scanned(Top.file) = <<Top.file>>
    BY <1>1, PlainFiles
  <2> QED BY <2>1
<1>3. Continue(fr)
  BY <1>1, <1>2 DEF ListDone
<1>4. first[Top.file] \in Nodes \cup {NoDep} /\ (first[Top.file] # NoDep => first[Top.file][1] = Top.file)
  BY <1>1, FirstNode DEF WalkInv
<1>5. fr \in FrameType
  BY <1>1, <1>4 DEF FrameType, Places
<1>6. FrameShape(fr)
  BY <1>1, <1>4 DEF FrameShape, FrameType, Update, Update1, Check
<1> HIDE DEF fr
<1> QED BY <1>1, <1>3, <1>5, <1>6 DEF fr

LEMMA ListDoneWalk ==
    ASSUME Plain, TypeOK, WalkInv, ListDone
    PROVE  TypeOK' /\ WalkInv'
<1> DEFINE fr == [Top EXCEPT !.at = "inter",
                             !.du = IF Top.must_make \/ opt.always_make
                                       THEN first[Top.file] ELSE NoDep]
<1>1. /\ pc = "walk" /\ Top.proc = Update1 /\ Top.at = "deps" /\ Top.file \in Files
      /\ Continue(fr) /\ fr \in FrameType /\ FrameShape(fr)
      /\ UNCHANGED <<worldVars, fileVars, depVars, goalVars>>
      /\ Top \in FrameType
  BY ListDonePlain, WalkFacts DEF Walks
<1>2. fr.file = Top.file /\ fr.proc = Update1 /\ fr.at = "inter"
  BY <1>1 DEF FrameType
<1> HIDE DEF fr
<1>3. stack' \in Seq(FrameType) /\ WalkInv'
  BY <1>1, <1>2, WalkContinue
     DEF Continue, worldVars, depVars, goalVars, fileVars, walkVars, Marking, Update, Update1,
         Check
<1>4. TypeOK'
  BY <1>1, <1>3 DEF TypeOK, Continue, worldVars, fileVars, stateVars, walkVars, timeVars, depVars,
                    goalVars
<1> QED BY <1>3, <1>4

\* A prerequisite is never one of the files that are being updated: there is no circle.
LEMMA NoCircle ==
    ASSUME Plain, TypeOK, WalkInv, pc = "walk", Top.du # NoDep
    PROVE  Dep(Top.du).file \notin updating /\ Name(Dep(Top.du).file) = Dep(Top.du).file
<1> DEFINE d == Dep(Top.du).file
<1>1. /\ d \in Files /\ Level[d] < Level[Top.file] /\ Top = stack[1] /\ Top.file \in Files
      /\ Len(stack) \in Nat /\ Len(stack) >= 1 /\ Shape(stack) /\ DOMAIN stack = 1 .. Len(stack)
      /\ \A k \in 1 .. Len(stack) : stack[k] \in FrameType
  BY WalkFacts DEF Walks
<1> HIDE DEF d
<1>2. Level[d] \in Nat /\ Level[Top.file] \in Nat
  BY <1>1, PlainLevels
<1>3. d \notin updating
  <2>1. SUFFICES ASSUME d \in updating PROVE FALSE
    OBVIOUS
  <2>2. PICK k \in 1 .. Len(stack) : stack[k].file = d
    BY <1>1, <2>1 DEF WalkInv, MarksInv, Over
  <2>3. CASE k = 1
    BY <1>1, <1>2, <2>2, <2>3
  <2>4. CASE k # 1
    <3>1. 1 \in 1 .. Len(stack) /\ 1 < k
      BY <1>1, <2>2, <2>4
    <3>2. Below(stack[1], stack[k])
      BY <1>1, <3>1 DEF Shape
    <3> QED BY <3>2, <2>2, <1>1, <1>2 DEF Below
  <2> QED BY <2>3, <2>4
<1>4. Name(d) = d
  BY <1>1, PlainFiles
<1> QED BY <1>3, <1>4 DEF d

LEMMA NoneDropped ==
    ASSUME Plain, TypeOK, WalkInv
    PROVE  ~CircularDropped /\ ~DropFromIntermediate
BY NoCircle DEF CircularDropped, DropFromIntermediate, At

LEMMA CheckPrereqPlain ==
    ASSUME Plain, TypeOK, WalkInv, CheckPrereq
    PROVE  LET d == Dep(Top.du).file
               c == Frame("check_dep", d, Top.this_mtime, Top.must_make)
               fr == [Top EXCEPT !.at = "dep_back", !.mtime = Mtime(d)]
           IN /\ pc = "walk" /\ Top.proc = Update1 /\ Top.at = "deps" /\ Top.du # NoDep
              /\ ~Waits(Top) /\ d \in Files
              /\ Look({d}) /\ Call(c, fr)
              /\ fr \in FrameType /\ FrameShape(fr) /\ c \in FrameType /\ FrameShape(c)
              /\ Called(c, fr) /\ Below(c, fr)
              /\ UNCHANGED <<worldVars, stateVars, walkVars, secondary, depVars, goalVars>>
<1> DEFINE d == Dep(Top.du).file
           c == Frame("check_dep", d, Top.this_mtime, Top.must_make)
           fr == [Top EXCEPT !.at = "dep_back", !.mtime = Mtime(d)]
<1>1. /\ pc = "walk" /\ Top.proc = Update1 /\ Top.at = "deps" /\ Top.du # NoDep
      /\ ~Waits(Top)
      /\ Look({d}) /\ Call(c, fr)
      /\ UNCHANGED <<worldVars, stateVars, walkVars, secondary, depVars, goalVars>>
  BY DEF CheckPrereq, At, Update1
<1>2. /\ d \in Files /\ Top \in FrameType /\ FrameShape(Top) /\ Level[d] < Level[Top.file]
      /\ Top.du[1] = Top.file
  BY <1>1, WalkFacts DEF Walks
<1>3. c \in FrameType /\ FrameShape(c)
  <2>1. Top.this_mtime \in Times /\ Top.must_make \in BOOLEAN
    BY <1>2 DEF FrameType
  <2> QED BY <1>2, <2>1, FrameTyped
<1>4. Mtime(d) \in Times
  BY <1>2, MtimeType
<1>5. fr \in FrameType
  <2> HIDE DEF d
  <2> QED BY <1>2, <1>4 DEF FrameType, Places
<1>6. FrameShape(fr)
  <2> HIDE DEF d
  <2> QED BY <1>1, <1>2 DEF FrameShape, FrameType, Update, Update1, Check
<1>7. /\ c.proc = "check_dep" /\ c.file = d /\ c.must_make = Top.must_make
      /\ fr.proc = Update1 /\ fr.at = "dep_back" /\ fr.du = Top.du /\ fr.file = Top.file
      /\ fr.must_make = Top.must_make
  <2> HIDE DEF d
  <2> QED BY <1>1, <1>2 DEF FrameType, Frame
<1> HIDE DEF c, fr
<1>8. Called(c, fr) /\ Below(c, fr)
  <2>1. Level[d] \in Nat /\ Level[Top.file] \in Nat
    BY <1>2, LevelTypes, PlainLevels
  <2> QED BY <1>2, <1>7, <2>1 DEF Called, Below, Update, Update1, Check
<1> QED BY <1>1, <1>2, <1>3, <1>5, <1>6, <1>8 DEF c, fr

LEMMA CheckPrereqWalk ==
    ASSUME Plain, TypeOK, WalkInv, CheckPrereq
    PROVE  TypeOK' /\ WalkInv'
<1> DEFINE d == Dep(Top.du).file
           c == Frame("check_dep", d, Top.this_mtime, Top.must_make)
           fr == [Top EXCEPT !.at = "dep_back", !.mtime = Mtime(d)]
<1>1. /\ pc = "walk" /\ Top.proc = Update1 /\ Top.at = "deps" /\ Top.du # NoDep /\ d \in Files
      /\ Look({d}) /\ Call(c, fr)
      /\ fr \in FrameType /\ FrameShape(fr) /\ c \in FrameType /\ FrameShape(c)
      /\ Called(c, fr) /\ Below(c, fr)
      /\ UNCHANGED <<worldVars, stateVars, walkVars, secondary, depVars, goalVars>>
      /\ Top \in FrameType
  BY CheckPrereqPlain, WalkFacts DEF Walks
<1>2. fr.file = Top.file /\ fr.proc = Update1 /\ fr.at = "dep_back"
  <2> HIDE DEF d
  <2> QED BY <1>1 DEF FrameType
<1>0. c.at = "enter"
  BY DEF Frame
<1> HIDE DEF fr, c, d
<1>3. stack' \in Seq(FrameType) /\ WalkInv'
  BY <1>0, <1>1, <1>2, WalkCall
     DEF Call, worldVars, depVars, goalVars, walkVars, Marking, Update, Update1, Check
<1>4. last_mtime' \in [Files -> Times] /\ intermediate' \subseteq Intermediates
  BY <1>1, LookTypes DEF Look
<1>5. TypeOK'
  BY <1>1, <1>3, <1>4 DEF TypeOK, Call, worldVars, stateVars, walkVars, depVars, goalVars
<1> QED BY <1>3, <1>5

LEMMA PrereqCheckedPlain ==
    ASSUME Plain, TypeOK, WalkInv, PrereqChecked
    PROVE  \E fr \in FrameType :
              LET d == Dep(Top.du).file
                  worst == Worse(Top.dep_status, ret.status)
                  stops == worst # us_success /\ ~opt.keep_going
              IN /\ pc = "walk" /\ Top.proc = Update1 /\ Top.at = "dep_back" /\ Top.du # NoDep
                 /\ d \in Files
                 /\ Continue(fr) /\ FrameShape(fr)
                 /\ fr.proc = Update1 /\ fr.at = "deps" /\ fr.file = Top.file
                 /\ fr.du = IF stops THEN NoDep ELSE next[Top.du]
                 /\ fr.dep_status = worst /\ fr.noexist = Top.noexist
                 /\ fr.this_mtime = Top.this_mtime
                 /\ fr.running <=> Top.running \/ command_state[d] \in Busy
                 /\ fr.must_make = IF Dep(Top.du).ignore_mtime THEN Top.must_make
                                                               ELSE ret.must_make
                 /\ Look({d}) \/ UNCHANGED timeVars
                 /\ changed' \subseteq changed \cup {Top.du}
                 /\ UNCHANGED <<worldVars, stateVars, walkVars, secondary, first, next, goalVars>>
<1> DEFINE d == Dep(Top.du).file
           worst == Worse(Top.dep_status, ret.status)
           running == Top.running \/ BusyEntry(d)
           back == [Top EXCEPT !.at = "deps", !.dep_status = worst, !.running = running,
                               !.must_make = IF Dep(Top.du).ignore_mtime THEN @ ELSE ret.must_make]
           stops == worst # us_success /\ ~opt.keep_going
           fr == IF stops THEN [back EXCEPT !.du = NoDep]
                          ELSE [back EXCEPT !.lastd = Top.du, !.du = next[Top.du]]
<1>1. /\ pc = "walk" /\ Top.proc = Update1 /\ Top.at = "dep_back" /\ Top.du # NoDep
      /\ Top \in FrameType /\ FrameShape(Top) /\ d \in Files /\ Top.du \in Nodes
      /\ Top.du[1] = Top.file
  BY WalkFacts DEF PrereqChecked, At, Walks, Update1, FrameShape
<1>2. /\ IF stops
            THEN /\ Continue([back EXCEPT !.du = NoDep])
                 /\ UNCHANGED <<changed, timeVars>>
            ELSE /\ Continue([back EXCEPT !.lastd = Top.du, !.du = next[Top.du]])
                 /\ IF running
                       THEN UNCHANGED <<changed, timeVars>>
                       ELSE /\ changed' = IF Mtime(d) # Top.mtime \/ Top.mtime = NONEXISTENT_MTIME
                                             THEN changed \cup {Top.du} ELSE changed \ {Top.du}
                            /\ Look({d})
      /\ UNCHANGED <<worldVars, stateVars, walkVars, secondary, first, next, goalVars>>
  BY DEF PrereqChecked
<1>3. BusyEntry(d) <=> command_state[d] \in Busy
  <2>1. Entries(d) = {d}
    BY <1>1, PlainFiles
  <2> QED BY <2>1 DEF BusyEntry
<1>4. worst \in Statuses
  BY <1>1, WorseType DEF FrameType, TypeOK
<1>5. ret.must_make \in BOOLEAN
  BY DEF TypeOK
<1> DEFINE nx == next[Top.du]
<1>6. nx \in Nodes \cup {NoDep} /\ (nx # NoDep => nx[1] = Top.file)
  BY <1>1, NextNode DEF WalkInv
<1> HIDE DEF d, worst, running, nx
<1>7. running \in BOOLEAN
  BY DEF running, BusyEntry, FrameType
<1>8. back \in FrameType
  BY <1>1, <1>4, <1>5, <1>7 DEF FrameType, Places
<1>9. /\ back.proc = Update1 /\ back.at = "deps" /\ back.file = Top.file /\ back.ad = Top.ad
      /\ back.this_mtime = Top.this_mtime
      /\ back.dep_status = worst /\ back.noexist = Top.noexist /\ back.running = running
      /\ back.must_make = IF Dep(Top.du).ignore_mtime THEN Top.must_make ELSE ret.must_make
  BY <1>1 DEF FrameType
<1> HIDE DEF back
<1>10. fr \in FrameType
  BY <1>1, <1>6, <1>8 DEF FrameType, nx
<1>11. /\ fr.proc = Update1 /\ fr.at = "deps" /\ fr.file = Top.file /\ fr.ad = Top.ad
       /\ fr.this_mtime = Top.this_mtime
       /\ fr.dep_status = worst /\ fr.noexist = Top.noexist /\ fr.running = running
       /\ fr.must_make = IF Dep(Top.du).ignore_mtime THEN Top.must_make ELSE ret.must_make
       /\ fr.du = IF stops THEN NoDep ELSE nx
  BY <1>8, <1>9 DEF FrameType, nx
<1>12. Continue(fr)
  BY <1>2 DEF nx
<1> HIDE DEF fr, stops
<1>13. FrameShape(fr)
  BY <1>1, <1>6, <1>11 DEF FrameShape, Update, Update1, Check
<1>14. Look({d}) \/ UNCHANGED timeVars
  BY <1>2
<1>15. changed' \subseteq changed \cup {Top.du}
  BY <1>2
<1>16. fr.running <=> Top.running \/ command_state[d] \in Busy
  BY <1>3, <1>11, <1>7 DEF running
<1> QED BY <1>1, <1>2, <1>10, <1>11, <1>12, <1>13, <1>14, <1>15, <1>16 DEF d, worst, stops, nx

LEMMA PrereqCheckedWalk ==
    ASSUME Plain, TypeOK, WalkInv, PrereqChecked
    PROVE  TypeOK' /\ WalkInv'
<1> DEFINE d == Dep(Top.du).file
<1>1. PICK fr \in FrameType :
         /\ pc = "walk" /\ Top.proc = Update1 /\ Top.at = "dep_back" /\ Top.du # NoDep
         /\ d \in Files
         /\ Continue(fr) /\ FrameShape(fr)
         /\ fr.proc = Update1 /\ fr.at = "deps" /\ fr.file = Top.file
         /\ Look({d}) \/ UNCHANGED timeVars
         /\ changed' \subseteq changed \cup {Top.du}
         /\ UNCHANGED <<worldVars, stateVars, walkVars, secondary, first, next, goalVars>>
  BY PrereqCheckedPlain
<1>2. stack' \in Seq(FrameType) /\ WalkInv'
  BY <1>1, WalkContinue
     DEF Continue, worldVars, walkVars, goalVars, Marking, Update, Update1, Check
<1>3. last_mtime' \in [Files -> Times] /\ intermediate' \subseteq Intermediates
  <2> HIDE DEF d
  <2>1. CASE Look({d})
    BY <1>1, <2>1, LookTypes DEF Look
  <2>2. CASE UNCHANGED timeVars
    BY <2>2 DEF timeVars, TypeOK
  <2> QED BY <1>1, <2>1, <2>2
<1>4. changed' \subseteq Nodes
  BY <1>1, WalkFacts DEF Walks, TypeOK
<1>5. TypeOK'
  BY <1>1, <1>2, <1>3, <1>4 DEF TypeOK, Continue, worldVars, stateVars, walkVars, goalVars
<1> QED BY <1>2, <1>5

LEMMA SkipOrdinaryPlain ==
    ASSUME Plain, TypeOK, WalkInv, SkipOrdinary
    PROVE  \E fr \in FrameType :
              /\ pc = "walk" /\ Top.proc = Update1 /\ Top.at = "inter" /\ Top.du # NoDep
              /\ Dep(Top.du).file \in Files
              /\ Waits(Top) \/ Dep(Top.du).file \notin intermediate
              /\ Continue(fr) /\ FrameShape(fr)
              /\ fr = [Top EXCEPT !.du = IF Waits(Top) THEN NoDep ELSE next[Top.du]]
              /\ UNCHANGED <<worldVars, fileVars, depVars, goalVars>>
<1> DEFINE nx == IF Waits(Top) THEN NoDep ELSE next[Top.du]
           fr == [Top EXCEPT !.du = nx]
<1>1. /\ pc = "walk" /\ Top.proc = Update1 /\ Top.at = "inter" /\ Top.du # NoDep
      /\ Top \in FrameType /\ FrameShape(Top) /\ Top.du \in Nodes /\ Top.du[1] = Top.file
      /\ Dep(Top.du).file \in Files
  BY WalkFacts DEF SkipOrdinary, At, Walks, Update1
<1>2. /\ Waits(Top) \/ Dep(Top.du).file \notin intermediate
      /\ Continue(fr)
      /\ UNCHANGED <<worldVars, fileVars, depVars, goalVars>>
  BY DEF SkipOrdinary
<1>3. nx \in Nodes \cup {NoDep} /\ (nx # NoDep => nx[1] = Top.file)
  BY <1>1, NextNode DEF WalkInv
<1> HIDE DEF nx
<1>4. fr \in FrameType /\ FrameShape(fr)
  BY <1>1, <1>3 DEF FrameType, FrameShape, Update, Update1, Check
<1> HIDE DEF fr
<1> QED BY <1>1, <1>2, <1>4 DEF fr, nx

LEMMA SkipOrdinaryWalk ==
    ASSUME Plain, TypeOK, WalkInv, SkipOrdinary
    PROVE  TypeOK' /\ WalkInv'
<1>1. PICK fr \in FrameType :
         /\ pc = "walk" /\ Top.proc = Update1 /\ Top.at = "inter"
         /\ Continue(fr) /\ FrameShape(fr)
         /\ fr = [Top EXCEPT !.du = IF Waits(Top) THEN NoDep ELSE next[Top.du]]
         /\ UNCHANGED <<worldVars, fileVars, depVars, goalVars>>
  BY SkipOrdinaryPlain
<1>2. fr.proc = Update1 /\ fr.at = "inter" /\ fr.file = Top.file
  BY <1>1, WalkFacts DEF FrameType, Walks
<1>3. stack' \in Seq(FrameType) /\ WalkInv'
  BY <1>1, <1>2, WalkContinue
     DEF Continue, worldVars, fileVars, walkVars, goalVars, depVars, Marking, Update, Update1,
         Check
<1>4. TypeOK'
  BY <1>1, <1>3 DEF TypeOK, Continue, worldVars, fileVars, stateVars, walkVars, timeVars,
                    depVars, goalVars
<1> QED BY <1>3, <1>4

LEMMA UpdateIntermediatePlain ==
    ASSUME Plain, TypeOK, WalkInv, UpdateIntermediate
    PROVE  LET d == Dep(Top.du).file
               c == Frame("update_file", d, UNKNOWN_MTIME, FALSE)
               fr == [Top EXCEPT !.at = "inter_back", !.mtime = Mtime(d)]
           IN /\ pc = "walk" /\ Top.proc = Update1 /\ Top.at = "inter" /\ Top.du # NoDep
              /\ ~Waits(Top) /\ d \in Files /\ d \in intermediate
              /\ Look({d}) /\ Call(c, fr) /\ considered' = considered \ {d}
              /\ fr \in FrameType /\ FrameShape(fr) /\ c \in FrameType /\ FrameShape(c)
              /\ Called(c, fr) /\ Below(c, fr)
              /\ UNCHANGED <<worldVars, stateVars, updating, secondary, depVars, goalVars>>
<1> DEFINE d == Dep(Top.du).file
           c == Frame("update_file", d, UNKNOWN_MTIME, FALSE)
           fr == [Top EXCEPT !.at = "inter_back", !.mtime = Mtime(d)]
<1>1. /\ pc = "walk" /\ Top.proc = Update1 /\ Top.at = "inter" /\ Top.du # NoDep
      /\ ~Waits(Top) /\ d \in intermediate
      /\ Look({d}) /\ Call(c, fr) /\ considered' = considered \ {d}
      /\ UNCHANGED <<worldVars, stateVars, updating, secondary, depVars, goalVars>>
  BY DEF UpdateIntermediate, At, Update1
<1>2. /\ d \in Files /\ Top \in FrameType /\ FrameShape(Top) /\ Level[d] < Level[Top.file]
      /\ Top.du[1] = Top.file
  BY <1>1, WalkFacts DEF Walks
<1>3. c \in FrameType /\ FrameShape(c)
  BY <1>2, FrameTyped, Numbers
<1>4. Mtime(d) \in Times
  BY <1>2, MtimeType
<1>5. fr \in FrameType
  <2> HIDE DEF d
  <2> QED BY <1>2, <1>4 DEF FrameType, Places
<1>6. FrameShape(fr)
  <2> HIDE DEF d
  <2> QED BY <1>1, <1>2 DEF FrameShape, FrameType, Update, Update1, Check
<1>7. /\ c.proc = "update_file" /\ c.file = d
      /\ fr.proc = Update1 /\ fr.at = "inter_back" /\ fr.du = Top.du /\ fr.file = Top.file
  <2> HIDE DEF d
  <2> QED BY <1>1, <1>2 DEF FrameType, Frame
<1> HIDE DEF c, fr
<1>8. Called(c, fr) /\ Below(c, fr)
  <2>1. Level[d] \in Nat /\ Level[Top.file] \in Nat
    BY <1>2, LevelTypes, PlainLevels
  <2> QED BY <1>2, <1>7, <2>1 DEF Called, Below, Update, Update1, Check
<1> QED BY <1>1, <1>2, <1>3, <1>5, <1>6, <1>8 DEF c, fr

LEMMA UpdateIntermediateWalk ==
    ASSUME Plain, TypeOK, WalkInv, UpdateIntermediate
    PROVE  TypeOK' /\ WalkInv'
<1> DEFINE d == Dep(Top.du).file
           c == Frame("update_file", d, UNKNOWN_MTIME, FALSE)
           fr == [Top EXCEPT !.at = "inter_back", !.mtime = Mtime(d)]
<1>1. /\ pc = "walk" /\ Top.proc = Update1 /\ Top.at = "inter" /\ Top.du # NoDep /\ d \in Files
      /\ Look({d}) /\ Call(c, fr) /\ considered' = considered \ {d}
      /\ fr \in FrameType /\ FrameShape(fr) /\ c \in FrameType /\ FrameShape(c)
      /\ Called(c, fr) /\ Below(c, fr)
      /\ UNCHANGED <<worldVars, stateVars, updating, secondary, depVars, goalVars>>
      /\ Top \in FrameType
  BY UpdateIntermediatePlain, WalkFacts DEF Walks
<1>2. fr.file = Top.file /\ fr.proc = Update1 /\ fr.at = "inter_back"
  <2> HIDE DEF d
  <2> QED BY <1>1 DEF FrameType
<1>0. c.at = "enter"
  BY DEF Frame
<1> HIDE DEF fr, c, d
<1>3. stack' \in Seq(FrameType) /\ WalkInv'
  BY <1>0, <1>1, <1>2, WalkCall
     DEF Call, worldVars, depVars, goalVars, Marking, Update, Update1, Check
<1>4. last_mtime' \in [Files -> Times] /\ intermediate' \subseteq Intermediates
  BY <1>1, LookTypes DEF Look
<1>5. TypeOK'
  BY <1>1, <1>3, <1>4 DEF TypeOK, Call, worldVars, stateVars, depVars, goalVars
<1> QED BY <1>3, <1>5

LEMMA IntermediateUpdatedPlain ==
    ASSUME Plain, TypeOK, WalkInv, IntermediateUpdated
    PROVE  \E fr \in FrameType :
              LET d == Dep(Top.du).file
                  worst == Worse(Top.dep_status, ret.status)
                  stops == worst # us_success /\ ~opt.keep_going
              IN /\ pc = "walk" /\ Top.proc = Update1 /\ Top.at = "inter_back" /\ Top.du # NoDep
                 /\ d \in Files
                 /\ Continue(fr) /\ FrameShape(fr)
                 /\ fr.proc = Update1 /\ fr.at = "inter" /\ fr.file = Top.file
                 /\ fr.du = IF stops THEN NoDep ELSE next[Top.du]
                 /\ fr.dep_status = worst /\ fr.noexist = Top.noexist
                 /\ fr.running <=> Top.running \/ command_state[d] \in Busy
                 /\ fr.must_make = Top.must_make
                 /\ Look({d}) \/ UNCHANGED timeVars
                 /\ changed' \subseteq changed \cup {Top.du}
                 /\ UNCHANGED <<worldVars, stateVars, walkVars, secondary, first, next, goalVars>>
<1> DEFINE d == Dep(Top.du).file
           worst == Worse(Top.dep_status, ret.status)
           running == Top.running \/ BusyEntry(d)
           back == [Top EXCEPT !.at = "inter", !.dep_status = worst, !.running = running]
           stops == worst # us_success /\ ~opt.keep_going
           phony_cmds == Top.file \in Phony /\ Cmds[Top.file] # "none"
           fr == IF stops THEN [back EXCEPT !.du = NoDep]
                          ELSE [back EXCEPT !.du = next[Top.du]]
<1>1. /\ pc = "walk" /\ Top.proc = Update1 /\ Top.at = "inter_back" /\ Top.du # NoDep
      /\ Top \in FrameType /\ FrameShape(Top) /\ d \in Files /\ Top.du \in Nodes
      /\ Top.du[1] = Top.file
  BY WalkFacts DEF IntermediateUpdated, At, Walks, Update1, FrameShape
<1>2. /\ IF stops
            THEN /\ Continue([back EXCEPT !.du = NoDep])
                 /\ UNCHANGED <<changed, timeVars>>
            ELSE /\ Continue([back EXCEPT !.du = next[Top.du]])
                 /\ IF running
                       THEN UNCHANGED <<changed, timeVars>>
                       ELSE /\ changed' = IF phony_cmds \/ Mtime(d) # Top.mtime
                                             THEN changed \cup {Top.du} ELSE changed \ {Top.du}
                            /\ IF phony_cmds THEN UNCHANGED timeVars ELSE Look({d})
      /\ UNCHANGED <<worldVars, stateVars, walkVars, secondary, first, next, goalVars>>
  BY DEF IntermediateUpdated
<1>3. BusyEntry(d) <=> command_state[d] \in Busy
  <2>1. Entries(d) = {d}
    BY <1>1, PlainFiles
  <2> QED BY <2>1 DEF BusyEntry
<1>4. worst \in Statuses
  BY <1>1, WorseType DEF FrameType, TypeOK
<1> DEFINE nx == next[Top.du]
<1>6. nx \in Nodes \cup {NoDep} /\ (nx # NoDep => nx[1] = Top.file)
  BY <1>1, NextNode DEF WalkInv
<1> HIDE DEF d, worst, running, nx, phony_cmds
<1>7. running \in BOOLEAN
  BY DEF running, BusyEntry, FrameType
<1>8. back \in FrameType
  BY <1>1, <1>4, <1>7 DEF FrameType, Places
<1>9. /\ back.proc = Update1 /\ back.at = "inter" /\ back.file = Top.file /\ back.ad = Top.ad
      /\ back.dep_status = worst /\ back.noexist = Top.noexist /\ back.running = running
      /\ back.must_make = Top.must_make
  BY <1>1 DEF FrameType
<1> HIDE DEF back
<1>10. fr \in FrameType
  BY <1>1, <1>6, <1>8 DEF FrameType, nx
<1>11. /\ fr.proc = Update1 /\ fr.at = "inter" /\ fr.file = Top.file /\ fr.ad = Top.ad
       /\ fr.dep_status = worst /\ fr.noexist = Top.noexist /\ fr.running = running
       /\ fr.must_make = Top.must_make
       /\ fr.du = IF stops THEN NoDep ELSE nx
  BY <1>8, <1>9 DEF FrameType, nx
<1>12. Continue(fr)
  BY <1>2 DEF nx
<1> HIDE DEF fr, stops
<1>13. FrameShape(fr)
  BY <1>1, <1>6, <1>11 DEF FrameShape, Update, Update1, Check
<1>14. Look({d}) \/ UNCHANGED timeVars
  BY <1>2
<1>15. changed' \subseteq changed \cup {Top.du}
  BY <1>2
<1>16. fr.running <=> Top.running \/ command_state[d] \in Busy
  BY <1>3, <1>11, <1>7 DEF running
<1> QED BY <1>1, <1>2, <1>10, <1>11, <1>12, <1>13, <1>14, <1>15, <1>16 DEF d, worst, stops, nx

LEMMA IntermediateUpdatedWalk ==
    ASSUME Plain, TypeOK, WalkInv, IntermediateUpdated
    PROVE  TypeOK' /\ WalkInv'
<1> DEFINE d == Dep(Top.du).file
<1>1. PICK fr \in FrameType :
         /\ pc = "walk" /\ Top.proc = Update1 /\ Top.at = "inter_back" /\ Top.du # NoDep
         /\ d \in Files
         /\ Continue(fr) /\ FrameShape(fr)
         /\ fr.proc = Update1 /\ fr.at = "inter" /\ fr.file = Top.file
         /\ Look({d}) \/ UNCHANGED timeVars
         /\ changed' \subseteq changed \cup {Top.du}
         /\ UNCHANGED <<worldVars, stateVars, walkVars, secondary, first, next, goalVars>>
  BY IntermediateUpdatedPlain
<1>2. stack' \in Seq(FrameType) /\ WalkInv'
  BY <1>1, WalkContinue
     DEF Continue, worldVars, walkVars, goalVars, Marking, Update, Update1, Check
<1>3. last_mtime' \in [Files -> Times] /\ intermediate' \subseteq Intermediates
  <2> HIDE DEF d
  <2>1. CASE Look({d})
    BY <1>1, <2>1, LookTypes DEF Look
  <2>2. CASE UNCHANGED timeVars
    BY <2>2 DEF timeVars, TypeOK
  <2> QED BY <1>1, <2>1, <2>2
<1>4. changed' \subseteq Nodes
  BY <1>1, WalkFacts DEF Walks, TypeOK
<1>5. TypeOK'
  BY <1>1, <1>2, <1>3, <1>4 DEF TypeOK, Continue, worldVars, stateVars, walkVars, goalVars
<1> QED BY <1>2, <1>5

LEMMA PrereqsRunningPlain ==
    ASSUME Plain, TypeOK, WalkInv, PrereqsRunning
    PROVE  /\ pc = "walk" /\ Top.proc = Update1 /\ Top.at = "inter" /\ Top.du = NoDep
           /\ Top.file \in Files /\ Top.running
           /\ updating' = updating \ {Top.file}
           /\ command_state' = [command_state EXCEPT ![Top.file] = "deps_running"]
           /\ Return(us_success, FALSE)
           /\ UNCHANGED <<worldVars, update_status, updated, considered, timeVars, secondary,
                          depVars, goalVars>>
<1>1. pc = "walk" /\ Top.proc = Update1 /\ Top.at = "inter" /\ Top.du = NoDep /\ Top.file \in Files
  BY WalkFacts DEF PrereqsRunning, AllScanned, At, Walks, Update1
<1>2. Name(Top.file) = Top.file
  BY <1>1, PlainFiles
<1>3. command_state' = [command_state EXCEPT ![Top.file] = "deps_running"]
  BY <1>1, SetPlain DEF PrereqsRunning
<1> QED BY <1>1, <1>2, <1>3 DEF PrereqsRunning

LEMMA PrereqsRunningWalk ==
    ASSUME Plain, TypeOK, WalkInv, PrereqsRunning
    PROVE  TypeOK' /\ WalkInv'
<1>1. stack' \in Seq(FrameType) /\ WalkInv'
  BY PrereqsRunningPlain, WalkReturn
     DEF PrereqsRunning, worldVars, depVars, goalVars, Update1, Check
<1>2. ret' \in [status : Statuses, must_make : BOOLEAN] /\ pc' \in {"goal_back", "walk"}
  <2>1. Return(us_success, FALSE)
    BY PrereqsRunningPlain
  <2> QED BY <2>1, Numbers DEF Return
<1>3. command_state' \in [Files -> CommandStates]
  BY PrereqsRunningPlain DEF TypeOK, CommandStates
<1>4. updating' \subseteq Files
  BY PrereqsRunningPlain DEF TypeOK
<1>5. TypeOK'
  BY <1>1, <1>2, <1>3, <1>4 DEF TypeOK, PrereqsRunning, worldVars, timeVars, depVars, goalVars
<1> QED BY <1>1, <1>5

\* what deciding a file leaves of the types
LEMMA NoticeTypes ==
    ASSUME Plain, TypeOK, NEW f \in Files, NEW result \in Statuses, NEW ran \in BOOLEAN,
           NEW times, times \in [Files -> Times], NoticeFinished(f, result, ran, times)
    PROVE  /\ command_state' \in [Files -> CommandStates]
           /\ update_status' \in [Files -> Statuses]
           /\ updated' \subseteq Files
           /\ last_mtime' \in [Files -> Times]
<1>1. /\ command_state' = [command_state EXCEPT ![f] = "finished"]
      /\ updated' = updated \cup {f}
      /\ update_status' = [update_status EXCEPT ![f] = result]
      /\ last_mtime' = [g \in Files |-> IF g = f /\ ran /\ f \notin Phony
                                           THEN TimeAfterRecipe ELSE times[g]]
  BY NoticePlain
<1>2. TimeAfterRecipe \in Times
  BY Numbers DEF TimeAfterRecipe
<1> QED BY <1>1, <1>2 DEF TypeOK, CommandStates

LEMMA PrereqFailedPlain ==
    ASSUME Plain, TypeOK, WalkInv, PrereqFailed
    PROVE  \E result \in Statuses :
              /\ pc = "walk" /\ Top.proc = Update1 /\ Top.at = "inter" /\ Top.du = NoDep
              /\ Top.file \in Files /\ ~Top.running /\ Top.dep_status # us_success
              /\ Top.dep_status \in Statuses
              /\ updating' = updating \ {Top.file}
              /\ result # us_success /\ result # us_none
              /\ result = IF Top.dep_status = us_none THEN us_failed ELSE Top.dep_status
              /\ NoticeFinished(Top.file, result, FALSE, last_mtime)
              /\ Return(Top.dep_status, FALSE)
              /\ UNCHANGED <<worldVars, considered, intermediate, secondary, depVars, goalVars>>
<1>1. /\ pc = "walk" /\ Top.proc = Update1 /\ Top.at = "inter" /\ Top.du = NoDep
      /\ Top.file \in Files /\ Top.dep_status \in Statuses
  BY WalkFacts DEF PrereqFailed, AllScanned, At, Walks, Update1, FrameType
<1>2. Name(Top.file) = Top.file
  BY <1>1, PlainFiles
<1>3. PICK result : result = IF Top.dep_status = us_none THEN us_failed ELSE Top.dep_status
  OBVIOUS
<1>4. result \in Statuses /\ Top.dep_status # us_success
  BY <1>1, <1>3, Numbers DEF PrereqFailed
<1>5. result # us_success /\ result # us_none
  BY <1>3, <1>4 DEF us_success, us_none, us_failed
<1> QED BY <1>1, <1>2, <1>3, <1>4, <1>5 DEF PrereqFailed

LEMMA PrereqFailedWalk ==
    ASSUME Plain, TypeOK, WalkInv, PrereqFailed
    PROVE  TypeOK' /\ WalkInv'
<1>0. PICK result \in Statuses :
         /\ pc = "walk" /\ Top.proc = Update1 /\ Top.at = "inter"
         /\ Top.file \in Files /\ Top.dep_status \in Statuses
         /\ updating' = updating \ {Top.file}
         /\ NoticeFinished(Top.file, result, FALSE, last_mtime)
         /\ Return(Top.dep_status, FALSE)
         /\ UNCHANGED <<worldVars, considered, intermediate, secondary, depVars, goalVars>>
  BY PrereqFailedPlain
<1>1. stack' \in Seq(FrameType) /\ WalkInv'
  BY <1>0, WalkReturn DEF worldVars, depVars, goalVars, Update1, Check
<1>2. ret' \in [status : Statuses, must_make : BOOLEAN] /\ pc' \in {"goal_back", "walk"}
  BY <1>0 DEF Return
<1>3. /\ command_state' \in [Files -> CommandStates] /\ update_status' \in [Files -> Statuses]
      /\ updated' \subseteq Files /\ last_mtime' \in [Files -> Times]
  <2>1. last_mtime \in [Files -> Times]
    BY DEF TypeOK
  <2> QED BY <1>0, <2>1, NoticeTypes
<1>4. updating' \subseteq Files
  BY <1>0 DEF TypeOK
<1>5. TypeOK'
  BY <1>0, <1>1, <1>2, <1>3, <1>4 DEF TypeOK, worldVars, depVars, goalVars
<1> QED BY <1>1, <1>5

LEMMA DecidePlain ==
    ASSUME Plain, TypeOK, WalkInv, DecideFile
    PROVE  LET f == Top.file IN
           /\ pc = "walk" /\ Top.proc = Update1 /\ Top.at = "inter" /\ Top.du = NoDep
           /\ f \in Files /\ ~Top.running /\ Top.dep_status = us_success
           /\ updating' = updating \ {f}
           /\ changed' \subseteq Nodes
           /\ intermediate' = Found(Deps(f)) /\ TimesSeen = Seen(Deps(f))
           /\ Deps(f) \subseteq Files /\ f \notin Deps(f)
           /\ TimesSeen \in [Files -> Times]
           /\ intermediate' \subseteq Intermediates
           /\ Prerequisites(f) = {<<f, i>> : i \in DOMAIN Prereqs[f]}
<1> DEFINE f == Top.file
<1>1. /\ pc = "walk" /\ Top.proc = Update1 /\ Top.at = "inter" /\ Top.du = NoDep
      /\ f \in Files /\ ~Top.running /\ Top.dep_status = us_success
  BY WalkFacts DEF DecideFile, AllScanned, At, Walks, Update1
<1>2. Name(f) = f
  BY <1>1, PlainFiles
<1>3. /\ updating' = updating \ {Name(f)} /\ changed' = ChangedNow(f)
      /\ intermediate' = Found({Dep(n).file : n \in Prerequisites(f)})
  BY DEF DecideFile
<1>4. Prerequisites(f) = {<<f, i>> : i \in DOMAIN Prereqs[f]}
  BY <1>1, WholeLists DEF WalkInv
<1>5. TimesSeen = Seen({Dep(n).file : n \in Prerequisites(f)})
  BY DEF TimesSeen
<1> HIDE DEF f
<1>6. {Dep(n).file : n \in Prerequisites(f)} = Deps(f)
  <2>1. \A i : Dep(<<f, i>>) = Prereqs[f][i]
    BY DEF Dep
  <2>2. \A n \in Prerequisites(f) : Dep(n).file \in Deps(f)
    BY <1>4, <2>1 DEF Deps
  <2>3. \A d \in Deps(f) : \E n \in Prerequisites(f) : Dep(n).file = d
    <3>1. SUFFICES ASSUME NEW i \in DOMAIN Prereqs[f]
                   PROVE  \E n \in Prerequisites(f) : Dep(n).file = Prereqs[f][i].file
      BY DEF Deps
    <3>2. <<f, i>> \in Prerequisites(f)
      BY <1>4
    <3> QED BY <3>2, <2>1
  <2> QED BY <2>2, <2>3
<1>7. Prerequisites(f) \subseteq Nodes
  BY <1>1, <1>4, PrereqTypes
<1>8. changed' \subseteq Nodes
  BY <1>3, <1>7 DEF ChangedNow, TypeOK
<1>9. \A d \in Deps(f) : d \in Files /\ d # f
  <2>1. \A n \in Prerequisites(f) : Dep(n).file \in Files /\ Dep(n).file # n[1] /\ n[1] = f
    BY <1>4, <1>7, DepLower
  <2> QED BY <1>6, <2>1
<1>10. Deps(f) \subseteq Files /\ f \notin Deps(f)
  BY <1>9
<1>11. Seen(Deps(f)) \in [Files -> Times] /\ Found(Deps(f)) \subseteq Intermediates
  BY <1>10, LookTypes
<1> QED BY <1>1, <1>2, <1>3, <1>4, <1>5, <1>6, <1>8, <1>10, <1>11 DEF f

LEMMA FinishWalk ==
    ASSUME Plain, TypeOK, WalkInv, DecideFile, NEW result \in Statuses, NEW ran \in BOOLEAN,
           NoticeFinished(Top.file, result, ran, TimesSeen), Return(result, FALSE),
           secondary' \subseteq secondary \cup {Top.file},
           UNCHANGED <<worldVars, considered, first, next, goalVars>>
    PROVE  TypeOK' /\ WalkInv'
<1>0. /\ pc = "walk" /\ Top.proc = Update1 /\ Top.at = "inter" /\ Top.file \in Files
      /\ updating' = updating \ {Top.file} /\ changed' \subseteq Nodes
      /\ TimesSeen \in [Files -> Times] /\ intermediate' \subseteq Intermediates
  BY DecidePlain
<1>1. stack' \in Seq(FrameType) /\ WalkInv'
  BY <1>0, WalkReturn DEF worldVars, goalVars, Update1, Check
<1>2. ret' \in [status : Statuses, must_make : BOOLEAN] /\ pc' \in {"goal_back", "walk"}
  BY DEF Return
<1>3. /\ command_state' \in [Files -> CommandStates] /\ update_status' \in [Files -> Statuses]
      /\ updated' \subseteq Files /\ last_mtime' \in [Files -> Times]
  BY <1>0, NoticeTypes
<1>4. updating' \subseteq Files /\ secondary' \subseteq Files
  BY <1>0 DEF TypeOK
<1>5. TypeOK'
  BY <1>0, <1>1, <1>2, <1>3, <1>4 DEF TypeOK, worldVars, goalVars
<1> QED BY <1>1, <1>5

LEMMA NoNeedToRemakeWalk ==
    ASSUME Plain, TypeOK, WalkInv, NoNeedToRemake
    PROVE  TypeOK' /\ WalkInv'
BY FinishWalk, Numbers DEF NoNeedToRemake

LEMMA RemakeBlankWalk ==
    ASSUME Plain, TypeOK, WalkInv, RemakeBlank
    PROVE  TypeOK' /\ WalkInv'
BY FinishWalk, Numbers DEF RemakeBlank

LEMMA RemakeWithoutRecipeWalk ==
    ASSUME Plain, TypeOK, WalkInv, RemakeWithoutRecipe
    PROVE  TypeOK' /\ WalkInv'
<1>1. PICK result \in Statuses :
         /\ DecideFile
         /\ result = IF Top.file \in Phony \cup IsTarget THEN us_success ELSE us_failed
         /\ IF result = us_failed /\ ~opt.keep_going
               THEN /\ Die
                    /\ last_mtime' = TimesSeen
                    /\ UNCHANGED <<command_state, update_status, updated>>
               ELSE /\ NoticeFinished(Top.file, result, FALSE, TimesSeen)
                    /\ Return(result, FALSE)
                    /\ UNCHANGED goalVars
         /\ UNCHANGED <<worldVars, considered, secondary, first, next>>
  BY Numbers DEF RemakeWithoutRecipe
<1>2. CASE result = us_failed /\ ~opt.keep_going
  <2>0. /\ pc = "walk" /\ updating' = updating \ {Top.file} /\ changed' \subseteq Nodes
        /\ TimesSeen \in [Files -> Times] /\ intermediate' \subseteq Intermediates
    BY <1>1, DecidePlain
  <2>1. stack' \in Seq(FrameType) /\ WalkInv'
    BY <1>1, <1>2, <2>0, WalkDie DEF Walks, worldVars
  <2>2. /\ pc' = "end" /\ status' \in Statuses
        /\ UNCHANGED <<ret, goals, goal, entry, any_not_updated>>
    BY <1>1, <1>2, Numbers DEF Die
  <2>3. updating' \subseteq Files
    BY <2>0 DEF TypeOK
  <2>4. TypeOK'
    BY <1>1, <1>2, <2>0, <2>1, <2>2, <2>3 DEF TypeOK, worldVars
  <2> QED BY <2>1, <2>4
<1>3. CASE ~(result = us_failed /\ ~opt.keep_going)
  BY <1>1, <1>3, FinishWalk
<1> QED BY <1>2, <1>3

LEMMA ExecutePlain ==
    ASSUME Plain, TypeOK, WalkInv, ExecuteFileCommands
    PROVE  LET fr == [Top EXCEPT !.at = "remade"]
           IN /\ DecideFile /\ MustMake(Top.file) /\ Cmds[Top.file] = "lines"
              /\ command_state' = [command_state EXCEPT ![Top.file] = "not_started"]
              /\ last_mtime' = TimesSeen
              /\ pc' = "new_job"
              /\ stack' = <<fr>> \o Tail(stack)
              /\ fr \in FrameType /\ FrameShape(fr) /\ fr.proc = Update1 /\ fr.at = "remade"
              /\ fr.file = Top.file /\ fr.dep_status = us_success
              /\ UNCHANGED <<worldVars, update_status, updated, considered, secondary, first,
                             next, goalVars, ret>>
<1>1. Top \in FrameType /\ FrameShape(Top) /\ Top.proc = Update1 /\ Top.dep_status = us_success
  BY DecidePlain, WalkFacts DEF ExecuteFileCommands, Walks
<1> DEFINE fr == [Top EXCEPT !.at = "remade"]
<1>2. fr \in FrameType
  BY <1>1 DEF FrameType, Places
<1>3. FrameShape(fr) /\ fr.proc = Update1 /\ fr.at = "remade" /\ fr.file = Top.file
      /\ fr.dep_status = us_success
  BY <1>1 DEF FrameShape, FrameType, Update, Update1, Check
<1> QED BY <1>2, <1>3 DEF ExecuteFileCommands

LEMMA ExecuteFileCommandsWalk ==
    ASSUME Plain, TypeOK, WalkInv, ExecuteFileCommands
    PROVE  TypeOK' /\ WalkInv'
<1> DEFINE fr == [Top EXCEPT !.at = "remade"]
<1>1. /\ DecideFile
      /\ command_state' = [command_state EXCEPT ![Top.file] = "not_started"]
      /\ last_mtime' = TimesSeen
      /\ pc' = "new_job"
      /\ stack' = <<fr>> \o Tail(stack)
      /\ fr \in FrameType /\ FrameShape(fr) /\ fr.proc = Update1 /\ fr.at = "remade"
      /\ fr.file = Top.file
      /\ UNCHANGED <<worldVars, update_status, updated, considered, secondary, first,
                     next, goalVars, ret>>
  BY ExecutePlain
<1> HIDE DEF fr
<1>2. /\ pc = "walk" /\ updating' = updating \ {Top.file} /\ changed' \subseteq Nodes
      /\ TimesSeen \in [Files -> Times] /\ intermediate' \subseteq Intermediates
      /\ Top.proc = Update1 /\ Top.at = "inter"
  BY <1>1, DecidePlain
<1>3. stack' \in Seq(FrameType) /\ WalkInv'
  BY <1>1, <1>2, WalkContinue DEF worldVars, goalVars, Marking, Update, Update1, Check
<1>4. command_state' \in [Files -> CommandStates]
  BY <1>1 DEF TypeOK, CommandStates
<1>5. updating' \subseteq Files
  BY <1>2 DEF TypeOK
<1>6. TypeOK'
  BY <1>1, <1>2, <1>3, <1>4, <1>5 DEF TypeOK, worldVars, goalVars
<1> QED BY <1>3, <1>6

LEMMA RemadeWalk ==
    ASSUME Plain, TypeOK, WalkInv, Remade
    PROVE  TypeOK' /\ WalkInv'
<1>1. Top.file \in Files /\ pc = "walk" /\ Top.at = "remade" /\ Top.proc # Check
  BY WalkFacts DEF Remade, At, Walks, Check
<1>2. PICK result \in Statuses : Return(result, FALSE) /\ updated' \subseteq Files
  <2>1. update_status[Top.file] \in Statuses /\ updated \subseteq Files
    BY <1>1 DEF TypeOK
  <2>2. CASE command_state[Top.file] # "finished"
    BY <2>1, <2>2, Numbers DEF Remade
  <2>3. CASE command_state[Top.file] = "finished"
    BY <1>1, <2>1, <2>3 DEF Remade
  <2> QED BY <2>2, <2>3
<1>3. stack' \in Seq(FrameType) /\ WalkInv'
  BY <1>1, <1>2, WalkReturn
     DEF Remade, worldVars, walkVars, depVars, goalVars, Marking
<1>4. ret' \in [status : Statuses, must_make : BOOLEAN] /\ pc' \in {"goal_back", "walk"}
  BY <1>2 DEF Return
<1>5. TypeOK'
  BY <1>2, <1>3, <1>4 DEF TypeOK, Remade, worldVars, timeVars, walkVars, depVars, goalVars
<1> QED BY <1>3, <1>5

(* check_dep *)

LEMMA CheckOrdinaryPlain ==
    ASSUME Plain, TypeOK, WalkInv, CheckOrdinary
    PROVE  LET f == Top.file
               c == Frame("update_file", f, UNKNOWN_MTIME, FALSE)
               fr == [Top EXCEPT !.at = "updated"]
           IN /\ pc = "walk" /\ Top.proc = Check /\ Top.at = "enter" /\ f \in Files
              /\ f \in Phony \/ f \notin intermediate
              /\ updating' = updating \cup {f} /\ Call(c, fr)
              /\ fr \in FrameType /\ FrameShape(fr) /\ c \in FrameType /\ FrameShape(c)
              /\ Called(c, fr) /\ Below(c, fr)
              /\ fr.file = f /\ fr.proc = Check /\ fr.at = "updated" /\ fr.must_make = Top.must_make
              /\ fr.dep_status = Top.dep_status
              /\ c.file = f /\ c.proc = Update /\ c.at = "enter" /\ c.dep_status = us_success
              /\ UNCHANGED <<worldVars, stateVars, considered, timeVars, secondary, depVars,
                             goalVars>>
<1> DEFINE f == Top.file
           c == Frame("update_file", f, UNKNOWN_MTIME, FALSE)
           fr == [Top EXCEPT !.at = "updated"]
<1>1. /\ pc = "walk" /\ Top.proc = Check /\ Top.at = "enter"
      /\ f \in Phony \/ f \notin intermediate
      /\ updating' = updating \cup {Name(f)} /\ Call(c, fr)
      /\ UNCHANGED <<worldVars, stateVars, considered, timeVars, secondary, depVars, goalVars>>
  BY DEF CheckOrdinary, At, Check
<1>2. f \in Files /\ Top \in FrameType /\ FrameShape(Top) /\ Level[f] \in Nat
  BY <1>1, WalkFacts, LevelTypes DEF Walks
<1>3. Name(f) = f
  BY <1>2, PlainFiles
<1>4. c \in FrameType /\ FrameShape(c)
  BY <1>2, FrameTyped, Numbers
<1>5. /\ fr \in FrameType /\ FrameShape(fr)
      /\ fr.file = f /\ fr.proc = Check /\ fr.at = "updated" /\ fr.must_make = Top.must_make
      /\ fr.dep_status = Top.dep_status
  BY <1>1, <1>2 DEF FrameType, FrameShape, Places, Update, Update1, Check
<1>6. c.file = f /\ c.proc = Update /\ c.at = "enter" /\ c.dep_status = us_success
  BY DEF Frame, Update
<1> HIDE DEF c, fr
<1>7. Called(c, fr) /\ Below(c, fr)
  BY <1>2, <1>5, <1>6 DEF Called, Below, Update, Update1, Check
<1> QED BY <1>1, <1>2, <1>3, <1>4, <1>5, <1>6, <1>7 DEF c, fr

LEMMA CheckOrdinaryWalk ==
    ASSUME Plain, TypeOK, WalkInv, CheckOrdinary
    PROVE  TypeOK' /\ WalkInv'
<1> DEFINE f == Top.file
           c == Frame("update_file", f, UNKNOWN_MTIME, FALSE)
           fr == [Top EXCEPT !.at = "updated"]
<1>1. /\ pc = "walk" /\ Top.proc = Check /\ Top.at = "enter" /\ f \in Files
      /\ updating' = updating \cup {f} /\ Call(c, fr)
      /\ fr \in FrameType /\ FrameShape(fr) /\ c \in FrameType /\ FrameShape(c)
      /\ Called(c, fr) /\ Below(c, fr)
      /\ fr.file = f /\ fr.proc = Check /\ fr.at = "updated" /\ fr.must_make = Top.must_make
      /\ c.at = "enter"
      /\ UNCHANGED <<worldVars, stateVars, considered, timeVars, secondary, depVars, goalVars>>
  BY CheckOrdinaryPlain
<1> HIDE DEF fr, c
<1>2. stack' \in Seq(FrameType) /\ WalkInv'
  BY <1>1, WalkCall
     DEF Call, worldVars, depVars, goalVars, Marking, Update, Update1, Check
<1>3. TypeOK'
  BY <1>1, <1>2 DEF TypeOK, Call, worldVars, stateVars, timeVars, depVars, goalVars
<1> QED BY <1>2, <1>3

LEMMA OrdinaryUpdatedPlain ==
    ASSUME Plain, TypeOK, WalkInv, OrdinaryUpdated
    PROVE  /\ pc = "walk" /\ Top.proc = Check /\ Top.at = "updated" /\ Top.file \in Files
           /\ updating' = updating \ {Top.file}
           /\ Return(ret.status, Top.must_make \/ Renewed(Mtime(Top.file), Top.this_mtime))
           /\ Look({Top.file})
           /\ UNCHANGED <<worldVars, stateVars, considered, secondary, depVars, goalVars>>
<1> DEFINE fr == [Top EXCEPT !.dep_status = ret.status,
                             !.must_make = @ \/ Renewed(Mtime(Top.file), Top.this_mtime)]
<1>1. /\ pc = "walk" /\ Top.proc = Check /\ Top.at = "updated" /\ Top.file \in Files
      /\ Top \in FrameType
  BY WalkFacts DEF OrdinaryUpdated, At, Walks, Check
<1>2. Name(Top.file) = Top.file
  BY <1>1, PlainFiles
<1>3. /\ ReturnDep(fr, "same") /\ Look({Top.file})
      /\ UNCHANGED <<worldVars, update_status, updated, considered, secondary, depVars, goalVars>>
  BY DEF OrdinaryUpdated
<1>4. /\ fr.file = Top.file /\ fr.dep_status = ret.status
      /\ fr.must_make = (Top.must_make \/ Renewed(Mtime(Top.file), Top.this_mtime))
  BY <1>1 DEF FrameType
<1> HIDE DEF fr
<1>5. /\ updating' = updating \ {Top.file} /\ UNCHANGED command_state
      /\ Return(fr.dep_status, fr.must_make)
  BY <1>2, <1>3, <1>4 DEF ReturnDep
<1> QED BY <1>1, <1>3, <1>4, <1>5 DEF stateVars

LEMMA OrdinaryUpdatedWalk ==
    ASSUME Plain, TypeOK, WalkInv, OrdinaryUpdated
    PROVE  TypeOK' /\ WalkInv'
<1> DEFINE must_make == Top.must_make \/ Renewed(Mtime(Top.file), Top.this_mtime)
<1>1. /\ pc = "walk" /\ Top.proc = Check /\ Top.at = "updated" /\ Top.file \in Files
      /\ updating' = updating \ {Top.file} /\ Return(ret.status, must_make) /\ Look({Top.file})
      /\ UNCHANGED <<worldVars, stateVars, considered, secondary, depVars, goalVars>>
  BY OrdinaryUpdatedPlain
<1>2. must_make \in BOOLEAN
  BY WalkFacts, <1>1 DEF FrameType, Walks, Renewed
<1>0. Top.must_make => must_make
  OBVIOUS
<1> HIDE DEF must_make
<1>3. stack' \in Seq(FrameType) /\ WalkInv'
  BY <1>0, <1>1, WalkReturn DEF worldVars, depVars, goalVars
<1>4. ret' \in [status : Statuses, must_make : BOOLEAN] /\ pc' \in {"goal_back", "walk"}
  <2>1. ret.status \in Statuses
    BY DEF TypeOK
  <2> QED BY <1>1, <1>2, <2>1 DEF Return
<1>5. last_mtime' \in [Files -> Times] /\ intermediate' \subseteq Intermediates
  BY <1>1, LookTypes DEF Look
<1>6. updating' \subseteq Files
  BY <1>1 DEF TypeOK
<1>7. TypeOK'
  BY <1>1, <1>3, <1>4, <1>5, <1>6 DEF TypeOK, worldVars, stateVars, depVars, goalVars
<1> QED BY <1>3, <1>7

LEMMA CheckIntermediatePlain ==
    ASSUME Plain, TypeOK, WalkInv, CheckIntermediate
    PROVE  LET f == Top.file
               newer == Mtime(f) # NONEXISTENT_MTIME /\ Mtime(f) > Top.this_mtime
               fr == [Top EXCEPT !.at = "deps", !.du = first[f]]
           IN /\ pc = "walk" /\ Top.proc = Check /\ Top.at = "enter" /\ f \in Files
              /\ f \notin Phony /\ f \in intermediate
              /\ Look({f})
              /\ fr \in FrameType /\ FrameShape(fr) /\ fr.proc = Check /\ fr.at = "deps"
              /\ fr.file = f /\ fr.must_make = Top.must_make /\ fr.dep_status = Top.dep_status
              /\ fr.running = Top.running
              /\ newer =>
                    /\ updating' = updating \ {f} /\ Return(Top.dep_status, TRUE)
                    /\ UNCHANGED <<command_state, considered>>
              /\ ~newer =>
                    /\ updating' = updating \cup {f} /\ Continue(fr)
                    /\ command_state' = IF command_state[f] = "running" THEN command_state
                                        ELSE [command_state EXCEPT ![f] = "not_started"]
                    /\ considered' = IF command_state[f] = "deps_running"
                                        THEN considered \ {f} ELSE considered
              /\ UNCHANGED <<worldVars, update_status, updated, secondary, depVars, goalVars>>
<1> DEFINE f == Top.file
           t == Mtime(f)
           newer == t # NONEXISTENT_MTIME /\ t > Top.this_mtime
           new == [Top EXCEPT !.must_make = TRUE]
           fr == [Top EXCEPT !.at = "deps", !.du = first[f]]
<1>1. /\ pc = "walk" /\ Top.proc = Check /\ Top.at = "enter" /\ f \in Files
      /\ f \notin Phony /\ f \in intermediate
      /\ Top \in FrameType /\ FrameShape(Top)
  BY WalkFacts DEF CheckIntermediate, At, Walks, Check
<1>2. /\ Look({f})
      /\ IF newer
            THEN /\ ReturnDep(new, "same")
                 /\ UNCHANGED considered
            ELSE /\ updating' = updating \cup {Name(f)}
                 /\ IF command_state[f] = "running"
                       THEN UNCHANGED command_state
                       ELSE SetCommandState(f, "not_started")
                 /\ considered' = IF command_state[f] = "deps_running"
                                     THEN considered \ {f} ELSE considered
                 /\ Continue(fr)
      /\ UNCHANGED <<worldVars, update_status, updated, secondary, depVars, goalVars>>
  BY DEF CheckIntermediate
<1>3. Name(f) = f
  BY <1>1, PlainFiles
<1>4. first[f] \in Nodes \cup {NoDep} /\ (first[f] # NoDep => first[f][1] = f)
  BY <1>1, FirstNode DEF WalkInv
<1>5. /\ fr \in FrameType /\ FrameShape(fr) /\ fr.proc = Check /\ fr.at = "deps"
      /\ fr.file = f /\ fr.must_make = Top.must_make /\ fr.dep_status = Top.dep_status
      /\ fr.running = Top.running
  BY <1>1, <1>4 DEF FrameType, FrameShape, Places, Update, Update1, Check
<1>6. new.file = f /\ new.dep_status = Top.dep_status /\ new.must_make = TRUE
  BY <1>1 DEF FrameType
<1> HIDE DEF f, new, fr, t
<1>7. ASSUME newer
      PROVE  /\ updating' = updating \ {f} /\ Return(Top.dep_status, TRUE)
             /\ UNCHANGED <<command_state, considered>>
  BY <1>2, <1>3, <1>6, <1>7 DEF ReturnDep
<1>8. ASSUME ~newer
      PROVE  /\ updating' = updating \cup {f} /\ Continue(fr)
             /\ command_state' = IF command_state[f] = "running" THEN command_state
                                 ELSE [command_state EXCEPT ![f] = "not_started"]
             /\ considered' = IF command_state[f] = "deps_running"
                                 THEN considered \ {f} ELSE considered
  <2>1. /\ updating' = updating \cup {f} /\ Continue(fr)
        /\ considered' = IF command_state[f] = "deps_running"
                            THEN considered \ {f} ELSE considered
    BY <1>2, <1>3, <1>8
  <2>2. CASE command_state[f] = "running"
    BY <1>2, <1>8, <2>1, <2>2
  <2>3. CASE command_state[f] # "running"
    <3>1. SetCommandState(f, "not_started")
      BY <1>2, <1>8, <2>3
    <3>2. command_state' = [command_state EXCEPT ![f] = "not_started"]
      BY <1>1, <3>1, SetPlain
    <3> QED BY <2>1, <2>3, <3>2
  <2> QED BY <2>2, <2>3
<1> QED BY <1>1, <1>2, <1>5, <1>7, <1>8 DEF f, fr, t

LEMMA CheckIntermediateWalk ==
    ASSUME Plain, TypeOK, WalkInv, CheckIntermediate
    PROVE  TypeOK' /\ WalkInv'
<1> DEFINE f == Top.file
           newer == Mtime(f) # NONEXISTENT_MTIME /\ Mtime(f) > Top.this_mtime
           fr == [Top EXCEPT !.at = "deps", !.du = first[f]]
<1>1. /\ pc = "walk" /\ Top.proc = Check /\ Top.at = "enter" /\ f \in Files
      /\ Look({f})
      /\ fr \in FrameType /\ FrameShape(fr) /\ fr.proc = Check /\ fr.at = "deps"
      /\ fr.file = f /\ fr.must_make = Top.must_make
      /\ newer =>
            /\ updating' = updating \ {f} /\ Return(Top.dep_status, TRUE)
            /\ UNCHANGED <<command_state, considered>>
      /\ ~newer =>
            /\ updating' = updating \cup {f} /\ Continue(fr)
            /\ command_state' = IF command_state[f] = "running" THEN command_state
                                ELSE [command_state EXCEPT ![f] = "not_started"]
            /\ considered' = IF command_state[f] = "deps_running"
                                THEN considered \ {f} ELSE considered
      /\ UNCHANGED <<worldVars, update_status, updated, secondary, depVars, goalVars>>
  BY CheckIntermediatePlain
<1> HIDE DEF fr, newer
<1>2. last_mtime' \in [Files -> Times] /\ intermediate' \subseteq Intermediates
  BY <1>1, LookTypes DEF Look
<1>3. CASE newer
  <2>1. stack' \in Seq(FrameType) /\ WalkInv'
    BY <1>1, <1>3, WalkReturn DEF worldVars, depVars, goalVars
  <2>2. ret' \in [status : Statuses, must_make : BOOLEAN] /\ pc' \in {"goal_back", "walk"}
    <3>1. Top.dep_status \in Statuses
      BY <1>1, WalkFacts DEF FrameType, Walks
    <3>2. Return(Top.dep_status, TRUE)
      BY <1>1, <1>3
    <3>3. pc' \in {"goal_back", "walk"} /\ ret' = [status |-> Top.dep_status, must_make |-> TRUE]
      BY <3>2 DEF Return
    <3> QED BY <3>1, <3>3
  <2>3. updating' \subseteq Files
    BY <1>1, <1>3 DEF TypeOK
  <2>4. TypeOK'
    BY <1>1, <1>2, <1>3, <2>1, <2>2, <2>3 DEF TypeOK, worldVars, depVars, goalVars
  <2> QED BY <2>1, <2>4
<1>4. CASE ~newer
  <2>1. stack' \in Seq(FrameType) /\ WalkInv'
    BY <1>1, <1>4, WalkContinue
       DEF Continue, worldVars, depVars, goalVars, Marking, Update, Update1, Check
  <2>2. command_state' \in [Files -> CommandStates]
    BY <1>1, <1>4 DEF TypeOK, CommandStates
  <2>3. updating' \subseteq Files /\ considered' \subseteq Files
    BY <1>1, <1>4 DEF TypeOK
  <2>4. TypeOK'
    BY <1>1, <1>2, <1>4, <2>1, <2>2, <2>3 DEF TypeOK, Continue, worldVars, depVars, goalVars
  <2> QED BY <2>1, <2>4
<1> QED BY <1>3, <1>4

LEMMA CheckPrereqOfIntermediatePlain ==
    ASSUME Plain, TypeOK, WalkInv, CheckPrereqOfIntermediate
    PROVE  LET d == Dep(Top.du).file
               c == Frame("check_dep", d, Top.this_mtime, Top.must_make)
               fr == [Top EXCEPT !.at = "dep_back"]
           IN /\ pc = "walk" /\ Top.proc = Check /\ Top.at = "deps" /\ Top.du # NoDep
              /\ d \in Files /\ Call(c, fr)
              /\ fr \in FrameType /\ FrameShape(fr) /\ c \in FrameType /\ FrameShape(c)
              /\ Called(c, fr) /\ Below(c, fr)
              /\ UNCHANGED <<worldVars, fileVars, depVars, goalVars>>
<1> DEFINE d == Dep(Top.du).file
           c == Frame("check_dep", d, Top.this_mtime, Top.must_make)
           fr == [Top EXCEPT !.at = "dep_back"]
<1>1. /\ pc = "walk" /\ Top.proc = Check /\ Top.at = "deps" /\ Top.du # NoDep
      /\ Call(c, fr)
      /\ UNCHANGED <<worldVars, fileVars, depVars, goalVars>>
  BY DEF CheckPrereqOfIntermediate, At, Check
<1>2. /\ d \in Files /\ Top \in FrameType /\ FrameShape(Top) /\ Level[d] < Level[Top.file]
      /\ Top.du[1] = Top.file
  BY <1>1, WalkFacts DEF Walks
<1>3. c \in FrameType /\ FrameShape(c)
  <2>1. Top.this_mtime \in Times /\ Top.must_make \in BOOLEAN
    BY <1>2 DEF FrameType
  <2> QED BY <1>2, <2>1, FrameTyped
<1>5. fr \in FrameType
  BY <1>2 DEF FrameType, Places
<1>6. FrameShape(fr)
  BY <1>1, <1>2 DEF FrameShape, FrameType, Update, Update1, Check
<1>7. /\ c.proc = "check_dep" /\ c.file = d /\ c.must_make = Top.must_make
      /\ fr.proc = Check /\ fr.at = "dep_back" /\ fr.du = Top.du /\ fr.file = Top.file
      /\ fr.must_make = Top.must_make
  <2> HIDE DEF d
  <2> QED BY <1>1, <1>2 DEF FrameType, Frame
<1> HIDE DEF c, fr
<1>8. Called(c, fr) /\ Below(c, fr)
  <2>1. Level[d] \in Nat /\ Level[Top.file] \in Nat
    BY <1>2, LevelTypes, PlainLevels
  <2> QED BY <1>2, <1>7, <2>1 DEF Called, Below, Update, Update1, Check
<1> QED BY <1>1, <1>2, <1>3, <1>5, <1>6, <1>8 DEF c, fr

LEMMA CheckPrereqOfIntermediateWalk ==
    ASSUME Plain, TypeOK, WalkInv, CheckPrereqOfIntermediate
    PROVE  TypeOK' /\ WalkInv'
<1> DEFINE d == Dep(Top.du).file
           c == Frame("check_dep", d, Top.this_mtime, Top.must_make)
           fr == [Top EXCEPT !.at = "dep_back"]
<1>1. /\ pc = "walk" /\ Top.proc = Check /\ Top.at = "deps" /\ Top.du # NoDep /\ d \in Files
      /\ Call(c, fr)
      /\ fr \in FrameType /\ FrameShape(fr) /\ c \in FrameType /\ FrameShape(c)
      /\ Called(c, fr) /\ Below(c, fr)
      /\ UNCHANGED <<worldVars, fileVars, depVars, goalVars>>
      /\ Top \in FrameType
  BY CheckPrereqOfIntermediatePlain, WalkFacts DEF Walks
<1>2. fr.file = Top.file /\ fr.proc = Check /\ fr.at = "dep_back" /\ fr.must_make = Top.must_make
  BY <1>1 DEF FrameType
<1>0. c.at = "enter"
  BY DEF Frame
<1> HIDE DEF fr, c, d
<1>3. stack' \in Seq(FrameType) /\ WalkInv'
  BY <1>0, <1>1, <1>2, WalkCall
     DEF Call, worldVars, depVars, goalVars, fileVars, walkVars, Marking, Update, Update1, Check
<1>4. TypeOK'
  BY <1>1, <1>3 DEF TypeOK, Call, worldVars, fileVars, stateVars, walkVars, timeVars, depVars,
                    goalVars
<1> QED BY <1>3, <1>4

LEMMA PrereqOfIntermediateCheckedPlain ==
    ASSUME Plain, TypeOK, WalkInv, PrereqOfIntermediateChecked
    PROVE  \E fr \in FrameType :
              LET d == Dep(Top.du).file
                  worst == Worse(Top.dep_status, ret.status)
                  stops == worst # us_success /\ ~opt.keep_going
              IN /\ pc = "walk" /\ Top.proc = Check /\ Top.at = "dep_back" /\ Top.du # NoDep
                 /\ d \in Files
                 /\ Continue(fr) /\ FrameShape(fr)
                 /\ fr.proc = Check /\ fr.at = "deps" /\ fr.file = Top.file
                 /\ fr.du = IF stops THEN NoDep ELSE next[Top.du]
                 /\ fr.dep_status = worst
                 /\ ~stops => (fr.running <=> Top.running \/ command_state[d] \in Busy)
                 /\ fr.must_make = IF Dep(Top.du).ignore_mtime THEN Top.must_make
                                                               ELSE ret.must_make
                 /\ UNCHANGED <<worldVars, fileVars, depVars, goalVars>>
<1> DEFINE d == Dep(Top.du).file
           worst == Worse(Top.dep_status, ret.status)
           running == Top.running \/ command_state[d] \in Busy
           back == [Top EXCEPT !.at = "deps", !.dep_status = worst,
                               !.must_make = IF Dep(Top.du).ignore_mtime THEN @ ELSE ret.must_make]
           stops == worst # us_success /\ ~opt.keep_going
           fr == IF stops THEN [back EXCEPT !.du = NoDep]
                          ELSE [back EXCEPT !.running = running,
                                            !.lastd = Top.du, !.du = next[Top.du]]
<1>1. /\ pc = "walk" /\ Top.proc = Check /\ Top.at = "dep_back" /\ Top.du # NoDep
      /\ Top \in FrameType /\ FrameShape(Top) /\ d \in Files /\ Top.du \in Nodes
      /\ Top.du[1] = Top.file
  BY WalkFacts DEF PrereqOfIntermediateChecked, At, Walks, Check, FrameShape
<1>2. /\ IF stops
            THEN Continue([back EXCEPT !.du = NoDep])
            ELSE Continue([back EXCEPT !.running = @ \/ command_state[d] \in Busy,
                                       !.lastd = Top.du, !.du = next[Top.du]])
      /\ UNCHANGED <<worldVars, fileVars, depVars, goalVars>>
  BY DEF PrereqOfIntermediateChecked
<1>4. worst \in Statuses
  BY <1>1, WorseType DEF FrameType, TypeOK
<1>5. ret.must_make \in BOOLEAN
  BY DEF TypeOK
<1> DEFINE nx == next[Top.du]
           busy == command_state[d] \in Busy
<1>6. nx \in Nodes \cup {NoDep} /\ (nx # NoDep => nx[1] = Top.file)
  BY <1>1, NextNode DEF WalkInv
<1>7. running \in BOOLEAN /\ busy \in BOOLEAN
  BY <1>1 DEF FrameType
<1> HIDE DEF d, worst, nx, busy
<1>8. back \in FrameType
  BY <1>1, <1>4, <1>5 DEF FrameType, Places
<1>9. /\ back.proc = Check /\ back.at = "deps" /\ back.file = Top.file
      /\ back.dep_status = worst /\ back.running = Top.running
      /\ back.must_make = IF Dep(Top.du).ignore_mtime THEN Top.must_make ELSE ret.must_make
  BY <1>1 DEF FrameType
<1> HIDE DEF back, running, stops
<1>12. Continue(fr)
  <2>1. CASE stops
    BY <1>2, <2>1
  <2>2. CASE ~stops
    <3>1. running = (back.running \/ command_state[d] \in Busy)
      BY <1>9 DEF running
    <3> QED BY <1>2, <2>2, <3>1
  <2> QED BY <2>1, <2>2
<1>10. fr \in FrameType
  BY <1>1, <1>6, <1>7, <1>8 DEF FrameType, nx
<1>11. /\ fr.proc = Check /\ fr.at = "deps" /\ fr.file = Top.file
       /\ fr.dep_status = worst
       /\ ~stops => fr.running = running
       /\ fr.must_make = IF Dep(Top.du).ignore_mtime THEN Top.must_make ELSE ret.must_make
       /\ fr.du = IF stops THEN NoDep ELSE nx
  BY <1>8, <1>9 DEF FrameType, nx
<1> HIDE DEF fr
<1>13. FrameShape(fr)
  BY <1>1, <1>6, <1>11 DEF FrameShape, Update, Update1, Check
<1>16. ~stops => (fr.running <=> Top.running \/ command_state[d] \in Busy)
  BY <1>11, <1>7 DEF running
<1> QED BY <1>1, <1>2, <1>10, <1>11, <1>12, <1>13, <1>16 DEF d, worst, stops, nx

LEMMA PrereqOfIntermediateCheckedWalk ==
    ASSUME Plain, TypeOK, WalkInv, PrereqOfIntermediateChecked
    PROVE  TypeOK' /\ WalkInv'
<1>1. PICK fr \in FrameType :
         /\ pc = "walk" /\ Top.proc = Check /\ Top.at = "dep_back"
         /\ Continue(fr) /\ FrameShape(fr)
         /\ fr.proc = Check /\ fr.at = "deps" /\ fr.file = Top.file
         /\ fr.must_make = IF Dep(Top.du).ignore_mtime THEN Top.must_make ELSE ret.must_make
         /\ UNCHANGED <<worldVars, fileVars, depVars, goalVars>>
  BY PrereqOfIntermediateCheckedPlain
<1>2. Top.must_make => fr.must_make
  BY <1>1 DEF WalkInv, ControlInv
<1>3. stack' \in Seq(FrameType) /\ WalkInv'
  BY <1>1, <1>2, WalkContinue
     DEF Continue, worldVars, fileVars, walkVars, depVars, goalVars, Marking, Update, Update1,
         Check
<1>4. TypeOK'
  BY <1>1, <1>3 DEF TypeOK, Continue, worldVars, fileVars, stateVars, walkVars, timeVars, depVars,
                    goalVars
<1> QED BY <1>3, <1>4

LEMMA IntermediateCheckedPlain ==
    ASSUME Plain, TypeOK, WalkInv, IntermediateChecked
    PROVE  /\ pc = "walk" /\ Top.proc = Check /\ Top.at = "deps" /\ Top.file \in Files
           /\ Top.du = NoDep /\ Top \in FrameType
           /\ updating' = updating \ {Top.file}
           /\ command_state' = IF Top.running
                                  THEN [command_state EXCEPT ![Top.file] = "deps_running"]
                                  ELSE command_state
           /\ Return(Top.dep_status, Top.must_make)
           /\ UNCHANGED <<worldVars, update_status, updated, considered, timeVars, secondary,
                          depVars, goalVars>>
<1>1. /\ pc = "walk" /\ Top.proc = Check /\ Top.at = "deps" /\ Top.file \in Files
      /\ Top \in FrameType /\ Top.du = NoDep
  BY WalkFacts DEF IntermediateChecked, At, Walks, Check
<1>2. Name(Top.file) = Top.file
  BY <1>1, PlainFiles
<1>3. /\ ReturnDep(Top, IF Top.running THEN "deps_running" ELSE "same")
      /\ UNCHANGED <<worldVars, update_status, updated, considered, timeVars, secondary,
                     depVars, goalVars>>
  BY DEF IntermediateChecked
<1>4. updating' = updating \ {Top.file} /\ Return(Top.dep_status, Top.must_make)
  BY <1>2, <1>3 DEF ReturnDep
<1>5. CASE Top.running
  <2>1. SetCommandState(Top.file, "deps_running")
    BY <1>3, <1>5 DEF ReturnDep
  <2>2. command_state' = [command_state EXCEPT ![Top.file] = "deps_running"]
    BY <1>1, <2>1, SetPlain
  <2> QED BY <1>1, <1>3, <1>4, <1>5, <2>2
<1>6. CASE ~Top.running
  <2>1. UNCHANGED command_state
    BY <1>3, <1>6 DEF ReturnDep
  <2> QED BY <1>1, <1>3, <1>4, <1>6, <2>1
<1> QED BY <1>5, <1>6

LEMMA IntermediateCheckedWalk ==
    ASSUME Plain, TypeOK, WalkInv, IntermediateChecked
    PROVE  TypeOK' /\ WalkInv'
<1>1. /\ pc = "walk" /\ Top.proc = Check /\ Top.at = "deps" /\ Top.file \in Files
      /\ Top \in FrameType
      /\ updating' = updating \ {Top.file}
      /\ command_state' = IF Top.running
                             THEN [command_state EXCEPT ![Top.file] = "deps_running"]
                             ELSE command_state
      /\ Return(Top.dep_status, Top.must_make)
      /\ UNCHANGED <<worldVars, update_status, updated, considered, timeVars, secondary,
                     depVars, goalVars>>
  BY IntermediateCheckedPlain
<1>2. stack' \in Seq(FrameType) /\ WalkInv'
  BY <1>1, WalkReturn DEF worldVars, depVars, goalVars
<1>3. ret' \in [status : Statuses, must_make : BOOLEAN] /\ pc' \in {"goal_back", "walk"}
  <2>1. Top.dep_status \in Statuses /\ Top.must_make \in BOOLEAN
    BY <1>1 DEF FrameType
  <2> QED BY <1>1, <2>1 DEF Return
<1>4. command_state' \in [Files -> CommandStates]
  BY <1>1 DEF TypeOK, CommandStates
<1>5. updating' \subseteq Files
  BY <1>1 DEF TypeOK
<1>6. TypeOK'
  BY <1>1, <1>2, <1>3, <1>4, <1>5 DEF TypeOK, worldVars, timeVars, depVars, goalVars
<1> QED BY <1>2, <1>6

(* the job engine and the goals *)

LEMMA ReapWalk ==
    ASSUME Plain, TypeOK, WalkInv, NEW f \in Files, Reap(f)
    PROVE  TypeOK' /\ WalkInv'
<1>1. PICK result \in Statuses : NoticeFinished(f, result, TRUE, last_mtime)
  BY Numbers DEF Reap
<1>2. /\ command_state' \in [Files -> CommandStates] /\ update_status' \in [Files -> Statuses]
      /\ updated' \subseteq Files /\ last_mtime' \in [Files -> Times]
  <2>1. last_mtime \in [Files -> Times]
    BY DEF TypeOK
  <2> QED BY <1>1, <2>1, NoticeTypes
<1>3. job' \in [Files -> {"none", "running", "ok", "fail", "reaped"}]
  BY DEF Reap, TypeOK
<1>4. CASE job[f] = "fail" /\ ~opt.keep_going /\ pc # "end"
  <2>1. Die /\ UNCHANGED <<opt, goaldeps, disk, now, walkVars, intermediate, secondary, depVars>>
    BY <1>4 DEF Reap
  <2>2. stack' \in Seq(FrameType) /\ WalkInv'
    <3>1. pc \in Walks \cup {"round", "reaping"}
      BY <1>4 DEF Reap, Walks
    <3> QED BY <2>1, <3>1, WalkDie DEF depVars
  <2>3. /\ pc' = "end" /\ status' \in Statuses
        /\ UNCHANGED <<ret, goals, goal, entry, any_not_updated>>
    BY <2>1, Numbers DEF Die
  <2>4. TypeOK'
    BY <1>2, <1>3, <2>1, <2>2, <2>3 DEF TypeOK, walkVars, depVars
  <2> QED BY <2>2, <2>4
<1>5. CASE ~(job[f] = "fail" /\ ~opt.keep_going /\ pc # "end")
  <2>1. /\ pc' = IF pc = "round" THEN "reaping" ELSE pc
        /\ UNCHANGED <<stack, ret, goalVars>>
        /\ UNCHANGED <<opt, goaldeps, disk, now, walkVars, intermediate, secondary, depVars>>
    BY <1>5 DEF Reap
  <2>2. WalkInv'
    BY <2>1, WalkSame DEF goalVars, walkVars, depVars
  <2>3. TypeOK'
    BY <1>2, <1>3, <2>1 DEF TypeOK, walkVars, depVars, goalVars
  <2> QED BY <2>2, <2>3
<1> QED BY <1>4, <1>5

LEMMA StartRecipePlain ==
    ASSUME Plain, TypeOK, WalkInv, StartRecipe
    PROVE  /\ pc = "new_job" /\ Top.file \in Files /\ Top.proc = Update1 /\ Builds
           /\ job' = [job EXCEPT ![Top.file] = "running"]
           /\ command_state' = [command_state EXCEPT ![Top.file] = "running"]
           /\ pc' = "linear"
           /\ UNCHANGED <<opt, goaldeps, disk, now, update_status, updated, walkVars, timeVars,
                          secondary, depVars, goalVars, stack, ret>>
<1>1. pc = "new_job" /\ Top.file \in Files /\ Top.proc = Update1
  BY WalkFacts DEF StartRecipe, Walks, WalkInv, ControlInv
<1>2. command_state' = [command_state EXCEPT ![Top.file] = "running"]
  BY <1>1, SetPlain DEF StartRecipe
<1> QED BY <1>1, <1>2 DEF StartRecipe, Builds

LEMMA StartRecipeWalk ==
    ASSUME Plain, TypeOK, WalkInv, StartRecipe
    PROVE  TypeOK' /\ WalkInv'
<1>1. WalkInv'
  BY StartRecipePlain, WalkSame DEF goalVars, walkVars, depVars
<1>2. /\ command_state' \in [Files -> CommandStates]
      /\ job' \in [Files -> {"none", "running", "ok", "fail", "reaped"}]
  BY StartRecipePlain DEF TypeOK, CommandStates
<1>3. TypeOK'
  BY <1>2, StartRecipePlain DEF TypeOK, goalVars, walkVars, timeVars, depVars
<1> QED BY <1>1, <1>3

LEMMA PretendRecipeWalk ==
    ASSUME Plain, TypeOK, WalkInv, PretendRecipe
    PROVE  TypeOK' /\ WalkInv' /\ ~Builds
<1>1. /\ pc = "new_job" /\ pc' = "linear" /\ ~Builds /\ Top.file \in Files
      /\ UNCHANGED <<worldVars, walkVars, intermediate, secondary, depVars, goalVars, stack, ret>>
  BY WalkFacts DEF PretendRecipe, Builds, Walks
<1>2. WalkInv'
  BY <1>1, WalkSame DEF worldVars, goalVars, walkVars, depVars
<1>3. PICK result \in Statuses, ran \in BOOLEAN :
         NoticeFinished(Top.file, result, ran, last_mtime)
  BY Numbers DEF PretendRecipe
<1>4. /\ command_state' \in [Files -> CommandStates] /\ update_status' \in [Files -> Statuses]
      /\ updated' \subseteq Files /\ last_mtime' \in [Files -> Times]
  <2>1. last_mtime \in [Files -> Times]
    BY DEF TypeOK
  <2> QED BY <1>1, <1>3, <2>1, NoticeTypes
<1>5. TypeOK'
  BY <1>1, <1>4 DEF TypeOK, worldVars, goalVars, walkVars, depVars
<1> QED BY <1>1, <1>2, <1>5

LEMMA NewJobReturnsWalk ==
    ASSUME Plain, TypeOK, WalkInv, NewJobReturns
    PROVE  TypeOK' /\ WalkInv'
<1>1. WalkInv'
  BY WalkSame DEF NewJobReturns, worldVars, fileVars, goalVars, walkVars, depVars
<1>2. TypeOK'
  BY DEF NewJobReturns, TypeOK, worldVars, fileVars, stateVars, timeVars, goalVars, walkVars,
         depVars
<1> QED BY <1>1, <1>2

LEMMA RoundReapedWalk ==
    ASSUME Plain, TypeOK, WalkInv, RoundReaped
    PROVE  TypeOK' /\ WalkInv'
<1>1. WalkInv'
  BY WalkSame DEF RoundReaped, worldVars, fileVars, goalVars, walkVars, depVars
<1>2. TypeOK'
  BY DEF RoundReaped, TypeOK, worldVars, fileVars, stateVars, timeVars, goalVars, walkVars,
         depVars
<1> QED BY <1>1, <1>2

LEMMA UpdateGoalWalk ==
    ASSUME Plain, TypeOK, WalkInv, UpdateGoal
    PROVE  TypeOK' /\ WalkInv'
<1>1. pc = "goal" /\ goal \in 1 .. Len(goals) /\ goals[goal] \in Files
  BY DEF UpdateGoal, TypeOK
<1>2. PICK f \in Files : f = goals[goal]
  BY <1>1
<1>3. Name(f) = f
  BY PlainFiles
<1>4. /\ UpdateGoalEntry(f) /\ any_not_updated' = FALSE
      /\ UNCHANGED <<worldVars, fileVars, depVars, goals, goal, status>>
  BY <1>2, <1>3 DEF UpdateGoal
<1>5. \E i \in DOMAIN goaldeps : goaldeps[i] = f
  <2>1. goal \in DOMAIN goals
    BY <1>1 DEF TypeOK
  <2> QED BY <1>2, <2>1 DEF WalkInv, ControlInv
<1>6. stack' \in Seq(FrameType) /\ WalkInv'
  BY <1>1, <1>4, <1>5, WalkGoal DEF worldVars, fileVars, walkVars, depVars
<1>7. TypeOK'
  BY <1>4, <1>6 DEF TypeOK, UpdateGoalEntry, worldVars, fileVars, stateVars, walkVars, timeVars,
                    depVars
<1> QED BY <1>6, <1>7

LEMMA RoundOverWalk ==
    ASSUME Plain, TypeOK, WalkInv, RoundOver
    PROVE  TypeOK' /\ WalkInv'
<1>1. WalkInv'
  BY WalkSame DEF RoundOver, worldVars, goalVars, depVars
<1>2. TypeOK'
  BY DEF RoundOver, TypeOK, worldVars, stateVars, timeVars, goalVars, depVars
<1> QED BY <1>1, <1>2

LEMMA GoalUpdatedPlain ==
    ASSUME Plain, TypeOK, WalkInv, GoalUpdated
    PROVE  /\ pc = "goal_back" /\ entry \in Files /\ stack = <<>> /\ updating = {}
           /\ status' \in Statuses
           /\ Look({entry}) \/ UNCHANGED timeVars
           /\ \/ goals' = WithoutGoal /\ goal' = goal
              \/ goals' = goals /\ goal' = goal + 1
           /\ goal \in 1 .. Len(goals)
           /\ pc' = "goal" \/ (~Builds /\ pc' \in {"end", "round"})
           /\ any_not_updated' = FALSE /\ entry' = NoFile
           /\ considered' = {} \/ considered' = considered
           /\ UNCHANGED <<stack, ret>>
           /\ UNCHANGED <<worldVars, stateVars, updating, secondary, depVars>>
<1>1. /\ pc = "goal_back" /\ entry \in Files /\ stack = <<>> /\ goal \in 1 .. Len(goals)
      /\ updating = {}
  <2>1. pc = "goal_back"
    BY DEF GoalUpdated
  <2>2. entry \in Files /\ stack = <<>> /\ goal \in 1 .. Len(goals)
    BY <2>1 DEF WalkInv, ControlInv
  <2> QED BY <2>1, <2>2 DEF WalkInv, MarksInv, Over
<1>2. Prev[entry] = NoFile
  BY <1>1, PlainFiles
<1> DEFINE f == entry
           counts == (ret.status # us_success \/ f \in updated) /\ status < us_question
           failed == counts /\ update_status[f] # us_success
           stop == failed /\ Stops
           left == any_not_updated \/ f \notin updated
<1>3. /\ status' = IF failed THEN update_status[f] ELSE status
      /\ IF counts /\ ~failed THEN Look({f}) ELSE UNCHANGED timeVars
      /\ IF stop \/ ~left
            THEN goals' = WithoutGoal /\ UNCHANGED goal
            ELSE goal' = goal + 1 /\ UNCHANGED goals
      /\ pc' = IF ~stop THEN "goal" ELSE IF goals' = <<>> THEN "end" ELSE "round"
      /\ any_not_updated' = FALSE
      /\ entry' = NoFile
      /\ UNCHANGED <<stack, ret>>
      /\ considered' = IF stop /\ goal = Len(goals) THEN {} ELSE considered
      /\ UNCHANGED <<worldVars, stateVars, updating, secondary, depVars>>
  BY <1>2 DEF GoalUpdated
<1>4. status' \in Statuses
  BY <1>1, <1>3 DEF TypeOK
<1>5. stop => ~Builds
  BY DEF Stops, Builds
<1> HIDE DEF stop, failed, counts, left
<1> QED BY <1>1, <1>3, <1>4, <1>5

LEMMA GoalUpdatedWalk ==
    ASSUME Plain, TypeOK, WalkInv, GoalUpdated
    PROVE  TypeOK' /\ WalkInv'
<1>0. /\ pc = "goal_back" /\ entry \in Files /\ stack = <<>> /\ updating = {}
      /\ goals \in Seq(Files) /\ goal \in 1 .. Len(goals) /\ Len(goals) \in Nat
      /\ pc' \in {"goal", "end", "round"}
      /\ UNCHANGED <<stack, ret>>
      /\ UNCHANGED <<worldVars, stateVars, updating, secondary, depVars>>
  <2>1. goals \in Seq(Files) /\ Len(goals) \in Nat
    BY DEF TypeOK
  <2> HIDE DEF TypeOK
  <2> QED BY <2>1, GoalUpdatedPlain
<1>1. /\ goals' \in Seq(Files) /\ goal' \in Nat \ {0}
      /\ \A i \in DOMAIN goals' : \E j \in DOMAIN goals : goals[j] = goals'[i]
  <2>1. CASE goals' = WithoutGoal /\ goal' = goal
    <3>1. PICK u, n : u = goals /\ n = goal
      OBVIOUS
    <3>2. u \in Seq(Files) /\ n \in 1 .. Len(u)
      BY <1>0, <3>1
    <3>3. PICK t : t = SubSeq(u, 1, n - 1) \o SubSeq(u, n + 1, Len(u))
      OBVIOUS
    <3>4. t \in Seq(Files) /\ \A i \in DOMAIN t : \E j \in DOMAIN u : u[j] = t[i]
      BY ONLY <3>2, <3>3, TakenOut
    <3>5. goals' = t
      BY <2>1, <3>1, <3>3 DEF WithoutGoal
    <3> QED BY <1>0, <2>1, <3>1, <3>4, <3>5
  <2>2. CASE goals' = goals /\ goal' = goal + 1
    BY <1>0, <2>2
  <2> QED BY <2>1, <2>2, GoalUpdatedPlain
<1>2. Shape(stack)'
  BY <1>0 DEF WalkInv, Shape
<1>3. ControlInv'
  <2>1. \A i \in DOMAIN goals' : \E k \in DOMAIN goaldeps : goaldeps[k] = goals'[i]
    BY <1>1 DEF WalkInv, ControlInv
  <2> QED BY <1>0, <2>1 DEF ControlInv, worldVars
<1>4. ListsKept'
  BY <1>0 DEF WalkInv, ListsKept, depVars
<1>5. MarksInv'
  BY <1>0 DEF MarksInv
<1>6. last_mtime' \in [Files -> Times] /\ intermediate' \subseteq Intermediates
  <2>1. CASE Look({entry})
    BY <1>0, <2>1, LookTypes DEF Look
  <2>2. CASE UNCHANGED timeVars
    BY <2>2 DEF timeVars, TypeOK
  <2> QED BY <2>1, <2>2, GoalUpdatedPlain
<1>7. /\ status' \in Statuses /\ any_not_updated' \in BOOLEAN /\ entry' \in Files \cup {NoFile}
      /\ considered' \subseteq Files
  BY GoalUpdatedPlain DEF TypeOK
<1>8. TypeOK'
  BY <1>0, <1>1, <1>6, <1>7 DEF TypeOK, worldVars, stateVars, depVars
<1> QED BY <1>2, <1>3, <1>4, <1>5, <1>8 DEF WalkInv

LEMMA RemoveIntermediatesWalk ==
    ASSUME Plain, TypeOK, WalkInv, RemoveIntermediates
    PROVE  TypeOK' /\ WalkInv'
<1>1. /\ pc = "end" /\ pc' = "exit"
      /\ UNCHANGED <<opt, goaldeps, now, job, fileVars, depVars, goalVars, stack, ret>>
  BY DEF RemoveIntermediates
<1>2. WalkInv'
  BY <1>1, WalkSame DEF fileVars, goalVars, walkVars, depVars
<1>3. disk' \in [Files -> NONEXISTENT_MTIME .. NEW_MTIME - 1]
  <2>1. NONEXISTENT_MTIME \in NONEXISTENT_MTIME .. NEW_MTIME - 1
    BY Numbers DEF NONEXISTENT_MTIME
  <2> QED BY <2>1 DEF RemoveIntermediates, TypeOK
<1>4. TypeOK'
  BY <1>1, <1>3 DEF TypeOK, fileVars, stateVars, walkVars, timeVars, depVars, goalVars
<1> QED BY <1>2, <1>4

\* Each recipe writes at most once: the time stays below that of NEW_MTIME.
LEMMA RecipeEndsWalk ==
    ASSUME Plain, TypeOK, WalkInv, CountInv, NEW f \in Files, RecipeEnds(f)
    PROVE  TypeOK' /\ WalkInv' /\ CountInv'
<1> DEFINE Wrote(j) == {g \in Files : j[g] \in {"ok", "fail", "reaped"}}
<1>1. PICK result \in {"ok", "fail"}, writes \in BOOLEAN :
         /\ job' = [job EXCEPT ![f] = result]
         /\ now' = IF writes THEN now + 1 ELSE now
         /\ disk' = [g \in Files |-> IF writes /\ g \in Group(f) \ Phony THEN now' ELSE disk[g]]
  BY DEF RecipeEnds
<1>2. job[f] = "running" /\ UNCHANGED <<opt, goaldeps, fileVars, depVars, goalVars, ctlVars>>
  BY DEF RecipeEnds
<1>3. WalkInv'
  BY <1>2, WalkSame DEF fileVars, goalVars, walkVars, depVars, ctlVars
<1>4. job' \in [Files -> {"none", "running", "ok", "fail", "reaped"}]
  BY <1>1 DEF TypeOK
<1>5. IsFiniteSet(Wrote(job)) /\ IsFiniteSet(Wrote(job'))
  BY FilesAssumption, FS_Subset
<1>6. f \notin Wrote(job) /\ Wrote(job') = Wrote(job) \cup {f}
  BY <1>1, <1>2 DEF TypeOK
<1> HIDE DEF Wrote
<1>7. /\ Cardinality(Wrote(job')) = Cardinality(Wrote(job)) + 1
      /\ Cardinality(Wrote(job)) \in Nat
  BY <1>5, <1>6, FS_AddElement, FS_CardinalityType
<1>8. Cardinality(Wrote(job')) <= Cardinality(Files)
  <2>1. Wrote(job') \subseteq Files
    BY DEF Wrote
  <2> QED BY <2>1, FilesAssumption, FS_Subset
<1>9. now \in Nat /\ now >= Start /\ now <= Start + Cardinality(Wrote(job))
  <2>1. now <= Start + Cardinality(Wrote(job))
    BY DEF CountInv, Wrote
  <2> QED BY <2>1, Numbers DEF TypeOK
<1>10. now' \in Nat /\ now' >= Start /\ now' <= Start + Cardinality(Wrote(job'))
  BY <1>1, <1>7, <1>9, Numbers
<1>11. now' \in Start .. NEW_MTIME - 1
  BY <1>8, <1>10, <1>7, Numbers
<1>12. disk' \in [Files -> NONEXISTENT_MTIME .. NEW_MTIME - 1]
  <2>1. now' \in NONEXISTENT_MTIME .. NEW_MTIME - 1
    BY <1>11, Numbers DEF NONEXISTENT_MTIME
  <2> QED BY <1>1, <2>1 DEF TypeOK
<1>13. TypeOK'
  BY <1>2, <1>4, <1>11, <1>12
     DEF TypeOK, fileVars, stateVars, walkVars, timeVars, depVars, goalVars, ctlVars
<1>14. CountInv'
  BY <1>10 DEF CountInv, Wrote
<1> QED BY <1>3, <1>13, <1>14

LEMMA UnchangedWalk ==
    ASSUME Plain, TypeOK, WalkInv, UNCHANGED vars
    PROVE  TypeOK' /\ WalkInv'
<1> USE DEF vars, worldVars, fileVars, stateVars, walkVars, timeVars, depVars, goalVars, ctlVars
<1>1. WalkInv'
  BY WalkSame
<1>2. TypeOK'
  BY DEF TypeOK
<1> QED BY <1>1, <1>2

--------------------------------------------------------------------------------
(* All steps *)

\* Whatever make or a recipe does, the calls under way go down the prerequisites, and the
\* lists lose nothing.
LEMMA NextWalk ==
    ASSUME Plain, TypeOK, WalkInv, CountInv, Next
    PROVE  TypeOK' /\ WalkInv'
<1>1. CASE Pruned \/ UpdateFile \/ EntryUpdated
  BY <1>1, PrunedWalk, UpdateFileWalk, EntryUpdatedWalk
<1>2. CASE AlreadyDecided \/ ConsiderFile \/ ListDone \/ CheckPrereq \/ PrereqChecked
  BY <1>2, AlreadyDecidedWalk, ConsiderFileWalk, ListDoneWalk, CheckPrereqWalk, PrereqCheckedWalk
<1>3. CASE SkipOrdinary \/ UpdateIntermediate \/ IntermediateUpdated
  BY <1>3, SkipOrdinaryWalk, UpdateIntermediateWalk, IntermediateUpdatedWalk
<1>4. CASE PrereqsRunning \/ PrereqFailed \/ NoNeedToRemake \/ RemakeWithoutRecipe \/ RemakeBlank
  BY <1>4, PrereqsRunningWalk, PrereqFailedWalk, NoNeedToRemakeWalk, RemakeWithoutRecipeWalk,
     RemakeBlankWalk
<1>5. CASE ExecuteFileCommands \/ Remade
  BY <1>5, ExecuteFileCommandsWalk, RemadeWalk
<1>6. CASE CheckOrdinary \/ OrdinaryUpdated \/ CheckIntermediate
  BY <1>6, CheckOrdinaryWalk, OrdinaryUpdatedWalk, CheckIntermediateWalk
<1>7. CASE CheckPrereqOfIntermediate \/ PrereqOfIntermediateChecked \/ IntermediateChecked
  BY <1>7, CheckPrereqOfIntermediateWalk, PrereqOfIntermediateCheckedWalk, IntermediateCheckedWalk
<1>8. CASE CircularDropped \/ DropFromIntermediate
  BY <1>8, NoneDropped
<1>9. CASE \E f \in Files : Reap(f)
  BY <1>9, ReapWalk
<1>10. CASE StartRecipe \/ PretendRecipe \/ NewJobReturns
  BY <1>10, StartRecipeWalk, PretendRecipeWalk, NewJobReturnsWalk
<1>11. CASE RoundReaped \/ UpdateGoal \/ RoundOver \/ GoalUpdated
  BY <1>11, RoundReapedWalk, UpdateGoalWalk, RoundOverWalk, GoalUpdatedWalk
<1>12. CASE RemoveIntermediates
  BY <1>12, RemoveIntermediatesWalk
<1>13. CASE \E f \in Files : RecipeEnds(f)
  BY <1>13, RecipeEndsWalk
<1>14. CASE UNCHANGED vars
  BY <1>14, UnchangedWalk
<1> QED
  BY <1>1, <1>2, <1>3, <1>4, <1>5, <1>6, <1>7, <1>8, <1>9, <1>10, <1>11, <1>12, <1>13, <1>14
     DEF Next, MakeStep, UpdateFileStep, UpdateFile1Step, CheckDepStep, JobStep, GoalStep, Finished

\* Recipes run only when files are made, and the time moves on only when one writes.
LEMMA NextIdle ==
    ASSUME Plain, TypeOK, WalkInv, CountInv, IdleInv, Next,
           StartRecipe => job[Top.file] = "none"
    PROVE  IdleInv' /\ CountInv'
<1>1. ASSUME UNCHANGED <<opt, now, job>> PROVE IdleInv' /\ CountInv'
  BY <1>1 DEF IdleInv, Builds, CountInv
<1>2. CASE Pruned \/ UpdateFile \/ EntryUpdated
  BY <1>1, <1>2 DEF Pruned, UpdateFile, EntryUpdated, worldVars
<1>3. CASE AlreadyDecided \/ ConsiderFile \/ ListDone \/ CheckPrereq \/ PrereqChecked
  BY <1>1, <1>3 DEF AlreadyDecided, ConsiderFile, ListDone, CheckPrereq, PrereqChecked, worldVars
<1>4. CASE SkipOrdinary \/ UpdateIntermediate \/ IntermediateUpdated
  BY <1>1, <1>4 DEF SkipOrdinary, UpdateIntermediate, IntermediateUpdated, worldVars
<1>5. CASE PrereqsRunning \/ PrereqFailed \/ NoNeedToRemake \/ RemakeWithoutRecipe \/ RemakeBlank
  BY <1>1, <1>5 DEF PrereqsRunning, PrereqFailed, NoNeedToRemake, RemakeWithoutRecipe,
                    RemakeBlank, worldVars
<1>6. CASE ExecuteFileCommands \/ Remade
  BY <1>1, <1>6 DEF ExecuteFileCommands, Remade, worldVars
<1>7. CASE CheckOrdinary \/ OrdinaryUpdated \/ CheckIntermediate
  BY <1>1, <1>7 DEF CheckOrdinary, OrdinaryUpdated, CheckIntermediate, worldVars
<1>8. CASE CheckPrereqOfIntermediate \/ PrereqOfIntermediateChecked \/ IntermediateChecked
  BY <1>1, <1>8 DEF CheckPrereqOfIntermediate, PrereqOfIntermediateChecked, IntermediateChecked,
                    worldVars
<1>9. CASE CircularDropped \/ DropFromIntermediate
  BY <1>9, NoneDropped
<1>10. ASSUME NEW f \in Files, Reap(f) PROVE IdleInv' /\ CountInv'
  <2>1. job[f] \in {"ok", "fail"} /\ job' = [job EXCEPT ![f] = "reaped"] /\ UNCHANGED <<opt, now>>
    BY <1>10 DEF Reap, Ended
  <2>2. job' \in [Files -> {"none", "running", "ok", "fail", "reaped"}]
    BY <2>1 DEF TypeOK
  <2>3. Builds /\ UNCHANGED Builds
    BY <2>1 DEF IdleInv, Builds
  <2>4. {g \in Files : job'[g] \in {"ok", "fail", "reaped"}}
          = {g \in Files : job[g] \in {"ok", "fail", "reaped"}}
    BY <2>1 DEF TypeOK
  <2> QED BY <2>1, <2>3, <2>4 DEF IdleInv, CountInv
<1>11. CASE StartRecipe
  <2>1. job[Top.file] = "none" /\ job' = [job EXCEPT ![Top.file] = "running"] /\ UNCHANGED <<opt, now>>
        /\ Builds
    BY <1>11, StartRecipePlain
  <2>2. UNCHANGED Builds
    BY <2>1 DEF Builds
  <2>3. {g \in Files : job'[g] \in {"ok", "fail", "reaped"}}
          = {g \in Files : job[g] \in {"ok", "fail", "reaped"}}
    BY <2>1 DEF TypeOK
  <2> QED BY <2>1, <2>2, <2>3 DEF IdleInv, CountInv
<1>12. CASE PretendRecipe \/ NewJobReturns
  BY <1>1, <1>12 DEF PretendRecipe, NewJobReturns, worldVars
<1>13. CASE RoundReaped \/ UpdateGoal \/ RoundOver \/ GoalUpdated
  BY <1>1, <1>13 DEF RoundReaped, UpdateGoal, RoundOver, GoalUpdated, worldVars
<1>14. CASE RemoveIntermediates
  BY <1>1, <1>14 DEF RemoveIntermediates
<1>15. ASSUME NEW f \in Files, RecipeEnds(f) PROVE IdleInv' /\ CountInv'
  <2>1. CountInv'
    BY <1>15, RecipeEndsWalk
  <2>2. job[f] = "running" /\ UNCHANGED opt
    BY <1>15 DEF RecipeEnds
  <2>3. Builds /\ UNCHANGED Builds
    BY <2>2 DEF IdleInv, Builds
  <2> QED BY <2>1, <2>3 DEF IdleInv
<1>16. CASE UNCHANGED vars
  BY <1>1, <1>16 DEF vars, worldVars
<1> QED
  BY <1>2, <1>3, <1>4, <1>5, <1>6, <1>7, <1>8, <1>9, <1>10, <1>11, <1>12, <1>13, <1>14, <1>15, <1>16
     DEF Next, MakeStep, UpdateFileStep, UpdateFile1Step, CheckDepStep, JobStep, GoalStep, Finished

LEMMA InitWalk ==
    ASSUME Plain, Init
    PROVE  TypeOK /\ WalkInv /\ CountInv /\ IdleInv
<1> USE DEF Init
<1>1. TypeOK
  <2>1. opt \in Options /\ goaldeps \in Goals /\ goals \in Seq(Files) /\ goal \in Nat \ {0}
    BY GoalsAssumption
  <2>2. disk \in [Files -> NONEXISTENT_MTIME .. NEW_MTIME - 1] /\ now \in Start .. NEW_MTIME - 1
    <3>1. NONEXISTENT_MTIME .. Start \subseteq NONEXISTENT_MTIME .. NEW_MTIME - 1
      BY Numbers DEF NONEXISTENT_MTIME
    <3>2. disk \in [Files -> NONEXISTENT_MTIME .. Start]
      BY DisksAssumption
    <3>3. Start \in Start .. NEW_MTIME - 1
      BY Numbers
    <3> QED BY <3>1, <3>2, <3>3
  <2>3. /\ job \in [Files -> {"none", "running", "ok", "fail", "reaped"}]
        /\ command_state \in [Files -> CommandStates]
        /\ update_status \in [Files -> Statuses]
        /\ last_mtime \in [Files -> Times]
    BY Numbers DEF CommandStates
  <2>4. /\ updated \subseteq Files /\ updating \subseteq Files /\ considered \subseteq Files
        /\ intermediate \subseteq Intermediates /\ secondary \subseteq Files
        /\ changed \subseteq Nodes
    OBVIOUS
  <2>5. first \in [Files -> Nodes \cup {NoDep}]
    <3>1. ASSUME NEW f \in Files, Prereqs[f] # <<>> PROVE <<f, 1>> \in Nodes
      <4>1. 1 \in DOMAIN Prereqs[f]
        <5>1. Prereqs[f] \in Seq(PrereqType) /\ Len(Prereqs[f]) \in Nat
              /\ DOMAIN Prereqs[f] = 1 .. Len(Prereqs[f])
          BY PrereqTypes
        <5>2. Len(Prereqs[f]) # 0
          BY <5>1, <3>1
        <5> QED BY <5>1, <5>2
      <4> QED BY <4>1, PrereqTypes
    <3> QED BY <3>1
  <2>6. next \in [Nodes -> Nodes \cup {NoDep}]
    <3>1. ASSUME NEW n \in Nodes, n[2] < Len(Prereqs[n[1]]) PROVE <<n[1], n[2] + 1>> \in Nodes
      <4>1. /\ n[1] \in Files /\ n[2] \in 1 .. Len(Prereqs[n[1]]) /\ Len(Prereqs[n[1]]) \in Nat
            /\ DOMAIN Prereqs[n[1]] = 1 .. Len(Prereqs[n[1]])
        BY PrereqTypes
      <4>2. n[2] + 1 \in DOMAIN Prereqs[n[1]]
        BY <4>1, <3>1
      <4> QED BY <4>1, <4>2, PrereqTypes
    <3> QED BY <3>1
  <2>7. /\ entry \in Files \cup {NoFile} /\ any_not_updated \in BOOLEAN /\ status \in Statuses
        /\ pc \in {"round", "reaping", "goal", "goal_back", "walk", "new_job", "linear", "end",
                   "exit"}
        /\ ret \in [status : Statuses, must_make : BOOLEAN]
    BY Numbers
  <2>8. stack \in Seq(FrameType)
    OBVIOUS
  <2> QED BY <2>1, <2>2, <2>3, <2>4, <2>5, <2>6, <2>7, <2>8 DEF TypeOK
<1>2. Shape(stack)
  BY DEF Shape
<1>3. ControlInv
  BY DEF ControlInv
<1>4. ListsKept /\ MarksInv
  BY DEF ListsKept, MarksInv
<1>5. CountInv /\ IdleInv
  <2>1. {f \in Files : job[f] \in {"ok", "fail", "reaped"}} = {}
    OBVIOUS
  <2>2. Cardinality({f \in Files : job[f] \in {"ok", "fail", "reaped"}}) = 0
    BY <2>1, FS_EmptySet
  <2>3. now = Start /\ \A f \in Files : job[f] = "none"
    OBVIOUS
  <2> HIDE DEF Init
  <2> QED BY <2>2, <2>3, Numbers DEF CountInv, IdleInv
<1> QED BY <1>1, <1>2, <1>3, <1>4, <1>5 DEF WalkInv
================================================================================
