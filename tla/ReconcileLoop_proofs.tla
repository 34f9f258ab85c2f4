------------------------- MODULE ReconcileLoop_proofs -------------------------
(* Proofs about the reconcile loop and the pure function, for every set of   *)
(* hosts, configurations, inventories and requesters, every hash and any     *)
(* sequence of failures, reloads and restarts.                               *)
EXTENDS ReconcileLoop, FiniteSetTheorems, WellFoundedInduction, TLAPS

-----------------------------------------------------------------------------
(* Numbers and orders.                                                       *)

LEMMA LeastNat ==
    ASSUME NEW T \in SUBSET Nat, T # {}
    PROVE  \E n \in T : \A m \in T : n <= m
<1>1. IsWellFoundedOn(OpToRel(<, Nat), Nat)
  BY NatLessThanWellFounded
<1>2. PICK n \in T : \A m \in T : <<m, n>> \notin OpToRel(<, Nat)
  BY <1>1, WFMin
<1>3. \A m \in T : ~(m < n)
  BY <1>2 DEF OpToRel
<1> QED BY <1>3

LEMMA Induction ==
    ASSUME NEW T, 0 \in T, \A n \in Nat : n \in T => n + 1 \in T
    PROVE  Nat \subseteq T
<1> SUFFICES ASSUME Nat \ T # {}
             PROVE  FALSE
  OBVIOUS
<1>1. PICK n \in Nat \ T : \A m \in Nat \ T : n <= m
  BY LeastNat
<1>2. n # 0 /\ n - 1 \in Nat /\ n - 1 \in T
  BY <1>1
<1>3. (n - 1) + 1 \in T
  BY <1>2
<1> QED BY <1>1, <1>2, <1>3

Order(R, S) ==
    /\ \A x \in S : <<x, x>> \notin R
    /\ \A x, y, z \in S : <<x, y>> \in R /\ <<y, z>> \in R => <<x, z>> \in R
    /\ \A x, y \in S : x = y \/ <<x, y>> \in R \/ <<y, x>> \in R

Below(R, S, x) == {y \in S : <<y, x>> \in R}

LEMMA LeastOf ==
    ASSUME NEW S, IsFiniteSet(S), NEW R, Order(R, S), NEW U \in SUBSET S, U # {}
    PROVE  \E x \in U : \A y \in U : y = x \/ <<x, y>> \in R
<1> DEFINE Rank(x) == Cardinality(Below(R, S, x))
           Ranks == {Rank(x) : x \in U}
<1>1. ASSUME NEW x \in S
      PROVE  IsFiniteSet(Below(R, S, x)) /\ Rank(x) \in Nat
  <2>1. Below(R, S, x) \subseteq S
    BY DEF Below
  <2>2. IsFiniteSet(Below(R, S, x))
    BY <2>1, FS_Subset
  <2> QED BY <2>2, FS_CardinalityType
<1>2. Ranks \in SUBSET Nat /\ Ranks # {}
  BY <1>1
<1> HIDE DEF Rank
<1>3. PICK x \in U : \A y \in U : Rank(x) <= Rank(y)
  <2>1. PICK n \in Ranks : \A m \in Ranks : n <= m
    BY <1>2, LeastNat
  <2> QED BY <2>1
<1>4. ASSUME NEW y \in U, <<y, x>> \in R
      PROVE  FALSE
  <2>1. Below(R, S, y) \subseteq Below(R, S, x)
    BY <1>4 DEF Below, Order
  <2>2. y \in Below(R, S, x) /\ y \notin Below(R, S, y)
    BY <1>4 DEF Below, Order
  <2>3. IsFiniteSet(Below(R, S, x))
    BY <1>1
  <2>4. Rank(y) <= Rank(x) /\ Rank(y) # Rank(x)
    <3>1. Below(R, S, y) \in SUBSET Below(R, S, x) /\ Below(R, S, y) # Below(R, S, x)
      BY <2>1, <2>2
    <3> QED BY <2>3, <3>1, FS_Subset DEF Rank
  <2> QED BY <1>1, <1>3, <2>4
<1> QED BY <1>3, <1>4 DEF Order

\* In a finite ordered set every rank is taken.
LEMMA Ranked ==
    ASSUME NEW S, IsFiniteSet(S), NEW R, Order(R, S), NEW n \in 1..Cardinality(S)
    PROVE  \E x \in S : Cardinality(Below(R, S, x)) = n - 1
<1> DEFINE T == {m \in Nat : m < Cardinality(S) =>
                     \E x \in S : Cardinality(Below(R, S, x)) = m}
<1>1. Cardinality(S) \in Nat
  BY FS_CardinalityType
<1>2. \A x \in S : IsFiniteSet(Below(R, S, x))
  <2>1. \A x \in S : Below(R, S, x) \subseteq S
    BY DEF Below
  <2> QED BY <2>1, FS_Subset
<1>3. 0 \in T
  <2>1. SUFFICES ASSUME 0 < Cardinality(S)
                 PROVE  \E x \in S : Cardinality(Below(R, S, x)) = 0
    OBVIOUS
  <2>2. S # {}
    BY <2>1, FS_EmptySet
  <2>3. PICK x \in S : \A y \in S : y = x \/ <<x, y>> \in R
    BY <2>2, LeastOf
  <2>4. Below(R, S, x) = {}
    BY <2>3 DEF Below, Order
  <2> QED BY <2>4, FS_EmptySet
<1>4. ASSUME NEW m \in Nat, m \in T
      PROVE  m + 1 \in T
  <2>1. SUFFICES ASSUME m + 1 < Cardinality(S)
                 PROVE  \E x \in S : Cardinality(Below(R, S, x)) = m + 1
    OBVIOUS
  <2>2. PICK x \in S : Cardinality(Below(R, S, x)) = m
    BY <1>1, <1>4, <2>1
  <2> DEFINE U == {y \in S : <<x, y>> \in R}
             B == Below(R, S, x) \cup {x}
  <2>3. Cardinality(B) = m + 1
    <3>1. x \notin Below(R, S, x)
      BY DEF Below, Order
    <3> QED BY <1>2, <2>2, <3>1, FS_AddElement
  <2>4. U # {}
    <3>1. \A y \in S : y \in B \/ y \in U
      BY DEF Order, Below
    <3>2. U = {} => S = B
      BY <3>1 DEF Below
    <3> HIDE DEF B, U
    <3> QED BY <1>1, <2>1, <2>3, <3>2
  <2>5. PICK u \in U : \A y \in U : y = u \/ <<u, y>> \in R
    <3>1. U \in SUBSET S
      OBVIOUS
    <3> HIDE DEF U
    <3> QED BY <2>4, <3>1, LeastOf
  <2>6. Below(R, S, u) = B
    <3>1. \A y \in Below(R, S, u) : y \in B
      <4>1. ASSUME NEW y \in Below(R, S, u), y \notin B
            PROVE  FALSE
        <5>1. y \in S /\ <<y, u>> \in R /\ <<x, y>> \in R
          BY <4>1 DEF Below, Order
        <5>2. y = u \/ <<u, y>> \in R
          BY <2>5, <5>1
        <5> QED BY <5>1, <5>2 DEF Order
      <4> QED BY <4>1
    <3>2. \A y \in B : y \in Below(R, S, u)
      BY DEF Below, Order
    <3> QED BY <3>1, <3>2
  <2> QED BY <2>3, <2>5, <2>6
<1>5. Nat \subseteq T
  <2> HIDE DEF T
  <2> QED BY <1>3, <1>4, Induction
<1>6. n - 1 \in T /\ n - 1 < Cardinality(S)
  BY <1>1, <1>5
<1> QED BY <1>6

\* A higher rank comes later.
LEMMA RankUp ==
    ASSUME NEW S, IsFiniteSet(S), NEW R, Order(R, S), NEW x \in S, NEW y \in S,
           NEW m \in Int, NEW n \in Int, m < n,
           Cardinality(Below(R, S, x)) = m, Cardinality(Below(R, S, y)) = n
    PROVE  <<x, y>> \in R
<1> SUFFICES ASSUME <<x, y>> \notin R
             PROVE  FALSE
  OBVIOUS
<1>1. x = y \/ <<y, x>> \in R
  BY DEF Order
<1>2. Below(R, S, y) \in SUBSET Below(R, S, x)
  BY <1>1 DEF Below, Order
<1>3. Below(R, S, x) \subseteq S
  BY DEF Below
<1>4. IsFiniteSet(Below(R, S, x))
  BY <1>3, FS_Subset
<1>5. n <= m
  BY <1>2, <1>4, FS_Subset
<1> QED BY <1>5

-----------------------------------------------------------------------------
(* The slots at some positions.                                              *)

Prior(S, i) == {j \in S : j < i}

LEMMA SlotsAtFacts ==
    ASSUME NEW T, NEW slots \in Seq(T), NEW S \in SUBSET DOMAIN slots
    PROVE  /\ Cardinality(S) \in Nat
           /\ SlotsAt(slots, S) \in Seq(T)
           /\ Len(SlotsAt(slots, S)) = Cardinality(S)
           /\ \A n \in 1..Cardinality(S) :
                  \E i \in S : /\ SlotsAt(slots, S)[n] = slots[i]
                               /\ Cardinality(Prior(S, i)) = n - 1
<1> DEFINE R == {p \in S \X S : p[1] < p[2]}
           N == Cardinality(S)
           order == [n \in 1..N |-> CHOOSE x \in S : Cardinality({y \in S : y < x}) = n - 1]
<1>1. IsFiniteSet(S) /\ S \subseteq Nat /\ DOMAIN slots = 1..Len(slots)
  <2>1. Len(slots) \in Nat /\ DOMAIN slots = 1..Len(slots)
    OBVIOUS
  <2>2. IsFiniteSet(1..Len(slots))
    BY <2>1, FS_Interval
  <2> QED BY <2>1, <2>2, FS_Subset
<1>2. N \in Nat
  BY <1>1, FS_CardinalityType
<1>3. Order(R, S)
  <2>1. \A x, y \in S : <<x, y>> \in R <=> x < y
    OBVIOUS
  <2> HIDE DEF R
  <2> QED BY <1>1, <2>1 DEF Order
<1>4. \A x \in S : Below(R, S, x) = {y \in S : y < x}
  BY DEF Below
<1>5. ASSUME NEW n \in 1..N
      PROVE  order[n] \in S /\ Cardinality({y \in S : y < order[n]}) = n - 1
  <2> HIDE DEF R
  <2>1. \E x \in S : Cardinality(Below(R, S, x)) = n - 1
    BY <1>1, <1>3, Ranked
  <2>2. \E x \in S : Cardinality({y \in S : y < x}) = n - 1
    BY <1>4, <2>1
  <2> QED BY <2>2
<1>6. SlotsAt(slots, S) = [n \in 1..N |-> slots[order[n]]]
  BY DEF SlotsAt, Sorted
<1> HIDE DEF order, N
<1>7. \A n \in 1..N : SlotsAt(slots, S)[n] = slots[order[n]] /\ slots[order[n]] \in T
  <2>1. \A i \in S : slots[i] \in T
    BY <1>1
  <2> QED BY <1>5, <1>6, <2>1
<1>8. SlotsAt(slots, S) \in Seq(T) /\ Len(SlotsAt(slots, S)) = N
  BY <1>2, <1>6, <1>7
<1>9. \A n \in 1..N : Cardinality(Prior(S, order[n])) = n - 1
  BY <1>5 DEF Prior
<1> QED BY <1>2, <1>5, <1>7, <1>8, <1>9 DEF N

-----------------------------------------------------------------------------
(* Layouts.  The base slots of a table come first, of the classes that its   *)
(* configuration gives them, and the super slots follow.                     *)

Layout(c, slots) ==
    /\ c.count <= Len(slots)
    /\ \A i \in 1..c.count : slots[i].class = ClassAt(c, i)
    /\ \A i \in DOMAIN slots : i > c.count => IsSuper(slots[i])

\* Super slots are in the order of their source and target.
Ahead(s, t) == \/ s.host[1] < t.host[1]
               \/ s.host[1] = t.host[1] /\ s.target < t.target

InLine(c, slots) ==
    \A i \in DOMAIN slots : i > c.count =>
        /\ slots[i].host[1] # None
        /\ \A j \in DOMAIN slots : j > i => Ahead(slots[i], slots[j])

LEMMA Classes ==
    /\ \A c \in Configs : c.count \in Nat
    /\ \A c, i : ClassAt(c, i) \in {"anchor", "diverse"}
    /\ \A c, i : EmptySlot(ClassAt(c, i)) \in SlotType
<1>1. \A c, i : ClassAt(c, i) \in {"anchor", "diverse"}
  BY DEF ClassAt
<1>2. \A class \in {"anchor", "diverse"} : EmptySlot(class) \in SlotType
  <2>1. <<None, None>> \in [Side -> Hosts \cup {None}]
    BY DEF Side
  <2>2. <<Unfilled, Unfilled>> \in [Side -> Unfilled..AnyUse]
    BY DEF Side, Unfilled, AnyUse
  <2> QED BY <2>1, <2>2 DEF EmptySlot, SlotType
<1> QED BY <1>1, <1>2, ConfigAssumption

LEMMA SeqDomain ==
    ASSUME NEW T, NEW s \in Seq(T)
    PROVE  Len(s) \in Nat /\ DOMAIN s = 1..Len(s) /\ \A i \in DOMAIN s : s[i] \in T
  OBVIOUS

LEMMA BaseLayout ==
    ASSUME NEW c \in Configs, NEW slots \in Seq(SlotType), Layout(c, slots)
    PROVE  {i \in DOMAIN slots : IsBase(slots[i])} = 1..c.count
<1>1. DOMAIN slots = 1..Len(slots) /\ Len(slots) \in Nat /\ c.count \in Nat
  BY Classes
<1>2. ASSUME NEW i \in DOMAIN slots
      PROVE  IsBase(slots[i]) <=> i \in 1..c.count
  <2>1. CASE i \in 1..c.count
    BY <2>1, Classes DEF Layout, IsBase
  <2>2. CASE i \notin 1..c.count
    BY <1>1, <2>2 DEF Layout, IsBase, IsSuper
  <2> QED BY <2>1, <2>2
<1> QED BY <1>1, <1>2 DEF Layout

LEMMA BasesFacts ==
    ASSUME NEW c \in Configs, NEW slots \in Seq(SlotType), Layout(c, slots)
    PROVE  /\ Bases(slots) \in Seq(SlotType) /\ Len(Bases(slots)) = c.count
           /\ \A i \in 1..c.count : Bases(slots)[i] = slots[i]
           /\ Layout(c, Bases(slots))
<1> DEFINE S == {i \in DOMAIN slots : IsBase(slots[i])}
           b == SlotsAt(slots, S)
<1>1. S = 1..c.count /\ c.count \in Nat
  BY BaseLayout, Classes
<1>2. Cardinality(1..c.count) = c.count
  BY <1>1, FS_Interval
<1>3. /\ b \in Seq(SlotType) /\ Len(b) = c.count
      /\ \A n \in 1..c.count :
             \E i \in S : /\ b[n] = slots[i]
                          /\ Cardinality(Prior(S, i)) = n - 1
  <2>1. S \in SUBSET DOMAIN slots
    OBVIOUS
  <2> HIDE DEF S
  <2>2. /\ b \in Seq(SlotType) /\ Len(b) = Cardinality(S)
        /\ \A n \in 1..Cardinality(S) :
               \E i \in S : /\ b[n] = slots[i]
                            /\ Cardinality(Prior(S, i)) = n - 1
    BY <2>1, SlotsAtFacts
  <2>3. Cardinality(S) = c.count
    BY <1>1, <1>2
  <2> QED BY <2>2, <2>3
<1> HIDE DEF b
<1>4. ASSUME NEW n \in 1..c.count
      PROVE  b[n] = slots[n]
  <2>1. PICK i \in S : b[n] = slots[i] /\ Cardinality(Prior(S, i)) = n - 1
    BY <1>3
  <2>2. i \in 1..c.count /\ Prior(S, i) = 1..(i - 1)
    BY <1>1 DEF Prior
  <2>3. Cardinality(1..(i - 1)) = i - 1
    BY <1>1, <2>2, FS_Interval
  <2>4. Cardinality(1..(i - 1)) = n - 1
    BY <1>1, <2>1, <2>2
  <2>5. i = n
    BY <1>1, <2>2, <2>3, <2>4
  <2> QED BY <2>1, <2>5
<1>5. Layout(c, b)
  BY <1>1, <1>3, <1>4 DEF Layout
<1>6. Bases(slots) = b
  BY DEF Bases, b
<1> QED BY <1>3, <1>4, <1>5, <1>6

LEMMA SupersFacts ==
    ASSUME NEW slots \in Seq(SlotType)
    PROVE  /\ Supers(slots) \in Seq(SlotType)
           /\ Len(Supers(slots)) = Cardinality({i \in DOMAIN slots : IsSuper(slots[i])})
           /\ \A i \in DOMAIN Supers(slots) : IsSuper(Supers(slots)[i])
<1> DEFINE S == {i \in DOMAIN slots : IsSuper(slots[i])}
<1>1. /\ SlotsAt(slots, S) \in Seq(SlotType)
      /\ Len(SlotsAt(slots, S)) = Cardinality(S)
      /\ \A n \in 1..Cardinality(S) : \E i \in S : SlotsAt(slots, S)[n] = slots[i]
  <2>1. S \in SUBSET DOMAIN slots
    OBVIOUS
  <2> HIDE DEF S
  <2> QED BY <2>1, SlotsAtFacts
<1>2. Supers(slots) = SlotsAt(slots, S)
  BY DEF Supers
<1>3. \A i \in S : IsSuper(slots[i])
  OBVIOUS
<1> HIDE DEF S
<1>4. DOMAIN SlotsAt(slots, S) = 1..Cardinality(S)
  BY <1>1, SeqDomain
<1> QED BY <1>1, <1>2, <1>3, <1>4 DEF S

LEMMA Joined ==
    ASSUME NEW c \in Configs, NEW b \in Seq(SlotType), NEW s \in Seq(SlotType),
           Len(b) = c.count, \A i \in 1..c.count : b[i].class = ClassAt(c, i),
           \A i \in DOMAIN s : IsSuper(s[i])
    PROVE  /\ b \o s \in Seq(SlotType) /\ Layout(c, b \o s)
           /\ Len(b \o s) = c.count + Len(s)
           /\ \A i \in 1..c.count : (b \o s)[i] = b[i]
           /\ \A i \in DOMAIN (b \o s) : i > c.count =>
                  i - c.count \in DOMAIN s /\ (b \o s)[i] = s[i - c.count]
<1>1. c.count \in Nat /\ Len(s) \in Nat /\ DOMAIN s = 1..Len(s)
  BY Classes
<1>2. /\ b \o s \in Seq(SlotType) /\ Len(b \o s) = c.count + Len(s)
      /\ \A i \in 1..c.count : (b \o s)[i] = b[i]
  BY <1>1
<1>3. \A j \in c.count + 1..c.count + Len(s) : (b \o s)[j] = s[j - c.count]
  BY <1>1, SMTT(30)
<1>4. ASSUME NEW i \in DOMAIN (b \o s), i > c.count
      PROVE  /\ IsSuper((b \o s)[i])
             /\ i - c.count \in DOMAIN s /\ (b \o s)[i] = s[i - c.count]
  <2>1. i \in c.count + 1..c.count + Len(s) /\ i - c.count \in DOMAIN s
    BY <1>1, <1>2, <1>4
  <2> QED BY <1>3, <2>1
<1>5. c.count <= Len(b \o s)
  BY <1>1, <1>2
<1> QED BY <1>2, <1>4, <1>5 DEF Layout

LEMMA ResizeFacts ==
    ASSUME NEW c \in Configs, NEW slots \in Seq(SlotType)
    PROVE  /\ Resize(c, slots) \in Seq(SlotType) /\ Layout(c, Resize(c, slots))
           /\ Len(Resize(c, slots)) = c.count + Len(Supers(slots))
           /\ \A i \in 1..c.count :
                  IF Layout(c, slots) THEN Resize(c, slots)[i] = slots[i]
                  ELSE slots = <<>> => Resize(c, slots)[i] = EmptySlot(ClassAt(c, i))
<1> DEFINE base == Bases(slots)
           At(i) == IF i <= Len(base) /\ base[i].class = ClassAt(c, i)
                    THEN base[i] ELSE EmptySlot(ClassAt(c, i))
           b == [i \in 1..c.count |-> At(i)]
<1>1. base \in Seq(SlotType) /\ Len(base) = Cardinality({i \in DOMAIN slots : IsBase(slots[i])})
  <2> DEFINE S == {i \in DOMAIN slots : IsBase(slots[i])}
  <2>1. S \in SUBSET DOMAIN slots
    OBVIOUS
  <2>2. base = SlotsAt(slots, S)
    BY DEF Bases
  <2> HIDE DEF S, base
  <2>3. SlotsAt(slots, S) \in Seq(SlotType) /\ Len(SlotsAt(slots, S)) = Cardinality(S)
    BY <2>1, SlotsAtFacts
  <2> QED BY <2>2, <2>3 DEF S
<1>2. c.count \in Nat
  BY Classes
<1> HIDE DEF base
<1>3. \A i \in 1..c.count : At(i) \in SlotType /\ At(i).class = ClassAt(c, i)
  <2>1. \A i \in 1..c.count : i <= Len(base) => base[i] \in SlotType
    BY <1>1, <1>2
  <2>2. \A i : EmptySlot(ClassAt(c, i)).class = ClassAt(c, i)
    BY DEF EmptySlot
  <2> QED BY <2>1, <2>2, Classes
<1>4. b \in Seq(SlotType) /\ Len(b) = c.count /\ \A i \in 1..c.count : b[i] = At(i)
  BY <1>2, <1>3
<1>5. Resize(c, slots) = b \o Supers(slots)
  BY DEF Resize, base
<1>6. ASSUME NEW i \in 1..c.count, Layout(c, slots)
      PROVE  At(i) = slots[i]
  BY <1>2, <1>6, BasesFacts DEF base, Layout
<1>7. ASSUME NEW i \in 1..c.count, slots = <<>>
      PROVE  At(i) = EmptySlot(ClassAt(c, i))
  <2>1. {j \in DOMAIN slots : IsBase(slots[j])} = {}
    BY <1>7
  <2>2. Len(base) = 0
    BY <1>1, <2>1, FS_EmptySet
  <2> QED BY <2>2
<1> HIDE DEF b, At
<1>8. /\ b \o Supers(slots) \in Seq(SlotType) /\ Layout(c, b \o Supers(slots))
      /\ Len(b \o Supers(slots)) = c.count + Len(Supers(slots))
      /\ \A i \in 1..c.count : (b \o Supers(slots))[i] = b[i]
  <2>1. Supers(slots) \in Seq(SlotType)
        /\ \A i \in DOMAIN Supers(slots) : IsSuper(Supers(slots)[i])
    BY SupersFacts
  <2>2. \A i \in 1..c.count : b[i].class = ClassAt(c, i)
    BY <1>3, <1>4
  <2>3. b \in Seq(SlotType) /\ Len(b) = c.count
    BY <1>4
  <2> QED BY <2>1, <2>2, <2>3, Joined
<1> QED BY <1>4, <1>5, <1>6, <1>7, <1>8

-----------------------------------------------------------------------------
(* The stages before the scanner.                                            *)

InputOK(in) ==
    /\ DOMAIN in.inv \subseteq Hosts /\ in.eligible \subseteq Hosts
    /\ in.cfg \in Configs /\ in.topo \in Configs

PairingsOK(ps) ==
    /\ DOMAIN ps \subseteq Keys
    /\ \A k \in DOMAIN ps : ps[k] \in PairingType

\* The base slots of a table of layout c are those of another.
SameBase(c, s, t) == \A i \in 1..c.count : t[i] = s[i]

LEMMA DiffFacts ==
    ASSUME NEW in, InputOK(in), NEW ps, PairingsOK(ps)
    PROVE  LET q == DiffPairings(in, ps) IN
           /\ PairingsOK(q)
           /\ Wanted(in) \subseteq DOMAIN q
           /\ \A k \in Wanted(in) :
                  /\ IsActive(q[k]) /\ Layout(in.cfg, q[k].slots)
                  /\ IF k \in DOMAIN ps
                     THEN Layout(in.cfg, ps[k].slots) =>
                              SameBase(in.cfg, ps[k].slots, q[k].slots)
                     ELSE \A i \in 1..in.cfg.count :
                              q[k].slots[i] = EmptySlot(ClassAt(in.cfg, i))
           /\ \A k \in DOMAIN q \ Wanted(in) :
                  /\ k \in DOMAIN ps /\ ~IsActive(q[k]) /\ q[k].slots = ps[k].slots
                  /\ in.cfg.hold > 0 => q[k].left # 0
<1> DEFINE q == DiffPairings(in, ps)
           old(k) == IF k \in DOMAIN ps THEN ps[k].slots ELSE <<>>
<1>1. Wanted(in) \subseteq Keys
  BY ConfigAssumption DEF Wanted, InputOK, Keys
<1>2. /\ DOMAIN q = Wanted(in) \cup (DOMAIN ps \ Expired(in, ps))
      /\ \A k \in Wanted(in) : q[k] = [slots |-> Resize(in.cfg, old(k)), left |-> Never]
      /\ \A k \in DOMAIN q \ Wanted(in) :
             q[k] = [ps[k] EXCEPT !.left = IF @ = Never THEN in.cfg.hold ELSE @]
  BY DEF DiffPairings
<1>3. ASSUME NEW k
      PROVE  old(k) \in Seq(SlotType)
  BY DEF PairingsOK, PairingType
<1> HIDE DEF q, old
<1>4. ASSUME NEW k \in Wanted(in)
      PROVE  /\ q[k] \in PairingType /\ IsActive(q[k]) /\ Layout(in.cfg, q[k].slots)
             /\ IF k \in DOMAIN ps
                THEN Layout(in.cfg, ps[k].slots) =>
                         SameBase(in.cfg, ps[k].slots, q[k].slots)
                ELSE \A i \in 1..in.cfg.count :
                         q[k].slots[i] = EmptySlot(ClassAt(in.cfg, i))
  <2>1. in.cfg \in Configs /\ q[k] = [slots |-> Resize(in.cfg, old(k)), left |-> Never]
    BY <1>2 DEF InputOK
  <2>2. /\ Resize(in.cfg, old(k)) \in Seq(SlotType)
        /\ Layout(in.cfg, Resize(in.cfg, old(k)))
        /\ \A i \in 1..in.cfg.count :
               IF Layout(in.cfg, old(k)) THEN Resize(in.cfg, old(k))[i] = old(k)[i]
               ELSE old(k) = <<>> =>
                        Resize(in.cfg, old(k))[i] = EmptySlot(ClassAt(in.cfg, i))
    BY <1>3, <2>1, ResizeFacts
  <2>3. q[k] \in PairingType /\ IsActive(q[k])
    BY <2>1, <2>2 DEF PairingType, IsActive
  <2>4. CASE k \in DOMAIN ps
    BY <2>1, <2>2, <2>3, <2>4 DEF SameBase, old
  <2>5. CASE k \notin DOMAIN ps
    <3>1. old(k) = <<>> /\ ~Layout(in.cfg, <<>>)
      <4>1. in.cfg.count \in Nat \ {0}
        BY <2>1, ConfigAssumption
      <4> QED BY <2>5, <4>1 DEF Layout, old
    <3> QED BY <2>1, <2>2, <2>3, <2>5, <3>1
  <2> QED BY <2>4, <2>5
<1>5. ASSUME NEW k \in DOMAIN q \ Wanted(in)
      PROVE  /\ q[k] \in PairingType
             /\ k \in DOMAIN ps /\ ~IsActive(q[k]) /\ q[k].slots = ps[k].slots
             /\ in.cfg.hold > 0 => q[k].left # 0
  <2>1. k \in DOMAIN ps /\ ps[k] \in PairingType /\ in.cfg.hold \in Nat
    BY <1>2, ConfigAssumption DEF PairingsOK, InputOK
  <2>2. q[k] = [ps[k] EXCEPT !.left = IF @ = Never THEN in.cfg.hold ELSE @]
    BY <1>2
  <2>3. ps[k].left # 0
    BY <1>2, <2>1 DEF Expired
  <2> QED BY <2>1, <2>2, <2>3 DEF PairingType, IsActive, Never
<1>6. PairingsOK(q)
  BY <1>1, <1>2, <1>4, <1>5 DEF PairingsOK
<1> QED BY <1>2, <1>4, <1>5, <1>6 DEF q

\* What validateSides makes of the slots of one pairing.
Checked(in, k, s, t) ==
    /\ Len(t) = Len(s)
    /\ \A i \in DOMAIN s :
           /\ t[i].class = s[i].class
           /\ \A d \in Side : t[i].host[d] = IF Valid(in, k[d], s[i].host[d])
                                             THEN s[i].host[d] ELSE None

LEMMA ValidateFacts ==
    ASSUME NEW in, NEW ps, PairingsOK(ps)
    PROVE  LET q == ValidateSides(in, ps) IN
           /\ PairingsOK(q) /\ DOMAIN q = DOMAIN ps
           /\ \A k \in DOMAIN ps :
                  /\ q[k].left = ps[k].left
                  /\ IF IsActive(ps[k]) THEN Checked(in, k, ps[k].slots, q[k].slots)
                     ELSE q[k] = ps[k]
<1> DEFINE q == ValidateSides(in, ps)
           Check(k, slot) ==
               [slot EXCEPT
                   !.host = [s \in Side |-> IF Valid(in, k[s], @[s])
                                            THEN @[s] ELSE None],
                   !.rank = [s \in Side |-> IF Valid(in, k[s], slot.host[s])
                                            THEN @[s] ELSE Unfilled]]
<1>1. /\ DOMAIN q = DOMAIN ps
      /\ \A k \in DOMAIN ps :
             q[k] = IF IsActive(ps[k])
                    THEN [ps[k] EXCEPT !.slots = [i \in DOMAIN @ |-> Check(k, @[i])]]
                    ELSE ps[k]
  BY DEF ValidateSides, OnActive
<1>2. ASSUME NEW k, NEW slot \in SlotType
      PROVE  /\ Check(k, slot) \in SlotType /\ Check(k, slot).class = slot.class
             /\ \A d \in Side : Check(k, slot).host[d] =
                    IF Valid(in, k[d], slot.host[d]) THEN slot.host[d] ELSE None
  <2>1. Unfilled \in Unfilled..AnyUse
    BY DEF Unfilled, AnyUse
  <2> QED BY <2>1 DEF SlotType
<1> HIDE DEF q, Check
<1>3. ASSUME NEW k \in DOMAIN ps, IsActive(ps[k])
      PROVE  /\ q[k] \in PairingType /\ q[k].left = ps[k].left
             /\ Checked(in, k, ps[k].slots, q[k].slots)
  <2>1. ps[k] \in PairingType
    BY DEF PairingsOK
  <2> DEFINE s == ps[k].slots
             t == [i \in DOMAIN s |-> Check(k, s[i])]
  <2>2. s \in Seq(SlotType) /\ ps[k].left \in Nat \cup {Never}
    BY <2>1 DEF PairingType
  <2>3. t \in Seq(SlotType) /\ Len(t) = Len(s)
    <3>1. Len(s) \in Nat /\ DOMAIN s = 1..Len(s) /\ \A i \in DOMAIN s : s[i] \in SlotType
      BY <2>2, SeqDomain
    <3>2. \A i \in 1..Len(s) : Check(k, s[i]) \in SlotType
      BY <1>2, <3>1
    <3> QED BY <3>1, <3>2
  <2>4. q[k].slots = t /\ q[k].left = ps[k].left /\ q[k] = [slots |-> t, left |-> ps[k].left]
    BY <1>1, <1>3, <2>1 DEF PairingType
  <2>5. \A i \in DOMAIN s : s[i] \in SlotType /\ t[i] = Check(k, s[i])
    BY <2>2
  <2> HIDE DEF t
  <2>6. Checked(in, k, s, t)
    BY <1>2, <2>3, <2>5 DEF Checked
  <2> QED BY <2>2, <2>3, <2>4, <2>6 DEF PairingType
<1>4. PairingsOK(q)
  BY <1>1, <1>3 DEF PairingsOK
<1> QED BY <1>1, <1>3, <1>4 DEF q

LEMMA SuperPairsFacts ==
    ASSUME NEW in, InputOK(in), NEW supers, NEW k
    PROVE  /\ SuperPairs(in, supers, k) \subseteq Hosts \X Hosts
           /\ IsFiniteSet(SuperPairs(in, supers, k))
<1>1. \A S, n : FirstN(S, n) \subseteq S
  BY DEF FirstN
<1>2. \A z : Members(in, z) \cap in.eligible \subseteq Hosts
  BY DEF InputOK
<1> DEFINE To(src, z) == FirstN({h \in Members(in, z) \cap in.eligible : h # src},
                                in.cfg.superMax)
           Fan(y, z) == UNION {{<<src, dst>> : dst \in To(src, z)} :
                               src \in SupersOf(supers, y) \cap in.eligible}
<1>3. \A src, z : To(src, z) \subseteq Hosts
  BY <1>1, <1>2
<1>4. SuperPairs(in, supers, k) = Fan(k[1], k[2]) \cup Fan(k[2], k[1])
  BY DEF SuperPairs
<1> HIDE DEF To
<1>5. \A y, z : Fan(y, z) \subseteq Hosts \X Hosts
  BY <1>3 DEF InputOK
<1>6. SuperPairs(in, supers, k) \subseteq Hosts \X Hosts
  BY <1>4, <1>5
<1> QED BY <1>6, HostAssumption, FS_Product, FS_Subset

LEMMA UpdateSuperFacts ==
    ASSUME NEW in, InputOK(in), NEW supers, NEW k,
           NEW slots \in Seq(SlotType), Layout(in.cfg, slots)
    PROVE  /\ UpdateSuper(in, supers, k, slots) \in Seq(SlotType)
           /\ Layout(in.cfg, UpdateSuper(in, supers, k, slots))
           /\ SameBase(in.cfg, slots, UpdateSuper(in, supers, k, slots))
           /\ InLine(in.cfg, UpdateSuper(in, supers, k, slots))
<1> DEFINE P == SuperPairs(in, supers, k)
           N == Cardinality(P)
           Lex(p, q) == p[1] < q[1] \/ (p[1] = q[1] /\ p[2] < q[2])
           R == {e \in P \X P : Lex(e[1], e[2])}
           pairs == [n \in 1..N |-> CHOOSE p \in P : Cardinality({q \in P : Lex(q, p)}) = n - 1]
           old == {slots[i] : i \in {j \in DOMAIN slots : IsSuper(slots[j])}}
           Same(p) == {s \in old : s.host[1] = p[1] /\ s.target = p[2]}
           At(p) == IF Same(p) = {} THEN SuperSlot(p[1], p[2])
                    ELSE CHOOSE s \in Same(p) : TRUE
           supSlots == [n \in 1..N |-> At(pairs[n])]
<1>1. P \subseteq Hosts \X Hosts /\ IsFiniteSet(P) /\ N \in Nat
  BY SuperPairsFacts, FS_CardinalityType
<1>2. Order(R, P)
  <2>1. \A p \in P : p[1] \in Nat /\ p[2] \in Nat /\ p = <<p[1], p[2]>>
    BY <1>1, HostAssumption
  <2>2. \A p, q \in P : <<p, q>> \in R <=> Lex(p, q)
    OBVIOUS
  <2> HIDE DEF R, P
  <2>3. \A p \in P : ~Lex(p, p)
    BY <2>1
  <2>4. \A p, q, r \in P : Lex(p, q) /\ Lex(q, r) => Lex(p, r)
    BY <2>1
  <2>5. \A p, q \in P : p = q \/ Lex(p, q) \/ Lex(q, p)
    <3> SUFFICES ASSUME NEW p \in P, NEW q \in P, ~Lex(p, q), ~Lex(q, p)
                 PROVE  p = q
      OBVIOUS
    <3>1. p[1] = q[1] /\ p[2] = q[2]
      BY <2>1
    <3> QED BY <2>1, <3>1
  <2> QED BY <2>2, <2>3, <2>4, <2>5 DEF Order
<1>3. ASSUME NEW n \in 1..N
      PROVE  pairs[n] \in P /\ Cardinality(Below(R, P, pairs[n])) = n - 1
  <2>1. \A p \in P : Below(R, P, p) = {q \in P : Lex(q, p)}
    BY DEF Below
  <2>2. \E p \in P : Cardinality(Below(R, P, p)) = n - 1
    <3> HIDE DEF R, P
    <3> QED BY <1>1, <1>2, Ranked
  <2>3. \E p \in P : Cardinality({q \in P : Lex(q, p)}) = n - 1
    BY <2>1, <2>2
  <2> QED BY <2>1, <2>3
<1>11. ASSUME NEW m \in 1..N, NEW n \in 1..N, m < n
       PROVE  Lex(pairs[m], pairs[n])
  <2> DEFINE p == pairs[m]
             q == pairs[n]
  <2>1. /\ p \in P /\ Cardinality(Below(R, P, p)) = m - 1
        /\ q \in P /\ Cardinality(Below(R, P, q)) = n - 1
    BY <1>3
  <2> HIDE DEF p, q
  <2>2. <<p, q>> \in R
    <3> HIDE DEF R, P
    <3> QED BY <1>1, <1>2, <1>11, <2>1, RankUp
  <2>3. Lex(p, q)
    BY <2>2
  <2> QED BY <2>3 DEF p, q
<1>4. ASSUME NEW p \in P
      PROVE  /\ At(p) \in SlotType /\ IsSuper(At(p))
             /\ At(p).host[1] = p[1] /\ At(p).target = p[2] /\ p[1] # None
  <2>1. p[1] \in Hosts /\ p[2] \in Hosts /\ p[1] # None
    BY <1>1, HostAssumption
  <2>2. LET s == SuperSlot(p[1], p[2]) IN
        s \in SlotType /\ IsSuper(s) /\ s.host[1] = p[1] /\ s.target = p[2]
    <3>1. <<p[1], p[2]>> \in [Side -> Hosts \cup {None}]
      BY <2>1 DEF Side
    <3>2. <<Unique, Unique>> \in [Side -> Unfilled..AnyUse]
      BY DEF Side, Unique, Unfilled, AnyUse
    <3> QED BY <2>1, <3>1, <3>2 DEF SuperSlot, SlotType, IsSuper
  <2>3. \A s \in old : s \in SlotType /\ IsSuper(s)
    BY SeqDomain
  <2>4. \A s \in Same(p) : s \in old /\ s.host[1] = p[1] /\ s.target = p[2]
    OBVIOUS
  <2> HIDE DEF Same, old
  <2>5. CASE Same(p) = {}
    BY <2>1, <2>2, <2>5
  <2>6. CASE Same(p) # {}
    <3>1. At(p) \in Same(p)
      BY <2>6
    <3> HIDE DEF At
    <3> QED BY <2>1, <2>3, <2>4, <3>1
  <2> QED BY <2>5, <2>6
<1>5. UpdateSuper(in, supers, k, slots) = Bases(slots) \o supSlots
  BY DEF UpdateSuper, Sorted
<1>6. /\ supSlots \in Seq(SlotType) /\ \A i \in DOMAIN supSlots : IsSuper(supSlots[i])
      /\ \A i \in DOMAIN supSlots : supSlots[i].host[1] # None
      /\ \A i, j \in DOMAIN supSlots : i < j => Ahead(supSlots[i], supSlots[j])
  <2> HIDE DEF At, pairs, P, N
  <2>1. \A n \in 1..N : /\ At(pairs[n]) \in SlotType /\ IsSuper(At(pairs[n]))
                        /\ At(pairs[n]).host[1] = pairs[n][1] /\ pairs[n][1] # None
                        /\ At(pairs[n]).target = pairs[n][2]
    BY <1>3, <1>4
  <2>2. ASSUME NEW m \in 1..N, NEW n \in 1..N, m < n
        PROVE  Ahead(At(pairs[m]), At(pairs[n]))
    BY <1>11, <2>1, <2>2 DEF Ahead
  <2> QED BY <1>1, <2>1, <2>2
<1> HIDE DEF supSlots
<1>7. in.cfg \in Configs
  BY DEF InputOK
<1>8. /\ Bases(slots) \in Seq(SlotType) /\ Len(Bases(slots)) = in.cfg.count
      /\ \A i \in 1..in.cfg.count : Bases(slots)[i] = slots[i]
  BY <1>7, BasesFacts
<1>9. \A i \in 1..in.cfg.count : Bases(slots)[i].class = ClassAt(in.cfg, i)
  BY <1>8 DEF Layout
<1>10. /\ Bases(slots) \o supSlots \in Seq(SlotType)
       /\ Layout(in.cfg, Bases(slots) \o supSlots)
       /\ \A i \in 1..in.cfg.count : (Bases(slots) \o supSlots)[i] = Bases(slots)[i]
       /\ \A i \in DOMAIN (Bases(slots) \o supSlots) : i > in.cfg.count =>
              /\ i - in.cfg.count \in DOMAIN supSlots
              /\ (Bases(slots) \o supSlots)[i] = supSlots[i - in.cfg.count]
  BY <1>6, <1>7, <1>8, <1>9, Joined
<1>12. InLine(in.cfg, Bases(slots) \o supSlots)
  <2> DEFINE u == Bases(slots) \o supSlots
             n == in.cfg.count
  <2>1. u \in Seq(SlotType) /\ n \in Nat
    BY <1>7, <1>10, Classes
  <2>2. \A i \in DOMAIN u : i > n => i - n \in DOMAIN supSlots /\ u[i] = supSlots[i - n]
    BY <1>10
  <2>3. DOMAIN u \subseteq Nat
    BY <2>1
  <2> HIDE DEF u, n
  <2>4. \A i \in DOMAIN u : i > n =>
            /\ u[i].host[1] # None
            /\ \A j \in DOMAIN u : j > i => Ahead(u[i], u[j])
    BY <1>6, <2>1, <2>2, <2>3
  <2> QED BY <2>4 DEF InLine, u, n
<1> QED BY <1>5, <1>8, <1>10, <1>12 DEF SameBase

LEMMA UpdateFacts ==
    ASSUME NEW in, InputOK(in), NEW supers, NEW ps, PairingsOK(ps),
           \A k \in DOMAIN ps : IsActive(ps[k]) => Layout(in.cfg, ps[k].slots)
    PROVE  LET q == UpdateSupers(in, supers, ps) IN
           /\ PairingsOK(q) /\ DOMAIN q = DOMAIN ps
           /\ \A k \in DOMAIN ps :
                  /\ q[k].left = ps[k].left
                  /\ Layout(in.cfg, ps[k].slots) =>
                         /\ Layout(in.cfg, q[k].slots)
                         /\ SameBase(in.cfg, ps[k].slots, q[k].slots)
                         /\ in.cfg.superHosts = 0 => Len(q[k].slots) = in.cfg.count
                         /\ IsActive(ps[k]) \/ InLine(in.cfg, ps[k].slots) =>
                                InLine(in.cfg, q[k].slots)
<1> DEFINE q == UpdateSupers(in, supers, ps)
           New(k) == IF in.cfg.superHosts = 0 THEN Bases(ps[k].slots)
                     ELSE IF IsActive(ps[k]) THEN UpdateSuper(in, supers, k, ps[k].slots)
                     ELSE ps[k].slots
<1>1. in.cfg \in Configs
  BY DEF InputOK
<1>2. \A k \in DOMAIN ps : ps[k] \in PairingType /\ ps[k].slots \in Seq(SlotType)
  BY DEF PairingsOK, PairingType
<1>3. DOMAIN q = DOMAIN ps
  BY DEF UpdateSupers, OnActive
<1>4. ASSUME NEW k \in DOMAIN ps
      PROVE  q[k] = [slots |-> New(k), left |-> ps[k].left]
  <2>1. CASE in.cfg.superHosts = 0
    BY <1>2, <2>1 DEF UpdateSupers, PairingType
  <2>2. CASE in.cfg.superHosts # 0
    BY <1>2, <2>2 DEF UpdateSupers, OnActive, PairingType
  <2> QED BY <2>1, <2>2
<1> HIDE DEF q
<1>5. ASSUME NEW k \in DOMAIN ps
      PROVE  /\ New(k) \in Seq(SlotType)
             /\ Layout(in.cfg, ps[k].slots) =>
                    /\ Layout(in.cfg, New(k))
                    /\ SameBase(in.cfg, ps[k].slots, New(k))
                    /\ in.cfg.superHosts = 0 => Len(New(k)) = in.cfg.count
                    /\ IsActive(ps[k]) \/ InLine(in.cfg, ps[k].slots) =>
                           InLine(in.cfg, New(k))
  <2> DEFINE s == ps[k].slots
  <2>1. s \in Seq(SlotType)
    BY <1>2
  <2>2. Bases(s) \in Seq(SlotType)
    <3> DEFINE S == {i \in DOMAIN s : IsBase(s[i])}
    <3>1. S \in SUBSET DOMAIN s /\ Bases(s) = SlotsAt(s, S)
      BY DEF Bases
    <3> HIDE DEF S, s
    <3> QED BY <2>1, <3>1, SlotsAtFacts
  <2>3. ASSUME Layout(in.cfg, s)
        PROVE  /\ Layout(in.cfg, Bases(s)) /\ SameBase(in.cfg, s, Bases(s))
               /\ Len(Bases(s)) = in.cfg.count /\ InLine(in.cfg, Bases(s))
    <3> HIDE DEF s
    <3>1. /\ Layout(in.cfg, Bases(s)) /\ SameBase(in.cfg, s, Bases(s))
          /\ Len(Bases(s)) = in.cfg.count
      BY <1>1, <2>1, <2>3, BasesFacts DEF SameBase
    <3>2. in.cfg.count \in Nat
      BY <1>1, Classes
    <3>3. \A i \in DOMAIN Bases(s) : ~(i > in.cfg.count)
      BY <2>2, <3>1, <3>2
    <3> QED BY <3>1, <3>3 DEF InLine
  <2>4. ASSUME IsActive(ps[k])
        PROVE  /\ UpdateSuper(in, supers, k, s) \in Seq(SlotType)
               /\ Layout(in.cfg, UpdateSuper(in, supers, k, s))
               /\ SameBase(in.cfg, s, UpdateSuper(in, supers, k, s))
               /\ InLine(in.cfg, UpdateSuper(in, supers, k, s))
    <3>1. Layout(in.cfg, s)
      BY <2>4
    <3> HIDE DEF s
    <3> QED BY <2>1, <3>1, UpdateSuperFacts
  <2>5. SameBase(in.cfg, s, s)
    BY DEF SameBase
  <2> QED BY <2>1, <2>2, <2>3, <2>4, <2>5
<1> HIDE DEF New
<1>6. PairingsOK(q)
  BY <1>2, <1>3, <1>4, <1>5 DEF PairingsOK, PairingType
<1> QED BY <1>3, <1>4, <1>5, <1>6 DEF q

-----------------------------------------------------------------------------
(* The scanner.                                                              *)

LEMMA ScanIn ==
    ASSUME NEW k \in Keys, NEW C, IsFiniteSet(C), NEW Q \in SUBSET C, Q # {}
    PROVE  Scan(k, C, Q) \in Q
<1> DEFINE n == Cardinality(C)
           Pos(h) == Cardinality({g \in C : g < h})
           dist == [h \in C |-> (Pos(h) - Hash[k]) % n]
<1>1. n \in Nat \ {0} /\ Hash[k] \in Nat
  <2>1. n \in Nat /\ n # 0
    BY FS_CardinalityType, FS_EmptySet
  <2> QED BY <2>1, HashAssumption DEF Keys
<1>2. \A h \in C : Pos(h) \in Nat
  <2>1. \A h : {g \in C : g < h} \in SUBSET C
    OBVIOUS
  <2> QED BY <2>1, FS_Subset, FS_CardinalityType
<1>3. \A h \in C : dist[h] \in Nat
  <2>1. \A x \in Int, m \in Nat \ {0} : x % m \in Nat
    OBVIOUS
  <2>2. \A h \in C : Pos(h) - Hash[k] \in Int
    BY <1>1, <1>2
  <2> HIDE DEF n, Pos
  <2> QED BY <1>1, <2>1, <2>2
<1>4. Scan(k, C, Q) = CHOOSE h \in Q : \A g \in Q : dist[h] <= dist[g]
  BY DEF Scan
<1> HIDE DEF dist
<1> DEFINE T == {dist[h] : h \in Q}
<1>5. T \in SUBSET Nat /\ T # {}
  BY <1>3
<1>6. PICK m \in T : \A l \in T : m <= l
  BY <1>5, LeastNat
<1> QED BY <1>4, <1>6

LEMMA CandidatesFacts ==
    ASSUME NEW in, InputOK(in), NEW k, NEW d
    PROVE  /\ Candidates(in, k, d) \subseteq Hosts
           /\ None \notin Candidates(in, k, d)
           /\ IsFiniteSet(Candidates(in, k, d))
<1>1. Candidates(in, k, d) \subseteq Hosts
  BY DEF Candidates, InputOK
<1> QED BY <1>1, HostAssumption, FS_Subset

LEMMA UseCountFacts ==
    ASSUME NEW s \in Seq(SlotType), NEW d, NEW h
    PROVE  /\ UseCount(s, d, h) \in Nat
           /\ UseCount(s, d, h) = 0 <=> \A i \in DOMAIN s : s[i].host[d] # h
<1> DEFINE U == {i \in DOMAIN s : s[i].host[d] = h}
<1>1. IsFiniteSet(U)
  <2>1. Len(s) \in Nat /\ DOMAIN s = 1..Len(s)
    BY SeqDomain
  <2>2. IsFiniteSet(1..Len(s)) /\ U \in SUBSET (1..Len(s))
    BY <2>1, FS_Interval
  <2> QED BY <2>2, FS_Subset
<1>2. Cardinality(U) \in Nat /\ (Cardinality(U) = 0 <=> U = {})
  <2> HIDE DEF U
  <2> QED BY <1>1, FS_CardinalityType, FS_EmptySet
<1>3. UseCount(s, d, h) = Cardinality(U)
  BY DEF UseCount
<1> QED BY <1>2, <1>3

\* A pick is a candidate that is not excluded; without allow_reuse it is on
\* no slot of that side.  There is none only for lack of such hosts.
LEMMA PickFacts ==
    ASSUME NEW in, InputOK(in), NEW k \in Keys, NEW s \in Seq(SlotType), NEW d, NEW X
    PROVE  LET C == Candidates(in, k, d)
               p == Pick(in, k, s, d, X) IN
           /\ p[2] \in Unfilled..AnyUse
           /\ \/ /\ p[1] # None /\ p[1] \in C \ X
                 /\ ~in.topo.reuse => UseCount(s, d, p[1]) = 0
              \/ /\ p[1] = None
                 /\ \/ C \subseteq X
                    \/ /\ ~in.topo.reuse
                       /\ \A h \in C \ X : UseCount(s, d, h) > 0
<1> DEFINE C      == Candidates(in, k, d)
           p      == Pick(in, k, s, d, X)
           free   == C \ X
           Use(h) == UseCount(s, d, h)
           unused == {h \in free : Use(h) = 0}
           least  == {h \in free : \A g \in C : Use(h) <= Use(g)}
<1>1. IsFiniteSet(C) /\ None \notin C
  BY CandidatesFacts
<1>2. \A h : Use(h) \in Nat
  BY UseCountFacts
<1>3. p = IF unused # {} THEN <<Scan(k, C, unused), Unique>>
          ELSE IF ~in.topo.reuse \/ free = {} THEN <<None, Unfilled>>
          ELSE IF least # {} THEN <<Scan(k, C, least), MinUse>>
          ELSE <<Scan(k, C, free), AnyUse>>
  BY DEF Pick
<1>4. unused \in SUBSET C /\ least \in SUBSET C /\ free \in SUBSET C
  OBVIOUS
<1>5. \A Q \in SUBSET C : Q # {} => Scan(k, C, Q) \in Q
  <2> HIDE DEF C
  <2> QED BY <1>1, ScanIn
<1>6. {Unfilled, Unique, MinUse, AnyUse} \subseteq Unfilled..AnyUse
  BY DEF Unfilled, Unique, MinUse, AnyUse
<1>7. p[2] \in Unfilled..AnyUse
  BY <1>3, <1>6
<1>8. CASE unused # {}
  <2>1. p[1] \in unused
    <3>1. p = <<Scan(k, C, unused), Unique>>
      BY <1>3, <1>8
    <3>2. Scan(k, C, unused) \in unused
      <4> HIDE DEF unused, C
      <4> QED BY <1>4, <1>5, <1>8
    <3> HIDE DEF p, unused
    <3> QED BY <3>1, <3>2
  <2> QED BY <1>1, <1>7, <2>1
<1>9. CASE unused = {} /\ ~in.topo.reuse
  <2>1. p[1] = None
    BY <1>3, <1>9
  <2>2. \A h \in free : Use(h) > 0
    <3>1. \A h \in free : Use(h) # 0
      BY <1>9
    <3> HIDE DEF Use, free
    <3> QED BY <1>2, <3>1
  <2> QED BY <1>7, <1>9, <2>1, <2>2
<1>10. CASE unused = {} /\ in.topo.reuse /\ free = {}
  <2>1. p[1] = None /\ C \subseteq X
    BY <1>3, <1>10
  <2> QED BY <1>7, <2>1
<1>11. CASE unused = {} /\ in.topo.reuse /\ free # {}
  <2>1. p[1] \in free
    <3>1. p = IF least # {} THEN <<Scan(k, C, least), MinUse>>
                            ELSE <<Scan(k, C, free), AnyUse>>
      BY <1>3, <1>11
    <3>2. /\ least # {} => Scan(k, C, least) \in least
          /\ Scan(k, C, free) \in free
      <4> HIDE DEF least, free, C
      <4> QED BY <1>4, <1>5, <1>11
    <3>3. least \subseteq free
      OBVIOUS
    <3> HIDE DEF p, least, free
    <3> QED BY <3>1, <3>2, <3>3
  <2> QED BY <1>1, <1>7, <1>11, <2>1
<1>12. in.topo.reuse \in BOOLEAN
  BY ConfigAssumption DEF InputOK
<1> QED BY <1>8, <1>9, <1>10, <1>11, <1>12

LEMMA PickAnchorFacts ==
    ASSUME NEW in, InputOK(in), NEW k \in Keys, NEW s, NEW d, NEW X
    PROVE  LET C == Candidates(in, k, d)
               p == PickAnchor(in, k, s, d, X) IN
           /\ p[2] \in Unfilled..AnyUse
           /\ IF C \subseteq X THEN p[1] = None ELSE p[1] \in C \ X
<1> DEFINE C == Candidates(in, k, d)
<1>1. ~(C \subseteq X) => Scan(k, C, C \ X) \in C \ X
  <2>1. IsFiniteSet(C)
    BY CandidatesFacts
  <2>2. C \ X \in SUBSET C
    OBVIOUS
  <2>3. ~(C \subseteq X) => C \ X # {}
    OBVIOUS
  <2> HIDE DEF C
  <2> QED BY <2>1, <2>2, <2>3, ScanIn
<1>2. {Unfilled, Unique, MinUse} \subseteq Unfilled..AnyUse
  BY DEF Unfilled, Unique, MinUse, AnyUse
<1> QED BY <1>1, <1>2 DEF PickAnchor

-----------------------------------------------------------------------------
(* Filling the sides of one pairing.                                         *)

\* The base slots hold candidates or nothing.
Local(in, k, s) ==
    \A i \in DOMAIN s : IsBase(s[i]) =>
        \A d \in Side : s[i].host[d] = None \/ s[i].host[d] \in Candidates(in, k, d)

\* Hosts stay, and empty sides of base slots may get candidates.
Grown(in, k, s, t) ==
    /\ Len(t) = Len(s)
    /\ \A i \in DOMAIN s :
           /\ t[i].class = s[i].class
           /\ \A d \in Side : \/ t[i].host[d] = s[i].host[d]
                              \/ /\ s[i].host[d] = None
                                 /\ t[i].host[d] \in Candidates(in, k, d)

\* The anchor slots that hold a host on a side hold the same one, and all of
\* them do or none.
HalfAgree(s, d) ==
    \A i, j \in DOMAIN s :
        /\ s[i].class = "anchor" /\ s[j].class = "anchor"
        /\ s[i].host[d] # None /\ s[j].host[d] # None
        => s[i].host[d] = s[j].host[d]

Agree(s, d) ==
    \A i, j \in DOMAIN s :
        s[i].class = "anchor" /\ s[j].class = "anchor" => s[i].host[d] = s[j].host[d]

\* No two diverse slots hold the same host on a side.
Distinct(s, d) ==
    \A i, j \in DOMAIN s :
        (/\ s[i].class = "diverse" /\ s[j].class = "diverse" /\ i # j
         /\ s[i].host[d] # None) => s[i].host[d] # s[j].host[d]

\* A side that is empty is so for lack of hosts.
Settled(in, k, s, i, d) ==
    LET C == Candidates(in, k, d) IN
    IF s[i].host[d] # None THEN s[i].host[d] \in C
    ELSE \/ C \subseteq {s[i].host[3 - d]}
         \/ /\ ~in.topo.reuse /\ s[i].class = "diverse"
            /\ \A h \in C : h # s[i].host[3 - d] => UseCount(s, d, h) > 0

LEMMA GrownFacts ==
    ASSUME NEW in, InputOK(in), NEW k,
           NEW s \in Seq(SlotType), NEW t \in Seq(SlotType), NEW u \in Seq(SlotType)
    PROVE  /\ Grown(in, k, s, s)
           /\ Grown(in, k, s, t) /\ Grown(in, k, t, u) => Grown(in, k, s, u)
           /\ Grown(in, k, s, t) /\ Local(in, k, s) => Local(in, k, t)
           /\ Grown(in, k, s, t) => DOMAIN s = DOMAIN t
<1>1. /\ DOMAIN s = 1..Len(s) /\ DOMAIN t = 1..Len(t) /\ DOMAIN u = 1..Len(u)
  OBVIOUS
<1>2. Grown(in, k, s, s)
  BY DEF Grown
<1>3. Grown(in, k, s, t) => DOMAIN s = DOMAIN t
  BY <1>1 DEF Grown
<1>4. Grown(in, k, s, t) /\ Local(in, k, s) => Local(in, k, t)
  BY <1>3 DEF Grown, Local, IsBase
<1>5. ASSUME Grown(in, k, s, t), Grown(in, k, t, u)
      PROVE  Grown(in, k, s, u)
  <2>1. DOMAIN s = DOMAIN t /\ Len(u) = Len(s)
    BY <1>1, <1>5 DEF Grown
  <2>2. ASSUME NEW i \in DOMAIN s
        PROVE  /\ u[i].class = s[i].class
               /\ \A d \in Side : \/ u[i].host[d] = s[i].host[d]
                                  \/ /\ s[i].host[d] = None
                                     /\ u[i].host[d] \in Candidates(in, k, d)
    <3>1. /\ t[i].class = s[i].class
          /\ \A d \in Side : \/ t[i].host[d] = s[i].host[d]
                             \/ /\ s[i].host[d] = None
                                /\ t[i].host[d] \in Candidates(in, k, d)
      BY <1>5 DEF Grown
    <3>2. /\ u[i].class = t[i].class
          /\ \A d \in Side : \/ u[i].host[d] = t[i].host[d]
                             \/ /\ t[i].host[d] = None
                                /\ u[i].host[d] \in Candidates(in, k, d)
      BY <1>5, <2>1 DEF Grown
    <3>3. \A d : None \notin Candidates(in, k, d)
      BY CandidatesFacts
    <3> QED BY <3>1, <3>2, <3>3
  <2> QED BY <2>1, <2>2 DEF Grown
<1> QED BY <1>2, <1>3, <1>4, <1>5

\* What is settled stays so while hosts stay and empty sides are filled.
LEMMA StaysSettled ==
    ASSUME NEW in, InputOK(in), NEW k,
           NEW s \in Seq(SlotType), NEW t \in Seq(SlotType), Grown(in, k, s, t),
           NEW i \in DOMAIN s, NEW d \in Side, Settled(in, k, s, i, d)
    PROVE  Settled(in, k, t, i, d)
<1> DEFINE C == Candidates(in, k, d)
           e == 3 - d
<1>1. None \notin C /\ e \in Side
  BY CandidatesFacts DEF Side
<1>2. DOMAIN s = DOMAIN t
  BY GrownFacts
<1>3. /\ t[i].class = s[i].class
      /\ t[i].host[d] = s[i].host[d] \/ (s[i].host[d] = None /\ t[i].host[d] \in C)
      /\ t[i].host[e] = s[i].host[e] \/ s[i].host[e] = None
  BY <1>1 DEF Grown
<1>4. ASSUME NEW h \in C, UseCount(s, d, h) > 0
      PROVE  UseCount(t, d, h) > 0
  <2>1. UseCount(s, d, h) # 0
    BY <1>4, UseCountFacts
  <2>2. PICK j \in DOMAIN s : s[j].host[d] = h
    BY <2>1, UseCountFacts
  <2>3. t[j].host[d] = h
    BY <1>1, <2>2 DEF Grown
  <2>4. UseCount(t, d, h) \in Nat /\ UseCount(t, d, h) # 0
    BY <1>2, <2>3, UseCountFacts
  <2> QED BY <2>4
<1> HIDE DEF e, C
<1>5. CASE t[i].host[d] # None
  <2>1. t[i].host[d] \in C
    <3>1. CASE s[i].host[d] = None
      BY <1>3, <1>5, <3>1
    <3>2. CASE s[i].host[d] # None
      <4>1. s[i].host[d] \in C
        BY <3>2 DEF Settled, C
      <4> QED BY <1>3, <4>1
    <3> QED BY <3>1, <3>2
  <2> QED BY <1>5, <2>1 DEF Settled, C
<1>6. CASE t[i].host[d] = None
  <2>1. s[i].host[d] = None
    BY <1>1, <1>3, <1>6
  <2>2. \/ C \subseteq {s[i].host[e]}
        \/ /\ ~in.topo.reuse /\ s[i].class = "diverse"
           /\ \A h \in C : h # s[i].host[e] => UseCount(s, d, h) > 0
    BY <2>1 DEF Settled, C, e
  <2>3. \A h \in C : h # t[i].host[e] => h # s[i].host[e]
    BY <1>1, <1>3
  <2>4. \/ C \subseteq {t[i].host[e]}
        \/ /\ ~in.topo.reuse /\ t[i].class = "diverse"
           /\ \A h \in C : h # t[i].host[e] => UseCount(t, d, h) > 0
    BY <1>3, <1>4, <2>2, <2>3
  <2> QED BY <1>6, <2>4 DEF Settled, C, e
<1> QED BY <1>5, <1>6

LEMMA SetHostFacts ==
    ASSUME NEW slot \in SlotType, NEW d \in Side, NEW h \in Hosts \cup {None},
           NEW r \in Unfilled..AnyUse
    PROVE  LET t == SetHost(slot, d, h, r) IN
           /\ t \in SlotType /\ t.class = slot.class
           /\ t.host[d] = h /\ t.host[3 - d] = slot.host[3 - d]
<1>1. 3 - d \in Side /\ 3 - d # d
  BY DEF Side
<1>2. slot.host \in [Side -> Hosts \cup {None}] /\ slot.rank \in [Side -> Unfilled..AnyUse]
  BY DEF SlotType
<1>3. SetHost(slot, d, h, r) =
         [class |-> slot.class, host |-> [slot.host EXCEPT ![d] = h],
          rank |-> [slot.rank EXCEPT ![d] = r], target |-> slot.target]
  <2>1. slot = [class |-> slot.class, host |-> slot.host,
                rank |-> slot.rank, target |-> slot.target]
    BY <1>2 DEF SlotType
  <2> DEFINE a == [slot EXCEPT !.host[d] = h]
             b == [a EXCEPT !.rank[d] = r]
  <2>2. a = [class |-> slot.class, host |-> [slot.host EXCEPT ![d] = h],
             rank |-> slot.rank, target |-> slot.target]
    BY <2>1
  <2>3. b = [class |-> a.class, host |-> a.host,
             rank |-> [a.rank EXCEPT ![d] = r], target |-> a.target]
    <3> HIDE DEF a
    <3> QED BY <2>2
  <2>4. SetHost(slot, d, h, r) = b
    BY DEF SetHost
  <2> HIDE DEF a, b
  <2> QED BY <2>2, <2>3, <2>4
<1>4. [slot.host EXCEPT ![d] = h] \in [Side -> Hosts \cup {None}]
  BY <1>2
<1>5. [slot.rank EXCEPT ![d] = r] \in [Side -> Unfilled..AnyUse]
  BY <1>2
<1>6. [slot.host EXCEPT ![d] = h][d] = h
  BY <1>2
<1>7. [slot.host EXCEPT ![d] = h][3 - d] = slot.host[3 - d]
  BY <1>1, <1>2
<1> QED BY <1>3, <1>4, <1>5, <1>6, <1>7 DEF SlotType

LEMMA FillAnchorsFacts ==
    ASSUME NEW in, InputOK(in), NEW k \in Keys, NEW s \in Seq(SlotType),
           NEW d \in Side, Local(in, k, s)
    PROVE  LET t == FillAnchors(in, k, s, d) IN
           /\ t \in Seq(SlotType) /\ Grown(in, k, s, t)
           /\ \A i \in DOMAIN s :
                  /\ t[i].host[3 - d] = s[i].host[3 - d]
                  /\ s[i].class # "anchor" => t[i] = s[i]
                  /\ s[i].class = "anchor" /\ t[i].host[d] = None =>
                         \A h \in Candidates(in, k, d) :
                             \E j \in DOMAIN s : /\ s[j].class = "anchor"
                                                 /\ s[j].host[3 - d] = h
           /\ HalfAgree(s, d) => Agree(t, d)
<1> DEFINE t       == FillAnchors(in, k, s, d)
           C       == Candidates(in, k, d)
           anchors == {i \in DOMAIN s : s[i].class = "anchor"}
           Held(e) == {i \in anchors : s[i].host[e] # None}
           far     == IF k[1] = k[2] THEN {s[i].host[3 - d] : i \in Held(3 - d)} ELSE {}
           first   == CHOOSE i \in Held(d) : \A j \in Held(d) : i <= j
           choice  == IF Held(d) # {} THEN <<s[first].host[d], MinUse>>
                      ELSE PickAnchor(in, k, s, d, far)
           h0      == choice[1]
           r0      == choice[2]
<1>1. t = [i \in DOMAIN s |-> IF i \in anchors \ Held(d)
                              THEN SetHost(s[i], d, choice[1], choice[2]) ELSE s[i]]
  BY DEF FillAnchors
<1>2. /\ C \subseteq Hosts /\ None \notin C /\ \A i \in DOMAIN s : s[i] \in SlotType
      /\ DOMAIN s = 1..Len(s) /\ Len(s) \in Nat
  BY CandidatesFacts, SeqDomain
<1>3. ASSUME Held(d) # {}
      PROVE  first \in Held(d) /\ h0 = s[first].host[d] /\ r0 = MinUse
  <2>1. Held(d) \in SUBSET Nat
    BY <1>2
  <2>2. \E i \in Held(d) : \A j \in Held(d) : i <= j
    <3> HIDE DEF Held
    <3> QED BY <1>3, <2>1, LeastNat
  <2>3. first \in Held(d)
    <3> HIDE DEF Held
    <3> QED BY <2>2
  <2> HIDE DEF first, Held
  <2> QED BY <1>3, <2>3
<1>4. ASSUME Held(d) = {}
      PROVE  /\ r0 \in Unfilled..AnyUse
             /\ IF C \subseteq far THEN h0 = None ELSE h0 \in C \ far
  <2>1. choice = PickAnchor(in, k, s, d, far)
    BY <1>4
  <2> HIDE DEF choice, far
  <2> QED BY <2>1, PickAnchorFacts
<1>5. h0 = None \/ h0 \in C
  <2>1. CASE Held(d) # {}
    <3>1. first \in DOMAIN s /\ s[first].class = "anchor"
      BY <1>3, <2>1
    <3>2. IsBase(s[first])
      BY <3>1 DEF IsBase
    <3> HIDE DEF first, choice
    <3> QED BY <1>3, <2>1, <3>1, <3>2 DEF Local
  <2>2. CASE Held(d) = {}
    BY <1>4, <2>2
  <2> QED BY <2>1, <2>2
<1>6. r0 \in Unfilled..AnyUse
  <2>1. MinUse \in Unfilled..AnyUse
    BY DEF MinUse, Unfilled, AnyUse
  <2> QED BY <1>3, <1>4, <2>1
<1>7. h0 = None => Held(d) = {} /\ C \subseteq far
  <2>1. Held(d) # {} => h0 # None
    BY <1>3
  <2> HIDE DEF choice, far, Held
  <2> QED BY <1>2, <1>4, <2>1
<1> HIDE DEF choice, first, t
<1>8. ASSUME NEW i \in anchors \ Held(d)
      PROVE  /\ t[i] \in SlotType /\ t[i].class = s[i].class
             /\ t[i].host[d] = h0 /\ t[i].host[3 - d] = s[i].host[3 - d]
             /\ s[i].host[d] = None
  <2>1. t[i] = SetHost(s[i], d, h0, r0) /\ s[i] \in SlotType
    BY <1>1, <1>2
  <2>2. h0 \in Hosts \cup {None}
    BY <1>2, <1>5
  <2> HIDE DEF h0, r0
  <2> QED BY <1>6, <2>1, <2>2, SetHostFacts
<1>9. ASSUME NEW i \in DOMAIN s, i \notin anchors \ Held(d)
      PROVE  t[i] = s[i]
  BY <1>1, <1>9
<1>10. t \in Seq(SlotType) /\ Len(t) = Len(s) /\ DOMAIN t = DOMAIN s
  <2>1. \A i \in DOMAIN s : t[i] \in SlotType
    BY <1>2, <1>8, <1>9
  <2> HIDE DEF anchors, Held
  <2> QED BY <1>1, <1>2, <2>1
<1>11. Grown(in, k, s, t)
  <2>1. ASSUME NEW i \in DOMAIN s
        PROVE  /\ t[i].class = s[i].class
               /\ \A e \in Side : \/ t[i].host[e] = s[i].host[e]
                                  \/ /\ s[i].host[e] = None
                                     /\ t[i].host[e] \in Candidates(in, k, e)
    <3>1. CASE i \in anchors \ Held(d)
      <4>1. \A e \in Side : e = d \/ e = 3 - d
        BY DEF Side
      <4> HIDE DEF h0
      <4> QED BY <1>5, <1>8, <3>1, <4>1
    <3>2. CASE i \notin anchors \ Held(d)
      BY <1>9, <3>2
    <3> QED BY <3>1, <3>2
  <2> QED BY <1>10, <2>1 DEF Grown
<1>12. ASSUME NEW i \in DOMAIN s
       PROVE  /\ t[i].host[3 - d] = s[i].host[3 - d]
              /\ s[i].class # "anchor" => t[i] = s[i]
              /\ s[i].class = "anchor" /\ t[i].host[d] = None =>
                     \A h \in C : \E j \in DOMAIN s : /\ s[j].class = "anchor"
                                                      /\ s[j].host[3 - d] = h
  <2>1. t[i].host[3 - d] = s[i].host[3 - d]
    BY <1>8, <1>9
  <2>2. s[i].class # "anchor" => t[i] = s[i]
    BY <1>9
  <2>3. ASSUME s[i].class = "anchor", t[i].host[d] = None
        PROVE  h0 = None
    <3>1. CASE i \in Held(d)
      BY <1>9, <2>3, <3>1
    <3>2. CASE i \notin Held(d)
      BY <1>8, <2>3, <3>2
    <3> QED BY <3>1, <3>2
  <2>4. ASSUME NEW h \in far
        PROVE  \E j \in DOMAIN s : s[j].class = "anchor" /\ s[j].host[3 - d] = h
    BY <2>4
  <2> QED BY <1>7, <2>1, <2>2, <2>3, <2>4
<1>13. ASSUME HalfAgree(s, d)
       PROVE  Agree(t, d)
  <2>1. ASSUME NEW i \in DOMAIN s, s[i].class = "anchor"
        PROVE  t[i].host[d] = h0
    <3>1. CASE i \in Held(d)
      <4>1. first \in DOMAIN s /\ s[first].class = "anchor" /\ s[first].host[d] # None
            /\ h0 = s[first].host[d]
        BY <1>3, <3>1
      <4>2. s[i].host[d] = s[first].host[d]
        BY <1>13, <2>1, <3>1, <4>1 DEF HalfAgree
      <4> QED BY <1>9, <3>1, <4>1, <4>2
    <3>2. CASE i \notin Held(d)
      BY <1>8, <2>1, <3>2
    <3> QED BY <3>1, <3>2
  <2>2. \A i \in DOMAIN t : t[i].class = "anchor" => s[i].class = "anchor"
    BY <1>10, <1>11 DEF Grown
  <2> QED BY <1>10, <2>1, <2>2 DEF Agree
<1> QED BY <1>10, <1>11, <1>12, <1>13 DEF t

LEMMA FillDiverseFacts ==
    ASSUME NEW in, InputOK(in), NEW k \in Keys, NEW s \in Seq(SlotType),
           NEW i \in DOMAIN s, NEW d \in Side, Local(in, k, s)
    PROVE  LET t == FillDiverse(in, k, s, i, d) IN
           /\ t \in Seq(SlotType) /\ Grown(in, k, s, t)
           /\ \A j \in DOMAIN s : s[j].class # "diverse" => t[j] = s[j]
           /\ s[i].class = "diverse" => Settled(in, k, t, i, d)
           /\ \A e \in Side : ~in.topo.reuse /\ Distinct(s, e) => Distinct(t, e)
<1> DEFINE t      == FillDiverse(in, k, s, i, d)
           C      == Candidates(in, k, d)
           far    == s[i].host[3 - d]
           X      == IF k[1] = k[2] /\ far # None THEN {far} ELSE {}
           choice == Pick(in, k, s, d, X)
           h0     == choice[1]
           r0     == choice[2]
           Fill   == s[i].class = "diverse" /\ s[i].host[d] = None
<1>1. t = [j \in DOMAIN s |-> IF j = i /\ Fill
                              THEN SetHost(s[i], d, choice[1], choice[2]) ELSE s[j]]
  BY DEF FillDiverse
<1>2. /\ C \subseteq Hosts /\ None \notin C /\ \A j \in DOMAIN s : s[j] \in SlotType
      /\ DOMAIN s = 1..Len(s) /\ Len(s) \in Nat
  BY CandidatesFacts, SeqDomain
<1>3. /\ r0 \in Unfilled..AnyUse
      /\ \/ /\ h0 # None /\ h0 \in C \ X
            /\ ~in.topo.reuse => UseCount(s, d, h0) = 0
         \/ /\ h0 = None
            /\ \/ C \subseteq X
               \/ /\ ~in.topo.reuse
                  /\ \A h \in C \ X : UseCount(s, d, h) > 0
  <2> HIDE DEF X
  <2> QED BY PickFacts
<1> HIDE DEF choice, t
<1>4. ASSUME Fill
      PROVE  /\ t[i] \in SlotType /\ t[i].class = s[i].class
             /\ t[i].host[d] = h0 /\ t[i].host[3 - d] = s[i].host[3 - d]
  <2>1. t[i] = SetHost(s[i], d, h0, r0) /\ s[i] \in SlotType
    BY <1>1, <1>2, <1>4
  <2>2. h0 \in Hosts \cup {None} /\ r0 \in Unfilled..AnyUse
    BY <1>2, <1>3
  <2> HIDE DEF h0, r0
  <2>3. LET u == SetHost(s[i], d, h0, r0) IN
        /\ u \in SlotType /\ u.class = s[i].class
        /\ u.host[d] = h0 /\ u.host[3 - d] = s[i].host[3 - d]
    BY <2>1, <2>2, SetHostFacts, Zenon
  <2> QED BY <2>1, <2>3, Zenon
<1>5. ASSUME NEW j \in DOMAIN s, ~(j = i /\ Fill)
      PROVE  t[j] = s[j]
  BY <1>1, <1>5
<1>6. t \in Seq(SlotType) /\ Len(t) = Len(s) /\ DOMAIN t = DOMAIN s
  <2>1. \A j \in DOMAIN s : t[j] \in SlotType
    BY <1>2, <1>4, <1>5
  <2> HIDE DEF Fill
  <2> QED BY <1>1, <1>2, <2>1
<1>7. Grown(in, k, s, t)
  <2>1. ASSUME NEW j \in DOMAIN s
        PROVE  /\ t[j].class = s[j].class
               /\ \A e \in Side : \/ t[j].host[e] = s[j].host[e]
                                  \/ /\ s[j].host[e] = None
                                     /\ t[j].host[e] \in Candidates(in, k, e)
    <3>1. CASE j = i /\ Fill
      <4>1. \A e \in Side : e = d \/ e = 3 - d
        BY DEF Side
      <4>2. h0 = None \/ h0 \in C
        BY <1>3
      <4> HIDE DEF h0
      <4> QED BY <1>4, <3>1, <4>1, <4>2
    <3>2. CASE ~(j = i /\ Fill)
      BY <1>5, <3>2
    <3> QED BY <3>1, <3>2
  <2> QED BY <1>6, <2>1 DEF Grown
<1>8. \A j \in DOMAIN s : s[j].class # "diverse" => t[j] = s[j]
  BY <1>5
<1>9. ASSUME s[i].class = "diverse"
      PROVE  Settled(in, k, t, i, d)
  <2>1. CASE ~Fill
    <3>1. t[i] = s[i] /\ s[i].host[d] # None /\ IsBase(s[i])
      BY <1>5, <1>9, <2>1 DEF IsBase
    <3> QED BY <3>1 DEF Settled, Local
  <2>2. CASE Fill /\ h0 # None
    BY <1>3, <1>4, <2>2 DEF Settled
  <2>3. CASE Fill /\ h0 = None /\ C \subseteq X
    <3>1. t[i].host[d] = None /\ C \subseteq {t[i].host[3 - d]}
      BY <1>4, <2>3
    <3> QED BY <3>1 DEF Settled
  <2>4. CASE /\ Fill /\ h0 = None /\ ~in.topo.reuse
             /\ \A h \in C \ X : UseCount(s, d, h) > 0
    <3>1. t[i].host[d] = None /\ t[i].class = "diverse" /\ t[i].host[3 - d] = far
      BY <1>4, <2>4
    <3>2. ASSUME NEW h \in C, h # far
          PROVE  UseCount(t, d, h) > 0
      <4>1. h \in C \ X
        BY <3>2
      <4>2. UseCount(s, d, h) # 0
        BY <2>4, <4>1
      <4>3. PICK j \in DOMAIN s : s[j].host[d] = h
        BY <4>2, UseCountFacts
      <4>4. t[j].host[d] = h
        BY <1>2, <1>5, <2>4, <3>2, <4>3
      <4>5. UseCount(t, d, h) \in Nat /\ UseCount(t, d, h) # 0
        BY <1>6, <4>3, <4>4, UseCountFacts
      <4> QED BY <4>5
    <3> QED BY <2>4, <3>1, <3>2 DEF Settled
  <2> QED BY <1>3, <2>1, <2>2, <2>3, <2>4
<1>10. ASSUME NEW e \in Side, ~in.topo.reuse, Distinct(s, e)
       PROVE  Distinct(t, e)
  <2>1. SUFFICES ASSUME NEW a \in DOMAIN s, NEW b \in DOMAIN s, a # b,
                        t[a].class = "diverse", t[b].class = "diverse",
                        t[a].host[e] # None, t[a].host[e] = t[b].host[e]
                 PROVE  FALSE
    BY <1>6 DEF Distinct
  <2>2. s[a].class = "diverse" /\ s[b].class = "diverse"
    BY <1>7, <2>1 DEF Grown
  <2>3. \A j \in DOMAIN s : t[j].host[e] = s[j].host[e] \/ (j = i /\ Fill /\ e = d)
    <3>1. e = d \/ e = 3 - d
      BY DEF Side
    <3> QED BY <1>4, <1>5, <3>1
  <2>4. CASE t[a].host[e] = s[a].host[e] /\ t[b].host[e] = s[b].host[e]
    BY <1>10, <2>1, <2>2, <2>4 DEF Distinct
  <2>5. ASSUME NEW x \in {a, b}, NEW y \in {a, b}, x # y, x = i, Fill, e = d
        PROVE  FALSE
    <3>1. t[x].host[d] = h0 /\ t[y].host[d] = s[y].host[d] /\ y \in DOMAIN s
      BY <1>4, <1>5, <2>5
    <3>2. h0 # None /\ s[y].host[d] = h0
      BY <2>1, <2>5, <3>1
    <3>3. UseCount(s, d, h0) = 0
      BY <1>3, <1>10, <3>2
    <3> QED BY <3>1, <3>2, <3>3, UseCountFacts
  <2> QED BY <2>1, <2>3, <2>4, <2>5
<1> QED BY <1>6, <1>7, <1>8, <1>9, <1>10 DEF t

\* What filling makes of the slots s of one pairing.
Filling(in, k, s, t) ==
    /\ t \in Seq(SlotType) /\ Grown(in, k, s, t)
    /\ (\A d \in Side : HalfAgree(s, d)) =>
           \A d \in Side :
               /\ Agree(t, d)
               /\ \A i \in DOMAIN s : s[i].class = "anchor" => Settled(in, k, t, i, d)
    /\ \A d \in Side : ~in.topo.reuse /\ Distinct(s, d) => Distinct(t, d)
    /\ \A i \in DOMAIN s : IsSuper(s[i]) => t[i] = s[i]

LEMMA AnchorStage ==
    ASSUME NEW in, InputOK(in), NEW k \in Keys, NEW s \in Seq(SlotType), Local(in, k, s)
    PROVE  Filling(in, k, s, FillAnchors(in, k, FillAnchors(in, k, s, 1), 2))
<1> DEFINE t == FillAnchors(in, k, s, 1)
           u == FillAnchors(in, k, t, 2)
<1>1. 1 \in Side /\ 2 \in Side /\ 3 - 1 = 2 /\ 3 - 2 = 1 /\ \A d \in Side : d = 1 \/ d = 2
  BY DEF Side
<1>2. /\ t \in Seq(SlotType) /\ Grown(in, k, s, t)
      /\ \A i \in DOMAIN s :
             /\ t[i].host[3 - 1] = s[i].host[3 - 1]
             /\ s[i].class # "anchor" => t[i] = s[i]
             /\ s[i].class = "anchor" /\ t[i].host[1] = None =>
                    \A h \in Candidates(in, k, 1) :
                        \E j \in DOMAIN s : s[j].class = "anchor" /\ s[j].host[3 - 1] = h
      /\ HalfAgree(s, 1) => Agree(t, 1)
  BY <1>1, FillAnchorsFacts
<1> HIDE DEF t
<1>3. Local(in, k, t) /\ DOMAIN t = DOMAIN s
  BY <1>2, GrownFacts
<1>4. /\ u \in Seq(SlotType) /\ Grown(in, k, t, u)
      /\ \A i \in DOMAIN t :
             /\ u[i].host[3 - 2] = t[i].host[3 - 2]
             /\ t[i].class # "anchor" => u[i] = t[i]
             /\ t[i].class = "anchor" /\ u[i].host[2] = None =>
                    \A h \in Candidates(in, k, 2) :
                        \E j \in DOMAIN t : t[j].class = "anchor" /\ t[j].host[3 - 2] = h
      /\ HalfAgree(t, 2) => Agree(u, 2)
  BY <1>1, <1>2, <1>3, FillAnchorsFacts
<1> HIDE DEF u
<1>5. Grown(in, k, s, u) /\ Local(in, k, u) /\ DOMAIN u = DOMAIN s
  BY <1>2, <1>3, <1>4, GrownFacts
<1>6. \A i \in DOMAIN s : t[i].class = s[i].class /\ u[i].class = s[i].class
  BY <1>2, <1>5 DEF Grown
<1>7. ASSUME \A d \in Side : HalfAgree(s, d), NEW d \in Side
      PROVE  Agree(u, d)
  <2>1. CASE d = 1
    <3>1. Agree(t, 1)
      BY <1>1, <1>2, <1>7
    <3>2. \A i \in DOMAIN s : u[i].host[1] = t[i].host[1]
      BY <1>1, <1>3, <1>4
    <3> QED BY <1>3, <1>5, <1>6, <2>1, <3>1, <3>2 DEF Agree
  <2>2. CASE d = 2
    <3>1. HalfAgree(s, 2)
      BY <1>1, <1>7
    <3>2. \A i \in DOMAIN s : t[i].host[2] = s[i].host[2]
      BY <1>1, <1>2
    <3>3. HalfAgree(t, 2)
      BY <1>3, <1>6, <3>1, <3>2 DEF HalfAgree
    <3> QED BY <1>4, <2>2, <3>3
  <2> QED BY <1>1, <2>1, <2>2
<1>8. ASSUME \A d \in Side : HalfAgree(s, d), NEW d \in Side,
             NEW i \in DOMAIN s, s[i].class = "anchor"
      PROVE  Settled(in, k, u, i, d)
  <2>1. Agree(u, 1) /\ Agree(u, 2)
    BY <1>1, <1>7, <1>8
  <2>2. CASE u[i].host[d] # None
    <3>1. IsBase(u[i])
      BY <1>6, <1>8 DEF IsBase
    <3> QED BY <1>5, <2>2, <3>1 DEF Local, Settled
  <2>3. CASE u[i].host[1] = None /\ d = 1
    <3>1. ASSUME NEW h \in Candidates(in, k, 1)
          PROVE  u[i].host[2] = h
      <4>1. t[i].host[1] = None
        BY <1>1, <1>3, <1>4, <2>3
      <4>2. PICK j \in DOMAIN s : s[j].class = "anchor" /\ s[j].host[2] = h
        BY <1>1, <1>2, <1>8, <4>1
      <4>3. h # None
        BY CandidatesFacts
      <4>4. u[j].host[2] = h
        BY <1>1, <1>5, <4>2, <4>3 DEF Grown
      <4> QED BY <1>5, <1>6, <1>8, <2>1, <4>2, <4>4 DEF Agree
    <3>2. Candidates(in, k, 1) \subseteq {u[i].host[3 - 1]}
      BY <1>1, <3>1
    <3> QED BY <2>3, <3>2 DEF Settled
  <2>4. CASE u[i].host[2] = None /\ d = 2
    <3>1. ASSUME NEW h \in Candidates(in, k, 2)
          PROVE  u[i].host[1] = h
      <4>1. PICK j \in DOMAIN s : s[j].class = "anchor" /\ t[j].host[1] = h
        BY <1>1, <1>3, <1>4, <1>6, <1>8, <2>4
      <4>2. u[j].host[1] = h
        BY <1>1, <1>3, <1>4, <4>1
      <4> QED BY <1>5, <1>6, <1>8, <2>1, <4>1, <4>2 DEF Agree
    <3>2. Candidates(in, k, 2) \subseteq {u[i].host[3 - 2]}
      BY <1>1, <3>1
    <3> QED BY <2>4, <3>2 DEF Settled
  <2> QED BY <1>1, <2>2, <2>3, <2>4
<1>9. ASSUME NEW d \in Side, Distinct(s, d)
      PROVE  Distinct(u, d)
  <2>1. \A i \in DOMAIN s : s[i].class = "diverse" => u[i] = s[i]
    BY <1>2, <1>3, <1>4, <1>6
  <2> QED BY <1>5, <1>6, <1>9, <2>1 DEF Distinct
<1>10. \A i \in DOMAIN s : IsSuper(s[i]) => u[i] = s[i]
  BY <1>2, <1>3, <1>4 DEF IsSuper
<1> QED BY <1>4, <1>5, <1>7, <1>8, <1>9, <1>10 DEF Filling, t, u

LEMMA DiverseStep ==
    ASSUME NEW in, InputOK(in), NEW k \in Keys, NEW s \in Seq(SlotType), Local(in, k, s),
           NEW t, Filling(in, k, s, t), NEW i \in DOMAIN s, NEW d \in Side
    PROVE  LET u == FillDiverse(in, k, t, i, d) IN
           /\ Filling(in, k, s, u) /\ Grown(in, k, t, u)
           /\ s[i].class = "diverse" => Settled(in, k, u, i, d)
<1> DEFINE u == FillDiverse(in, k, t, i, d)
<1>1. t \in Seq(SlotType) /\ Grown(in, k, s, t) /\ Local(in, k, t) /\ DOMAIN t = DOMAIN s
  BY GrownFacts DEF Filling
<1>2. /\ u \in Seq(SlotType) /\ Grown(in, k, t, u)
      /\ \A j \in DOMAIN t : t[j].class # "diverse" => u[j] = t[j]
      /\ t[i].class = "diverse" => Settled(in, k, u, i, d)
      /\ \A e \in Side : ~in.topo.reuse /\ Distinct(t, e) => Distinct(u, e)
  BY <1>1, FillDiverseFacts
<1> HIDE DEF u
<1>3. Grown(in, k, s, u) /\ DOMAIN u = DOMAIN s
  BY <1>1, <1>2, GrownFacts
<1>4. \A j \in DOMAIN s : t[j].class = s[j].class /\ u[j].class = s[j].class
  BY <1>1, <1>3 DEF Grown
<1>5. ASSUME \A e \in Side : HalfAgree(s, e), NEW e \in Side
      PROVE  /\ Agree(u, e)
             /\ \A j \in DOMAIN s : s[j].class = "anchor" => Settled(in, k, u, j, e)
  <2>1. /\ Agree(t, e)
        /\ \A j \in DOMAIN s : s[j].class = "anchor" => Settled(in, k, t, j, e)
    BY <1>5 DEF Filling
  <2>2. Agree(u, e)
    BY <1>1, <1>2, <1>3, <1>4, <2>1 DEF Agree
  <2> QED BY <1>1, <1>2, <2>1, <2>2, StaysSettled
<1>6. \A e \in Side : ~in.topo.reuse /\ Distinct(s, e) => Distinct(u, e)
  BY <1>2 DEF Filling
<1>7. \A j \in DOMAIN s : IsSuper(s[j]) => u[j] = s[j]
  BY <1>1, <1>2 DEF Filling, IsSuper
<1> QED BY <1>2, <1>3, <1>4, <1>5, <1>6, <1>7 DEF Filling, u

\* The function that fillSides computes, up to its n-th step.
Filled(in, k, s, n, f) ==
    f = [m \in 0..n |->
            IF m = 0
            THEN FillAnchors(in, k, FillAnchors(in, k, s, 1), 2)
            ELSE FillDiverse(in, k, f[m - 1], (m + 1) \div 2, 2 - (m % 2))]

LEMMA FilledExists ==
    ASSUME NEW in, NEW k, NEW s, NEW n \in Nat
    PROVE  \E f : Filled(in, k, s, n, f)
<1> DEFINE First == FillAnchors(in, k, FillAnchors(in, k, s, 1), 2)
           Step(t, m) == FillDiverse(in, k, t, (m + 1) \div 2, 2 - (m % 2))
           T == {j \in Nat : \E f : Filled(in, k, s, j, f)}
<1>1. \A j, f : Filled(in, k, s, j, f) <=>
          f = [m \in 0..j |-> IF m = 0 THEN First ELSE Step(f[m - 1], m)]
  BY DEF Filled
<1> HIDE DEF First, Step
<1>2. 0 \in T
  <2> DEFINE g == [m \in 0..0 |-> First]
  <2>1. \A m \in 0..0 : m = 0
    OBVIOUS
  <2>2. Filled(in, k, s, 0, g)
    BY <1>1, <2>1
  <2> QED BY <2>2
<1>3. ASSUME NEW j \in Nat, j \in T
      PROVE  j + 1 \in T
  <2>1. PICK g : Filled(in, k, s, j, g)
    BY <1>3
  <2> DEFINE h == [m \in 0..(j + 1) |-> IF m = j + 1 THEN Step(g[j], j + 1) ELSE g[m]]
  <2>2. \A m \in 0..j : g[m] = IF m = 0 THEN First ELSE Step(g[m - 1], m)
    BY <1>1, <2>1
  <2>3. \A m \in 0..(j + 1) : h[m] = IF m = 0 THEN First ELSE Step(h[m - 1], m)
    <3>1. h[j + 1] = Step(h[j], j + 1)
      OBVIOUS
    <3>2. \A m \in 0..j : h[m] = g[m] /\ (m # 0 => h[m - 1] = g[m - 1])
      OBVIOUS
    <3>3. \A m \in 0..(j + 1) : m = j + 1 \/ m \in 0..j
      OBVIOUS
    <3> HIDE DEF h
    <3> QED BY <2>2, <3>1, <3>2, <3>3
  <2>4. h = [m \in 0..(j + 1) |-> IF m = 0 THEN First ELSE Step(h[m - 1], m)]
    BY <2>3
  <2>5. Filled(in, k, s, j + 1, h)
    <3> HIDE DEF h
    <3> QED BY <1>1, <2>4
  <2> QED BY <2>5
<1>4. Nat \subseteq T
  <2> HIDE DEF T
  <2> QED BY <1>2, <1>3, Induction
<1> QED BY <1>4

LEMMA FillSidesFacts ==
    ASSUME NEW in, InputOK(in), NEW k \in Keys, NEW s \in Seq(SlotType), Local(in, k, s)
    PROVE  LET t == FillSides(in, k, s) IN
           /\ Filling(in, k, s, t)
           /\ \A i \in DOMAIN s : \A d \in Side :
                  s[i].class = "diverse" => Settled(in, k, t, i, d)
<1> DEFINE N == 2 * Len(s)
           f == CHOOSE g : Filled(in, k, s, N, g)
           Good(t, n) ==
               /\ Filling(in, k, s, t)
               /\ \A i \in DOMAIN s : \A d \in Side :
                      s[i].class = "diverse" /\ 2 * (i - 1) + d <= n
                          => Settled(in, k, t, i, d)
           T == {n \in Nat : n <= N => Good(f[n], n)}
<1>1. Len(s) \in Nat /\ N \in Nat /\ DOMAIN s = 1..Len(s)
  OBVIOUS
<1>2. FillSides(in, k, s) = f[N]
  BY DEF FillSides, Filled
<1>3. Filled(in, k, s, N, f)
  <2>1. \E g : Filled(in, k, s, N, g)
    BY <1>1, FilledExists
  <2> QED BY <2>1
<1> HIDE DEF f
<1>4. f[0] = FillAnchors(in, k, FillAnchors(in, k, s, 1), 2)
  BY <1>1, <1>3 DEF Filled
<1>5. \A n \in 1..N : f[n] = FillDiverse(in, k, f[n - 1], (n + 1) \div 2, 2 - (n % 2))
  BY <1>1, <1>3 DEF Filled
<1>6. 0 \in T
  <2>1. Filling(in, k, s, f[0])
    BY <1>4, AnchorStage
  <2>2. \A i \in DOMAIN s : \A d \in Side : ~(2 * (i - 1) + d <= 0)
    BY <1>1 DEF Side
  <2> QED BY <2>1, <2>2
<1>7. ASSUME NEW n \in Nat, n \in T
      PROVE  n + 1 \in T
  <2>1. SUFFICES ASSUME n + 1 <= N
                 PROVE  Good(f[n + 1], n + 1)
    OBVIOUS
  <2>2. Good(f[n], n)
    BY <1>1, <1>7, <2>1
  <2> DEFINE a == (n + 1 + 1) \div 2
             e == 2 - ((n + 1) % 2)
  <2>3. a \in DOMAIN s /\ e \in Side
    BY <1>1, <2>1 DEF Side
  <2>4. f[n + 1] = FillDiverse(in, k, f[n], a, e)
    <3>1. n + 1 \in 1..N /\ (n + 1) - 1 = n
      BY <1>1, <2>1
    <3> QED BY <1>5, <3>1
  <2>5. \A i \in DOMAIN s : \A d \in Side :
            2 * (i - 1) + d <= n + 1 => 2 * (i - 1) + d <= n \/ (i = a /\ d = e)
    BY <1>1 DEF Side
  <2> HIDE DEF a, e, N
  <2>6. /\ Filling(in, k, s, f[n + 1]) /\ Grown(in, k, f[n], f[n + 1])
        /\ s[a].class = "diverse" => Settled(in, k, f[n + 1], a, e)
    BY <2>2, <2>3, <2>4, DiverseStep
  <2>7. /\ f[n] \in Seq(SlotType) /\ f[n + 1] \in Seq(SlotType) /\ DOMAIN f[n] = DOMAIN s
    BY <2>2, <2>6, GrownFacts DEF Filling
  <2>8. ASSUME NEW i \in DOMAIN s, NEW d \in Side, s[i].class = "diverse",
               2 * (i - 1) + d <= n + 1
        PROVE  Settled(in, k, f[n + 1], i, d)
    <3>1. CASE 2 * (i - 1) + d <= n
      <4>1. Settled(in, k, f[n], i, d)
        BY <2>2, <2>8, <3>1
      <4> QED BY <2>6, <2>7, <4>1, StaysSettled
    <3>2. CASE i = a /\ d = e
      BY <2>6, <2>8, <3>2
    <3> QED BY <2>5, <2>8, <3>1, <3>2
  <2> QED BY <2>6, <2>8
<1>8. Nat \subseteq T
  <2> HIDE DEF T
  <2> QED BY <1>6, <1>7, Induction
<1>9. Good(f[N], N)
  BY <1>1, <1>8
<1>10. \A i \in DOMAIN s : \A d \in Side : 2 * (i - 1) + d <= N
  BY <1>1 DEF Side
<1> QED BY <1>2, <1>9, <1>10

-----------------------------------------------------------------------------
(* The stages together.                                                      *)

\* A layout's base slots carry what the properties say of a table.
LEMMA BaseTransfer ==
    ASSUME NEW c \in Configs, NEW s \in Seq(SlotType), NEW t \in Seq(SlotType),
           Layout(c, s), Layout(c, t), SameBase(c, s, t)
    PROVE  /\ \A i \in DOMAIN t : IsBase(t[i]) => i \in DOMAIN s /\ t[i] = s[i]
           /\ \A d : /\ Agree(s, d) => Agree(t, d)
                     /\ HalfAgree(s, d) => HalfAgree(t, d)
                     /\ Distinct(s, d) => Distinct(t, d)
           /\ \A in, k : Local(in, k, s) => Local(in, k, t)
<1>1. c.count \in Nat /\ DOMAIN s = 1..Len(s) /\ DOMAIN t = 1..Len(t)
  BY Classes
<1>2. \A i \in DOMAIN t : IsBase(t[i]) => i \in DOMAIN s /\ t[i] = s[i]
  <2>1. \A i \in DOMAIN t : IsBase(t[i]) => i \in 1..c.count
    BY <1>1 DEF Layout, IsBase, IsSuper
  <2> QED BY <1>1, <2>1 DEF Layout, SameBase
<1>3. \A i \in DOMAIN t : t[i].class \in {"anchor", "diverse"} => IsBase(t[i])
  BY DEF IsBase
<1>4. \A d : Agree(s, d) => Agree(t, d)
  BY <1>2, <1>3 DEF Agree
<1>5. \A d : HalfAgree(s, d) => HalfAgree(t, d)
  BY <1>2, <1>3 DEF HalfAgree
<1>6. \A d : Distinct(s, d) => Distinct(t, d)
  BY <1>2, <1>3 DEF Distinct
<1>7. \A in, k : Local(in, k, s) => Local(in, k, t)
  BY <1>2 DEF Local
<1> QED BY <1>2, <1>4, <1>5, <1>6, <1>7

LEMMA CheckedFacts ==
    ASSUME NEW in, InputOK(in), NEW k, NEW s \in Seq(SlotType), NEW t \in Seq(SlotType),
           Checked(in, k, s, t)
    PROVE  /\ Local(in, k, t)
           /\ \A c \in Configs : Layout(c, s) => Layout(c, t)
           /\ \A d \in Side : /\ HalfAgree(s, d) => HalfAgree(t, d)
                              /\ Distinct(s, d) => Distinct(t, d)
           /\ \A i \in DOMAIN s : \A d \in Side :
                  Valid(in, k[d], s[i].host[d]) =>
                      t[i].host[d] = s[i].host[d] /\ s[i].host[d] # None
<1>1. DOMAIN s = 1..Len(s) /\ DOMAIN t = DOMAIN s /\ Len(t) = Len(s)
  BY DEF Checked
<1>2. \A i \in DOMAIN s : t[i].class = s[i].class
  BY DEF Checked
<1>3. \A i \in DOMAIN s : \A d \in Side :
          \/ t[i].host[d] = None
          \/ t[i].host[d] = s[i].host[d] /\ Valid(in, k[d], s[i].host[d])
  BY DEF Checked
<1>4. \A z, h : Valid(in, z, h) => h \in Members(in, z) \cap in.eligible /\ h # None
  <2>1. \A h \in DOMAIN in.inv : h # None
    BY HostAssumption DEF InputOK
  <2> QED BY <2>1 DEF Valid, Members
<1>5. Local(in, k, t)
  BY <1>1, <1>3, <1>4 DEF Local, Candidates
<1>6. \A c \in Configs : Layout(c, s) => Layout(c, t)
  <2>1. \A c \in Configs : \A i \in 1..c.count : c.count <= Len(s) => i \in DOMAIN s
    BY <1>1, Classes
  <2> QED BY <1>1, <1>2, <2>1 DEF Layout, IsSuper
<1>7. ASSUME NEW d \in Side
      PROVE  /\ HalfAgree(s, d) => HalfAgree(t, d)
             /\ Distinct(s, d) => Distinct(t, d)
  <2>1. HalfAgree(s, d) => HalfAgree(t, d)
    BY <1>1, <1>2, <1>3 DEF HalfAgree
  <2>2. Distinct(s, d) => Distinct(t, d)
    BY <1>1, <1>2, <1>3 DEF Distinct
  <2> QED BY <2>1, <2>2
<1>8. \A i \in DOMAIN s : \A d \in Side :
          Valid(in, k[d], s[i].host[d]) =>
              t[i].host[d] = s[i].host[d] /\ s[i].host[d] # None
  BY <1>4 DEF Checked
<1> QED BY <1>5, <1>6, <1>7, <1>8

\* What a run makes of the slots s of a wanted pairing, validated (t),
\* with their super slots updated (u) and filled.
LEMMA ActivePath ==
    ASSUME NEW in, InputOK(in), NEW k \in Keys, NEW s \in Seq(SlotType),
           Layout(in.cfg, s), \A d \in Side : HalfAgree(s, d),
           NEW t \in Seq(SlotType), Checked(in, k, s, t),
           NEW u \in Seq(SlotType), Layout(in.cfg, u), SameBase(in.cfg, t, u)
    PROVE  LET v == FillSides(in, k, u) IN
           /\ v \in Seq(SlotType) /\ Layout(in.cfg, v) /\ Len(v) = Len(u)
           /\ InLine(in.cfg, u) => InLine(in.cfg, v)
           /\ \A d \in Side :
                  /\ Agree(v, d)
                  /\ ~in.topo.reuse /\ Distinct(s, d) => Distinct(v, d)
                  /\ \A i \in 1..in.cfg.count :
                         /\ Settled(in, k, v, i, d)
                         /\ Valid(in, k[d], s[i].host[d]) => v[i].host[d] = s[i].host[d]
<1> DEFINE v == FillSides(in, k, u)
           c == in.cfg
<1>1. c \in Configs /\ c.count \in Nat
  BY Classes DEF InputOK
<1>2. /\ Local(in, k, t) /\ Layout(c, t)
      /\ \A d \in Side : /\ HalfAgree(t, d)
                         /\ Distinct(s, d) => Distinct(t, d)
      /\ \A i \in DOMAIN s : \A d \in Side :
             Valid(in, k[d], s[i].host[d]) =>
                 t[i].host[d] = s[i].host[d] /\ s[i].host[d] # None
  BY <1>1, CheckedFacts
<1>3. /\ Local(in, k, u)
      /\ \A d \in Side : /\ HalfAgree(u, d)
                         /\ Distinct(s, d) => Distinct(u, d)
  BY <1>1, <1>2, BaseTransfer
<1>4. /\ Filling(in, k, u, v)
      /\ \A i \in DOMAIN u : \A d \in Side :
             u[i].class = "diverse" => Settled(in, k, v, i, d)
  BY <1>3, FillSidesFacts
<1> HIDE DEF v
<1>5. /\ v \in Seq(SlotType) /\ Grown(in, k, u, v) /\ DOMAIN v = DOMAIN u /\ Len(v) = Len(u)
      /\ \A i \in DOMAIN u : v[i].class = u[i].class
  BY <1>4, GrownFacts DEF Filling, Grown
<1>6. 1..c.count \subseteq DOMAIN u /\ 1..c.count \subseteq DOMAIN s
  BY <1>1 DEF Layout
<1>7. Layout(c, v)
  BY <1>5, <1>6 DEF Layout, IsSuper
<1>8. ASSUME NEW d \in Side
      PROVE  /\ Agree(v, d)
             /\ ~in.topo.reuse /\ Distinct(s, d) => Distinct(v, d)
  BY <1>3, <1>4 DEF Filling
<1>9. ASSUME NEW d \in Side, NEW i \in 1..c.count
      PROVE  Settled(in, k, v, i, d)
  <2>1. u[i].class = "anchor" \/ u[i].class = "diverse"
    <3>1. u[i].class = ClassAt(c, i)
      BY <1>9 DEF Layout
    <3> QED BY <3>1, Classes
  <2>2. i \in DOMAIN u
    BY <1>6, <1>9
  <2> QED BY <1>3, <1>4, <2>1, <2>2 DEF Filling
<1>10. ASSUME NEW d \in Side, NEW i \in 1..c.count, Valid(in, k[d], s[i].host[d])
       PROVE  v[i].host[d] = s[i].host[d]
  <2>1. t[i].host[d] = s[i].host[d] /\ s[i].host[d] # None
    BY <1>2, <1>6, <1>10
  <2>2. u[i] = t[i] /\ i \in DOMAIN u
    BY <1>6 DEF SameBase
  <2> QED BY <1>5, <2>1, <2>2 DEF Grown
<1>11. InLine(c, u) => InLine(c, v)
  <2>1. \A i \in DOMAIN u : i > c.count => v[i] = u[i]
    BY <1>4 DEF Filling, Layout
  <2>2. \A i, j \in DOMAIN u : i > c.count /\ j > i => j > c.count
    BY <1>1
  <2> QED BY <1>5, <2>1, <2>2 DEF InLine
<1> QED BY <1>5, <1>7, <1>8, <1>9, <1>10, <1>11 DEF v

-----------------------------------------------------------------------------
(* What holds of every table.                                                *)

LayoutOK(st) ==
    \A c \in Configs : st.slots = SlotsFingerprint(c) =>
        \A k \in DOMAIN st.pairings : Layout(c, Slots(st, k)) /\ InLine(c, Slots(st, k))

AnchorsOK(st) ==
    \A k \in DOMAIN st.pairings : \A d \in Side : Agree(Slots(st, k), d)

SupersOK(st) ==
    /\ None \notin DOMAIN st.supers
    /\ \A c \in Configs : st.slots = SlotsFingerprint(c) /\ c.superHosts = 0 =>
           DOMAIN st.supers = {}

TableInv(st) == TableOK(st) /\ LayoutOK(st) /\ AnchorsOK(st) /\ SupersOK(st)

DiverseOK(c, st) ==
    ~c.reuse /\ st.slots = SlotsFingerprint(c) =>
        \A k \in DOMAIN st.pairings : \A d \in Side : Distinct(Slots(st, k), d)

LEMMA SameLayout ==
    ASSUME NEW c, NEW e, SlotsFingerprint(c) = SlotsFingerprint(e)
    PROVE  /\ \A slots : Layout(c, slots) <=> Layout(e, slots)
           /\ \A slots : InLine(c, slots) <=> InLine(e, slots)
           /\ c.superHosts = e.superHosts /\ c.reuse = e.reuse
<1>1. /\ c.count = e.count /\ c.percent = e.percent /\ c.rounding = e.rounding
      /\ c.superHosts = e.superHosts /\ c.reuse = e.reuse
  BY DEF SlotsFingerprint
<1>2. \A i : ClassAt(c, i) = ClassAt(e, i)
  BY <1>1 DEF ClassAt, Anchors
<1> QED BY <1>1, <1>2 DEF Layout, InLine

LEMMA RebuiltFacts ==
    ASSUME NEW in, InputOK(in), NEW st, TableInv(st)
    PROVE  LET b == Rebuilt(in, st) IN
           /\ TableInv(b) /\ b.rule = in.topo.rule /\ b.slots = SlotsFingerprint(in.cfg)
           /\ DiverseOK(in.cfg, st) => DiverseOK(in.cfg, b)
<1>1. CASE st.rule = in.topo.rule /\ st.slots = SlotsFingerprint(in.cfg)
  BY <1>1 DEF Rebuilt
<1>2. CASE ~(st.rule = in.topo.rule /\ st.slots = SlotsFingerprint(in.cfg))
  <2> DEFINE b == NewState(in)
  <2>1. Rebuilt(in, st) = b
    BY <1>2 DEF Rebuilt
  <2>2. /\ b = [rule |-> b.rule, slots |-> b.slots,
                pairings |-> b.pairings, supers |-> b.supers]
        /\ b.rule = in.topo.rule /\ b.slots = SlotsFingerprint(in.cfg)
        /\ DOMAIN b.pairings = {} /\ DOMAIN b.supers = {}
    BY DEF NewState
  <2> HIDE DEF b
  <2>3. TableOK(b)
    BY <2>2 DEF TableOK
  <2>4. LayoutOK(b) /\ AnchorsOK(b) /\ SupersOK(b) /\ DiverseOK(in.cfg, b)
    BY <2>2 DEF LayoutOK, AnchorsOK, SupersOK, DiverseOK
  <2> QED BY <2>1, <2>2, <2>3, <2>4 DEF TableInv
<1> QED BY <1>1, <1>2

LEMMA FirstNFacts ==
    ASSUME NEW S, IsFiniteSet(S), S \subseteq Nat, NEW n \in Nat
    PROVE  /\ FirstN(S, n) \subseteq S
           /\ Cardinality(S) <= n => FirstN(S, n) = S
<1>1. FirstN(S, n) \subseteq S
  BY DEF FirstN
<1>2. ASSUME Cardinality(S) <= n, NEW h \in S
      PROVE  Cardinality({g \in S : g < h}) < n
  <2> DEFINE L == {g \in S : g < h}
  <2>1. L \in SUBSET S /\ L # S
    OBVIOUS
  <2> HIDE DEF L
  <2>2. Cardinality(L) \in Nat /\ Cardinality(S) \in Nat /\ Cardinality(L) < Cardinality(S)
    <3>1. IsFiniteSet(L) /\ Cardinality(L) <= Cardinality(S) /\ Cardinality(L) # Cardinality(S)
      BY <2>1, FS_Subset
    <3>2. Cardinality(L) \in Nat /\ Cardinality(S) \in Nat
      BY <3>1, FS_CardinalityType
    <3> QED BY <3>1, <3>2
  <2> QED BY <1>2, <2>2 DEF L
<1> QED BY <1>1, <1>2 DEF FirstN

\* A super host that is still valid stays, unless the zone has too many.
LEMMA PickSuperFacts ==
    ASSUME NEW in, InputOK(in), NEW z, NEW current, current \subseteq Hosts
    PROVE  /\ PickSuper(in, z, current) \subseteq Hosts
           /\ Cardinality(current) <= in.topo.superHosts =>
                  current \cap Members(in, z) \cap in.eligible \subseteq PickSuper(in, z, current)
<1> DEFINE want == in.topo.superHosts
           pool == Members(in, z) \cap in.eligible
           kept == FirstN(current \cap pool, want)
           matching == {h \in pool \ kept : in.inv[h].attr \in in.topo.selector}
           chosen == kept \cup FirstN(matching, want - Cardinality(kept))
<1>1. PickSuper(in, z, current) = chosen \cup FirstN(pool \ chosen, want - Cardinality(chosen))
  BY DEF PickSuper
<1>2. \A S, n : FirstN(S, n) \subseteq S
  BY DEF FirstN
<1>3. pool \subseteq Hosts /\ want \in Nat
  BY ConfigAssumption DEF InputOK
<1>4. kept \subseteq PickSuper(in, z, current)
  BY <1>1
<1>5. PickSuper(in, z, current) \subseteq Hosts
  <2>1. kept \subseteq Hosts /\ matching \subseteq Hosts /\ pool \ chosen \subseteq Hosts
    BY <1>2, <1>3
  <2> HIDE DEF kept, matching, pool
  <2> QED BY <1>1, <1>2, <2>1
<1>6. ASSUME Cardinality(current) <= want
      PROVE  kept = current \cap pool
  <2> DEFINE S == current \cap pool
  <2>1. IsFiniteSet(current) /\ current \subseteq Nat
    BY HostAssumption, FS_Subset
  <2>2. S \in SUBSET current
    OBVIOUS
  <2> HIDE DEF S
  <2>3. /\ IsFiniteSet(S) /\ S \subseteq Nat
        /\ Cardinality(S) \in Nat /\ Cardinality(S) <= Cardinality(current)
        /\ Cardinality(current) \in Nat
    BY <2>1, <2>2, FS_Subset, FS_CardinalityType
  <2>4. FirstN(S, want) = S
    <3>1. want \in Nat /\ Cardinality(S) <= want
      BY <1>3, <1>6, <2>3
    <3> HIDE DEF want
    <3> QED BY <2>3, <3>1, FirstNFacts
  <2> QED BY <2>4 DEF S
<1> HIDE DEF kept
<1> QED BY <1>4, <1>5, <1>6

LEMMA NextSupersFacts ==
    ASSUME NEW in, InputOK(in), NEW supers,
           \A z \in DOMAIN supers : supers[z] \subseteq Hosts
    PROVE  LET new == NextSupers(in, supers) IN
           /\ None \notin DOMAIN new
           /\ \A z \in DOMAIN new : new[z] \subseteq Hosts
           /\ in.cfg.superHosts = 0 => DOMAIN new = {}
           /\ in.cfg.superHosts # 0 =>
                  \A z \in DOMAIN supers : \A h \in supers[z] :
                      Valid(in, z, h) /\ z # None
                      /\ Cardinality(supers[z]) <= in.topo.superHosts
                          => h \in SupersOf(new, z)
<1> DEFINE new  == NextSupers(in, supers)
           P(z) == PickSuper(in, z, SupersOf(supers, z))
           pick == [z \in Zones(in) |-> P(z)]
           D    == {y \in Zones(in) : y \in DOMAIN supers \/ pick[y] # {}}
<1>1. \A z : SupersOf(supers, z) \subseteq Hosts
  BY DEF SupersOf
<1>2. \A z : P(z) \subseteq Hosts
  BY <1>1, PickSuperFacts
<1>3. new = IF in.cfg.superHosts = 0 THEN <<>> ELSE [z \in D |-> pick[z]]
  BY DEF NextSupers
<1>4. D \subseteq Zones(in) /\ None \notin Zones(in)
  BY DEF Zones
<1>5. in.cfg.superHosts # 0 => DOMAIN new = D /\ \A z \in D : new[z] = P(z)
  <2> HIDE DEF P
  <2> QED BY <1>3, <1>4
<1>6. in.cfg.superHosts = 0 => DOMAIN new = {}
  BY <1>3
<1>7. ASSUME in.cfg.superHosts # 0, NEW z \in DOMAIN supers, NEW h \in supers[z],
             Valid(in, z, h), z # None, Cardinality(supers[z]) <= in.topo.superHosts
      PROVE  h \in SupersOf(new, z)
  <2>1. h \in DOMAIN in.inv /\ Zone(in, h) = z /\ h \in in.eligible
    BY <1>7 DEF Valid
  <2>2. z \in D
    BY <1>7, <2>1 DEF Zones
  <2>3. SupersOf(supers, z) = supers[z]
    BY DEF SupersOf
  <2>4. h \in P(z)
    <3>1. h \in supers[z] \cap Members(in, z) \cap in.eligible
      BY <1>7, <2>1 DEF Members
    <3> QED BY <1>1, <1>7, <2>3, <3>1, PickSuperFacts
  <2> HIDE DEF new, P, D
  <2> QED BY <1>5, <1>7, <2>2, <2>4 DEF SupersOf
<1> HIDE DEF P, D
<1>8. in.cfg.superHosts # 0 => None \notin DOMAIN new /\ \A z \in DOMAIN new : new[z] \subseteq Hosts
  <2> HIDE DEF new
  <2> QED BY <1>2, <1>4, <1>5
<1> HIDE DEF new
<1> QED BY <1>6, <1>7, <1>8 DEF new

LEMMA EmptyHosts ==
    \A class : \A d \in Side : EmptySlot(class).host[d] = None
  BY DEF EmptySlot, Side

\* The table a run computes.
LEMMA ReconcileFacts ==
    ASSUME NEW in, InputOK(in), NEW st, TableInv(st)
    PROVE  LET old == Rebuilt(in, st)
               new == Reconcile(in, st).state IN
           /\ TableInv(new)
           /\ ~in.topo.reuse /\ in.topo = in.cfg /\ DiverseOK(in.cfg, st) =>
                  DiverseOK(in.cfg, new)
           /\ \A k \in Wanted(in) :
                  /\ k \in DOMAIN new.pairings /\ Layout(in.cfg, Slots(new, k))
                  /\ \A i \in 1..in.cfg.count : \A d \in Side :
                         Settled(in, k, Slots(new, k), i, d)
           /\ \A k \in DOMAIN old.pairings \cap DOMAIN new.pairings :
                  /\ Layout(in.cfg, Slots(old, k)) /\ Layout(in.cfg, Slots(new, k))
                  /\ \A i \in 1..in.cfg.count : \A d \in Side :
                         LET h == Slots(old, k)[i].host[d]
                         IN  Valid(in, k[d], h) => Slots(new, k)[i].host[d] = h
           /\ new.supers = NextSupers(in, old.supers)
           /\ new.rule = in.topo.rule /\ new.slots = SlotsFingerprint(in.cfg)
           /\ \A k \in DOMAIN new.pairings :
                  /\ Layout(in.cfg, Slots(new, k))
                  /\ IsActive(new.pairings[k]) <=> k \in Wanted(in)
                  /\ in.cfg.hold > 0 => new.pairings[k].left # 0
                  /\ in.cfg.superHosts = 0 => Len(Slots(new, k)) = in.cfg.count
<1> DEFINE c   == in.cfg
           old == Rebuilt(in, st)
           new == Reconcile(in, st).state
           sup == NextSupers(in, old.supers)
           p0  == old.pairings
           p1  == DiffPairings(in, p0)
           p2  == ValidateSides(in, p1)
           p3  == UpdateSupers(in, sup, p2)
           p4  == OnActive(p3, LAMBDA k, slots : FillSides(in, k, slots))
<1>1. new = [old EXCEPT !.pairings = p4, !.supers = sup]
  BY DEF Reconcile
<1>2. c \in Configs /\ c.count \in Nat
  BY Classes DEF InputOK
<1>3. /\ TableInv(old) /\ old.rule = in.topo.rule /\ old.slots = SlotsFingerprint(c)
      /\ DiverseOK(c, st) => DiverseOK(c, old)
  BY RebuiltFacts
<1> HIDE DEF old
<1>4. /\ PairingsOK(p0) /\ \A z \in DOMAIN old.supers : old.supers[z] \subseteq Hosts
      /\ old = [rule |-> old.rule, slots |-> old.slots,
                pairings |-> old.pairings, supers |-> old.supers]
  BY <1>3 DEF TableInv, TableOK, PairingsOK
<1>5. \A k \in DOMAIN p0 : /\ Layout(c, p0[k].slots) /\ InLine(c, p0[k].slots)
                            /\ \A d \in Side : Agree(p0[k].slots, d)
  BY <1>2, <1>3 DEF TableInv, LayoutOK, AnchorsOK, Slots
<1>6. /\ new.rule = old.rule /\ new.slots = old.slots
      /\ new.pairings = p4 /\ new.supers = sup
      /\ new = [rule |-> new.rule, slots |-> new.slots,
                pairings |-> new.pairings, supers |-> new.supers]
  <2> HIDE DEF new, p4, sup
  <2> QED BY <1>1, <1>4
<1> HIDE DEF p0
<1>7. /\ PairingsOK(p1) /\ Wanted(in) \subseteq DOMAIN p1
      /\ \A k \in Wanted(in) :
             /\ IsActive(p1[k]) /\ Layout(c, p1[k].slots)
             /\ IF k \in DOMAIN p0
                THEN Layout(c, p0[k].slots) => SameBase(c, p0[k].slots, p1[k].slots)
                ELSE \A i \in 1..c.count : p1[k].slots[i] = EmptySlot(ClassAt(c, i))
      /\ \A k \in DOMAIN p1 \ Wanted(in) :
             /\ k \in DOMAIN p0 /\ ~IsActive(p1[k]) /\ p1[k].slots = p0[k].slots
             /\ c.hold > 0 => p1[k].left # 0
  BY <1>4, DiffFacts
<1> HIDE DEF p1
<1>8. /\ PairingsOK(p2) /\ DOMAIN p2 = DOMAIN p1
      /\ \A k \in DOMAIN p1 :
             /\ p2[k].left = p1[k].left
             /\ IF IsActive(p1[k]) THEN Checked(in, k, p1[k].slots, p2[k].slots)
                ELSE p2[k] = p1[k]
  BY <1>7, ValidateFacts
<1> HIDE DEF p2
<1>9. \A k \in DOMAIN p1 : p1[k].slots \in Seq(SlotType) /\ p2[k].slots \in Seq(SlotType)
  BY <1>7, <1>8 DEF PairingsOK, PairingType
<1>10. \A k \in DOMAIN p1 : (IsActive(p1[k]) <=> k \in Wanted(in)) /\ (IsActive(p2[k]) <=> k \in Wanted(in))
  BY <1>7, <1>8 DEF IsActive
<1>11. \A k \in DOMAIN p2 : Layout(c, p2[k].slots)
  <2>1. ASSUME NEW k \in Wanted(in)
        PROVE  Layout(c, p2[k].slots)
    <3>1. k \in DOMAIN p1 /\ Layout(c, p1[k].slots) /\ Checked(in, k, p1[k].slots, p2[k].slots)
      BY <1>7, <1>8
    <3>2. p1[k].slots \in Seq(SlotType) /\ p2[k].slots \in Seq(SlotType)
      BY <1>9, <3>1
    <3> DEFINE s == p1[k].slots
               t == p2[k].slots
    <3>3. s \in Seq(SlotType) /\ t \in Seq(SlotType) /\ Checked(in, k, s, t) /\ Layout(c, s)
      BY <3>1, <3>2
    <3> HIDE DEF c, s, t
    <3>4. Layout(c, t)
      BY <1>2, <3>3, CheckedFacts
    <3> QED BY <3>4 DEF t
  <2> QED BY <1>5, <1>7, <1>8, <2>1
<1>12. /\ PairingsOK(p3) /\ DOMAIN p3 = DOMAIN p2
       /\ \A k \in DOMAIN p2 :
              /\ p3[k].left = p2[k].left
              /\ Layout(c, p3[k].slots)
              /\ SameBase(c, p2[k].slots, p3[k].slots)
              /\ c.superHosts = 0 => Len(p3[k].slots) = c.count
              /\ IsActive(p2[k]) \/ InLine(c, p2[k].slots) => InLine(c, p3[k].slots)
  <2> HIDE DEF sup
  <2> QED BY <1>8, <1>11, UpdateFacts
<1> HIDE DEF p3, sup
<1>13. \A k \in DOMAIN p3 : p3[k] \in PairingType /\ p3[k].slots \in Seq(SlotType)
  BY <1>12 DEF PairingsOK, PairingType
<1>14. /\ DOMAIN p4 = DOMAIN p3
       /\ \A k \in DOMAIN p3 :
              p4[k] = IF IsActive(p3[k])
                      THEN [p3[k] EXCEPT !.slots = FillSides(in, k, @)] ELSE p3[k]
  BY DEF OnActive
<1> HIDE DEF p4
<1>15. /\ Wanted(in) \subseteq Keys /\ DOMAIN p1 \subseteq Keys
       /\ DOMAIN p4 = DOMAIN p1 /\ DOMAIN p3 = DOMAIN p1 /\ Wanted(in) \subseteq DOMAIN p1
  BY <1>7, <1>8, <1>12, <1>14 DEF PairingsOK
<1>16. ASSUME NEW k \in Wanted(in)
       PROVE  /\ p4[k] = [slots |-> FillSides(in, k, p3[k].slots), left |-> Never]
              /\ p4[k].slots \in Seq(SlotType) /\ Layout(c, p4[k].slots)
              /\ Len(p4[k].slots) = Len(p3[k].slots) /\ InLine(c, p4[k].slots)
              /\ \A d \in Side :
                     /\ Agree(p4[k].slots, d)
                     /\ ~in.topo.reuse /\ Distinct(p1[k].slots, d) =>
                            Distinct(p4[k].slots, d)
                     /\ \A i \in 1..c.count :
                            /\ Settled(in, k, p4[k].slots, i, d)
                            /\ Valid(in, k[d], p1[k].slots[i].host[d]) =>
                                   p4[k].slots[i].host[d] = p1[k].slots[i].host[d]
  <2>1. k \in DOMAIN p1 /\ k \in DOMAIN p3 /\ k \in Keys
    BY <1>15
  <2>2. p3[k].left = Never /\ IsActive(p3[k])
    BY <1>7, <1>8, <1>12, <2>1 DEF IsActive
  <2>3. p4[k] = [slots |-> FillSides(in, k, p3[k].slots), left |-> Never]
    <3>1. p3[k] = [slots |-> p3[k].slots, left |-> p3[k].left]
      BY <1>13, <2>1 DEF PairingType
    <3>2. p4[k] = [p3[k] EXCEPT !.slots = FillSides(in, k, p3[k].slots)]
      BY <1>14, <2>1, <2>2
    <3> QED BY <2>2, <3>1, <3>2
  <2>4. \A d \in Side : HalfAgree(p1[k].slots, d)
    <3>1. CASE k \in DOMAIN p0
      <4>1. \A d \in Side : Agree(p0[k].slots, d)
        BY <1>5, <3>1 DEF p0
      <4>2. /\ Layout(c, p0[k].slots) /\ Layout(c, p1[k].slots)
            /\ SameBase(c, p0[k].slots, p1[k].slots)
        BY <1>5, <1>7, <3>1 DEF p0
      <4>3. p0[k].slots \in Seq(SlotType)
        BY <1>4, <3>1 DEF PairingsOK, PairingType
      <4>4. \A d \in Side : Agree(p1[k].slots, d)
        BY <1>2, <1>9, <2>1, <4>1, <4>2, <4>3, BaseTransfer
      <4> QED BY <4>4 DEF Agree, HalfAgree
    <3>2. CASE k \notin DOMAIN p0
      <4> DEFINE s == p1[k].slots
      <4>1. \A i \in 1..c.count : \A d \in Side : s[i].host[d] = None
        BY <1>7, <3>2, EmptyHosts
      <4>2. \A i \in DOMAIN s : s[i].class = "anchor" => i \in 1..c.count
        <5>1. s \in Seq(SlotType) /\ Layout(c, s)
          BY <1>7, <1>9, <2>1
        <5> HIDE DEF s
        <5> QED BY <1>2, <5>1, SeqDomain DEF Layout, IsSuper
      <4> QED BY <4>1, <4>2 DEF HalfAgree
    <3> QED BY <3>1, <3>2
  <2>5. /\ Layout(c, p1[k].slots) /\ Checked(in, k, p1[k].slots, p2[k].slots)
        /\ Layout(c, p3[k].slots) /\ SameBase(c, p2[k].slots, p3[k].slots)
        /\ p1[k].slots \in Seq(SlotType) /\ p2[k].slots \in Seq(SlotType)
        /\ p3[k].slots \in Seq(SlotType) /\ InLine(c, p3[k].slots)
    BY <1>7, <1>8, <1>9, <1>10, <1>12, <1>13, <2>1
  <2> DEFINE s == p1[k].slots
             t == p2[k].slots
             u == p3[k].slots
  <2> HIDE DEF c, s, t, u
  <2>6. LET v == FillSides(in, k, u) IN
        /\ v \in Seq(SlotType) /\ Layout(in.cfg, v) /\ Len(v) = Len(u) /\ InLine(in.cfg, v)
        /\ \A d \in Side :
               /\ Agree(v, d)
               /\ ~in.topo.reuse /\ Distinct(s, d) => Distinct(v, d)
               /\ \A i \in 1..in.cfg.count :
                      /\ Settled(in, k, v, i, d)
                      /\ Valid(in, k[d], s[i].host[d]) => v[i].host[d] = s[i].host[d]
    <3>1. k \in Keys /\ \A d \in Side : HalfAgree(s, d)
      BY <2>1, <2>4 DEF s
    <3>2. /\ Layout(in.cfg, s) /\ Checked(in, k, s, t)
          /\ Layout(in.cfg, u) /\ SameBase(in.cfg, t, u)
          /\ s \in Seq(SlotType) /\ t \in Seq(SlotType) /\ u \in Seq(SlotType)
          /\ InLine(in.cfg, u)
      BY <2>5 DEF c, s, t, u
    <3> QED BY <3>1, <3>2, ActivePath
  <2>7. p4[k].slots = FillSides(in, k, p3[k].slots)
    BY <2>3
  <2> QED BY <2>3, <2>6, <2>7, Zenon DEF c, s, u
<1>17. ASSUME NEW k \in DOMAIN p1 \ Wanted(in)
       PROVE  /\ k \in DOMAIN p0 /\ p4[k] = p3[k] /\ p4[k] \in PairingType
              /\ Layout(c, p0[k].slots) /\ Layout(c, p4[k].slots)
              /\ SameBase(c, p0[k].slots, p4[k].slots)
              /\ p0[k].slots \in Seq(SlotType) /\ p4[k].slots \in Seq(SlotType)
              /\ InLine(c, p4[k].slots)
              /\ ~IsActive(p4[k]) /\ p4[k].left = p1[k].left
  <2>1. k \in DOMAIN p0 /\ ~IsActive(p1[k]) /\ p1[k].slots = p0[k].slots
    BY <1>7
  <2>2. p3[k].left = p1[k].left /\ p2[k] = p1[k] /\ k \in DOMAIN p3
    BY <1>8, <1>12, <1>15, <2>1
  <2>3. ~IsActive(p3[k])
    BY <2>1, <2>2 DEF IsActive
  <2>4. p4[k] = p3[k]
    BY <1>14, <2>2, <2>3
  <2>5. Layout(c, p3[k].slots) /\ SameBase(c, p0[k].slots, p3[k].slots)
    BY <1>8, <1>12, <2>1, <2>2
  <2>6. Layout(c, p0[k].slots) /\ p0[k].slots \in Seq(SlotType)
    BY <1>4, <1>5, <2>1 DEF p0, PairingsOK, PairingType
  <2>7. InLine(c, p0[k].slots)
    BY <1>5, <2>1 DEF p0
  <2>8. InLine(c, p3[k].slots)
    BY <1>8, <1>12, <2>1, <2>2, <2>7
  <2> QED BY <1>13, <2>1, <2>2, <2>3, <2>4, <2>5, <2>6, <2>8
<1>18. PairingsOK(p4)
  <2>1. ASSUME NEW k \in Wanted(in)
        PROVE  p4[k] \in PairingType
    <3> DEFINE v == FillSides(in, k, p3[k].slots)
    <3>1. p4[k] = [slots |-> v, left |-> Never] /\ p4[k].slots \in Seq(SlotType)
      BY <1>16
    <3> HIDE DEF v
    <3> QED BY <3>1 DEF PairingType
  <2> QED BY <1>15, <1>17, <2>1 DEF PairingsOK
<1>19. \A k \in DOMAIN p4 : Layout(c, p4[k].slots) /\ InLine(c, p4[k].slots)
  BY <1>15, <1>16, <1>17
<1>20. \A k \in DOMAIN p4 : \A d \in Side : Agree(p4[k].slots, d)
  <2>1. ASSUME NEW k \in DOMAIN p1 \ Wanted(in), NEW d \in Side
        PROVE  Agree(p4[k].slots, d)
    <3>1. Agree(p0[k].slots, d)
      BY <1>5, <1>17 DEF p0
    <3> QED BY <1>2, <1>17, <3>1, BaseTransfer
  <2> QED BY <1>15, <1>16, <2>1
<1>21. /\ None \notin DOMAIN sup /\ \A z \in DOMAIN sup : sup[z] \subseteq Hosts
       /\ c.superHosts = 0 => DOMAIN sup = {}
  BY <1>4, NextSupersFacts DEF sup
<1>22. TableInv(new)
  <2> HIDE DEF new
  <2>1. TableOK(new)
    BY <1>6, <1>18, <1>21 DEF TableOK, PairingsOK
  <2>2. LayoutOK(new)
    <3>1. ASSUME NEW e \in Configs, new.slots = SlotsFingerprint(e), NEW k \in DOMAIN p4
          PROVE  Layout(e, p4[k].slots) /\ InLine(e, p4[k].slots)
      <4>1. SlotsFingerprint(e) = SlotsFingerprint(c)
        BY <1>3, <1>6, <3>1
      <4> QED BY <1>19, <4>1, SameLayout
    <3> QED BY <1>6, <3>1 DEF LayoutOK, Slots
  <2>3. AnchorsOK(new)
    BY <1>6, <1>20 DEF AnchorsOK, Slots
  <2>4. SupersOK(new)
    <3>1. ASSUME NEW e \in Configs, new.slots = SlotsFingerprint(e), e.superHosts = 0
          PROVE  DOMAIN sup = {}
      <4>1. SlotsFingerprint(e) = SlotsFingerprint(c)
        BY <1>3, <1>6, <3>1
      <4>2. e.superHosts = c.superHosts
        BY <4>1, SameLayout
      <4> QED BY <1>21, <3>1, <4>2
    <3> QED BY <1>6, <1>21, <3>1 DEF SupersOK
  <2> QED BY <2>1, <2>2, <2>3, <2>4 DEF TableInv
<1>23. ASSUME ~in.topo.reuse, in.topo = c, DiverseOK(c, st)
       PROVE  DiverseOK(c, new)
  <2>1. \A k \in DOMAIN p0 : \A d \in Side : Distinct(p0[k].slots, d)
    BY <1>3, <1>23 DEF DiverseOK, Slots, p0
  <2>2. ASSUME NEW k \in Wanted(in), NEW d \in Side
        PROVE  Distinct(p4[k].slots, d)
    <3>1. CASE k \in DOMAIN p0
      <4>1. /\ Layout(c, p0[k].slots) /\ Layout(c, p1[k].slots)
            /\ SameBase(c, p0[k].slots, p1[k].slots)
        BY <1>5, <1>7, <3>1 DEF p0
      <4>2. p0[k].slots \in Seq(SlotType) /\ p1[k].slots \in Seq(SlotType)
        BY <1>4, <1>9, <1>15, <3>1 DEF PairingsOK, PairingType
      <4>3. Distinct(p1[k].slots, d)
        BY <1>2, <2>1, <3>1, <4>1, <4>2, BaseTransfer
      <4> QED BY <1>16, <1>23, <4>3
    <3>2. CASE k \notin DOMAIN p0
      <4> DEFINE s == p1[k].slots
      <4>1. \A i \in 1..c.count : s[i].host[d] = None
        BY <1>7, <3>2, EmptyHosts
      <4>2. \A i \in DOMAIN s : s[i].class = "diverse" => i \in 1..c.count
        <5>1. s \in Seq(SlotType) /\ Layout(c, s)
          BY <1>7, <1>9, <1>15
        <5> HIDE DEF s
        <5> QED BY <1>2, <5>1, SeqDomain DEF Layout, IsSuper
      <4>3. Distinct(s, d)
        BY <4>1, <4>2 DEF Distinct
      <4> QED BY <1>16, <1>23, <4>3
    <3> QED BY <3>1, <3>2
  <2>3. ASSUME NEW k \in DOMAIN p1 \ Wanted(in), NEW d \in Side
        PROVE  Distinct(p4[k].slots, d)
    BY <1>2, <1>17, <2>1, BaseTransfer
  <2> HIDE DEF new
  <2> QED BY <1>6, <1>15, <2>2, <2>3 DEF DiverseOK, Slots
<1>24. ASSUME NEW k \in Wanted(in)
       PROVE  /\ k \in DOMAIN new.pairings /\ Layout(c, Slots(new, k))
              /\ \A i \in 1..c.count : \A d \in Side :
                     Settled(in, k, Slots(new, k), i, d)
  <2> HIDE DEF new
  <2> QED BY <1>6, <1>15, <1>16 DEF Slots
<1>25. ASSUME NEW k \in DOMAIN old.pairings \cap DOMAIN new.pairings
       PROVE  /\ Layout(c, Slots(old, k)) /\ Layout(c, Slots(new, k))
              /\ \A i \in 1..c.count : \A d \in Side :
                     LET h == Slots(old, k)[i].host[d]
                     IN  Valid(in, k[d], h) => Slots(new, k)[i].host[d] = h
  <2> HIDE DEF new
  <2>1. Slots(old, k) = p0[k].slots /\ Slots(new, k) = p4[k].slots
        /\ k \in DOMAIN p0 /\ k \in DOMAIN p1
    BY <1>6, <1>15 DEF Slots, p0
  <2>2. Layout(c, p0[k].slots) /\ Layout(c, p4[k].slots)
    BY <1>5, <1>15, <1>19, <2>1 DEF p0
  <2>3. ASSUME NEW i \in 1..c.count, NEW d \in Side, Valid(in, k[d], p0[k].slots[i].host[d])
        PROVE  p4[k].slots[i].host[d] = p0[k].slots[i].host[d]
    <3>1. CASE k \in Wanted(in)
      <4>1. p1[k].slots[i] = p0[k].slots[i]
        BY <1>7, <2>1, <2>2, <3>1 DEF SameBase
      <4>2. Valid(in, k[d], p1[k].slots[i].host[d]) =>
                p4[k].slots[i].host[d] = p1[k].slots[i].host[d]
        BY <1>16, <3>1, Zenon
      <4> QED BY <2>3, <4>1, <4>2, Zenon
    <3>2. CASE k \notin Wanted(in)
      BY <1>17, <2>1, <2>3, <3>2 DEF SameBase
    <3> QED BY <3>1, <3>2
  <2> QED BY <2>1, <2>2, <2>3
<1>26. ASSUME NEW k \in DOMAIN new.pairings
       PROVE  /\ Layout(c, Slots(new, k))
              /\ IsActive(new.pairings[k]) <=> k \in Wanted(in)
              /\ c.hold > 0 => new.pairings[k].left # 0
              /\ c.superHosts = 0 => Len(Slots(new, k)) = c.count
  <2> HIDE DEF new
  <2>1. k \in DOMAIN p1 /\ k \in DOMAIN p2 /\ k \in DOMAIN p3 /\ k \in DOMAIN p4
        /\ new.pairings[k] = p4[k] /\ Slots(new, k) = p4[k].slots
    BY <1>6, <1>8, <1>15 DEF Slots
  <2>2. c.superHosts = 0 => Len(p3[k].slots) = c.count
    BY <1>12, <2>1
  <2>3. CASE k \in Wanted(in)
    <3> DEFINE v == FillSides(in, k, p3[k].slots)
    <3>3. p4[k] = [slots |-> v, left |-> Never] /\ Len(p4[k].slots) = Len(p3[k].slots)
      BY <1>16, <2>3, Zenon
    <3> HIDE DEF v
    <3>1. p4[k].left = Never /\ Len(p4[k].slots) = Len(p3[k].slots)
      BY <3>3
    <3>2. IsActive(p4[k]) /\ p4[k].left # 0
      BY <3>1 DEF IsActive, Never
    <3> QED BY <1>19, <2>1, <2>2, <2>3, <3>1, <3>2
  <2>4. CASE k \notin Wanted(in)
    BY <1>7, <1>17, <1>19, <2>1, <2>2, <2>4
  <2> QED BY <2>3, <2>4
<1>27. new.rule = in.topo.rule /\ new.slots = SlotsFingerprint(c)
  BY <1>3, <1>6
<1> HIDE DEF new
<1> QED BY <1>6, <1>22, <1>23, <1>24, <1>25, <1>26, <1>27 DEF new, old, sup

-----------------------------------------------------------------------------
(* The loop.                                                                 *)

\* The inductive invariant: of the installed table and of every table that
\* a run has computed.  Without reloads the scanner's configuration is the
\* current one.
RunInv(r) ==
    pc[r] # "idle" => /\ TableInv(run[r].state)
                      /\ ~Reloads => DiverseOK(cfg, run[r].state)

LoopInv ==
    /\ TypeOK /\ TableInv(cur)
    /\ ~Reloads => topo = cfg /\ DiverseOK(cfg, cur)
    /\ \A r \in Requester : RunInv(r)

LEMMA EmptyTable ==
    ASSUME NEW st, st = [rule |-> <<>>, slots |-> <<>>, pairings |-> <<>>, supers |-> <<>>]
    PROVE  TableInv(st) /\ \A c : DiverseOK(c, st)
<1>1. /\ st = [rule |-> st.rule, slots |-> st.slots,
               pairings |-> st.pairings, supers |-> st.supers]
      /\ DOMAIN st.pairings = {} /\ DOMAIN st.supers = {}
  OBVIOUS
<1>2. TableOK(st)
  BY <1>1 DEF TableOK
<1> QED BY <1>1, <1>2 DEF TableInv, LayoutOK, AnchorsOK, SupersOK, DiverseOK

LEMMA OlderFacts ==
    ASSUME NEW st, TableInv(st)
    PROVE  TableInv(Older(st)) /\ \A c : DiverseOK(c, st) => DiverseOK(c, Older(st))
<1> DEFINE q   == [k \in DOMAIN st.pairings |->
                      [st.pairings[k] EXCEPT !.left = IF @ > 0 THEN @ - 1 ELSE @]]
           new == Older(st)
<1>1. /\ st = [rule |-> st.rule, slots |-> st.slots,
               pairings |-> st.pairings, supers |-> st.supers]
      /\ \A k \in DOMAIN st.pairings : st.pairings[k] \in PairingType
      /\ DOMAIN st.pairings \subseteq Keys
      /\ \A z \in DOMAIN st.supers : st.supers[z] \subseteq Hosts
  BY DEF TableInv, TableOK
<1>2. ASSUME NEW k \in DOMAIN st.pairings
      PROVE  q[k] \in PairingType /\ q[k].slots = st.pairings[k].slots
  <2> DEFINE p == st.pairings[k]
  <2>1. /\ p = [slots |-> p.slots, left |-> p.left]
        /\ p.slots \in Seq(SlotType) /\ p.left \in Nat \cup {Never}
    BY <1>1 DEF PairingType
  <2>2. q[k] = [p EXCEPT !.left = IF @ > 0 THEN @ - 1 ELSE @]
    OBVIOUS
  <2> HIDE DEF p, q
  <2>3. q[k] = [slots |-> p.slots, left |-> IF p.left > 0 THEN p.left - 1 ELSE p.left]
    BY <2>1, <2>2
  <2>4. (IF p.left > 0 THEN p.left - 1 ELSE p.left) \in Nat \cup {Never}
    BY <2>1 DEF Never
  <2> QED BY <2>1, <2>3, <2>4 DEF PairingType, p
<1>3. DOMAIN q = DOMAIN st.pairings
  OBVIOUS
<1>4. new = [st EXCEPT !.pairings = q]
  BY Zenon DEF Older
<1> HIDE DEF q
<1>5. /\ new = [rule |-> new.rule, slots |-> new.slots,
                pairings |-> new.pairings, supers |-> new.supers]
      /\ new.rule = st.rule /\ new.slots = st.slots
      /\ new.pairings = q /\ new.supers = st.supers
  <2> HIDE DEF new
  <2> QED BY <1>1, <1>4
<1> HIDE DEF new
<1>6. TableOK(new)
  BY <1>1, <1>2, <1>3, <1>5 DEF TableOK
<1>7. \A k \in DOMAIN new.pairings : k \in DOMAIN st.pairings /\ Slots(new, k) = Slots(st, k)
  BY <1>2, <1>3, <1>5 DEF Slots
<1>8. LayoutOK(new) /\ AnchorsOK(new)
  BY <1>5, <1>7 DEF TableInv, LayoutOK, AnchorsOK
<1>9. SupersOK(new)
  BY <1>5 DEF TableInv, SupersOK
<1>10. \A c : DiverseOK(c, st) => DiverseOK(c, new)
  BY <1>5, <1>7 DEF DiverseOK
<1> QED BY <1>6, <1>8, <1>9, <1>10 DEF TableInv, new

LEMMA InputTyped ==
    ASSUME TypeOK
    PROVE  /\ InputOK(Input)
           /\ Input.inv = inv /\ Input.eligible = healthy
           /\ Input.cfg = cfg /\ Input.topo = topo
<1>1. DOMAIN inv \subseteq Hosts
  BY HostAssumption DEF TypeOK
<1> QED BY <1>1 DEF TypeOK, InputOK, Input

\* A task belongs to a slot of the table, and its target is in the snapshot.
LEMMA DesiredTyped ==
    ASSUME NEW st, TableOK(st), NEW snap \in Inventories \cup {<<>>},
           NEW t \in Desired(st, snap)
    PROVE  t[1] \in Keys /\ t[2] \in Nat /\ t[3] \in Hosts
<1> DEFINE A == {k \in DOMAIN st.pairings : IsActive(st.pairings[k])}
           E == UNION {{k} \X (DOMAIN st.pairings[k].slots) \X Side : k \in A}
           Target(e) == st.pairings[e[1]].slots[e[2]].host[3 - e[3]]
<1>1. PICK e \in E : /\ Target(e) \in DOMAIN snap
                     /\ t = <<e[1], e[2], Target(e), snap[Target(e)].addr>>
  BY DEF Desired
<1>2. PICK k \in A : e[1] = k /\ e[2] \in DOMAIN st.pairings[k].slots
  <2>1. PICK k \in A : e \in {k} \X (DOMAIN st.pairings[k].slots) \X Side
    <3> HIDE DEF A
    <3> QED BY <1>1
  <2> QED BY <2>1
<1>3. k \in Keys /\ st.pairings[k].slots \in Seq(SlotType)
  BY <1>2 DEF TableOK, PairingType
<1>4. e[2] \in Nat
  BY <1>2, <1>3, SeqDomain
<1>5. DOMAIN snap \subseteq Hosts
  BY HostAssumption
<1> HIDE DEF E, A, Target
<1> QED BY <1>1, <1>2, <1>3, <1>4, <1>5

LEMMA LoopInit == Init => LoopInv
<1> SUFFICES ASSUME Init
             PROVE  LoopInv
  OBVIOUS
<1>1. TableInv(cur) /\ \A c : DiverseOK(c, cur)
  BY EmptyTable DEF Init
<1>2. TypeOK
  <2>1. TableOK(cur)
    BY <1>1 DEF TableInv
  <2>2. /\ inv \in Inventories \cup {<<>>} /\ healthy \subseteq Hosts
        /\ cfg \in Configs /\ topo \in Configs
        /\ tasks = {} /\ ready \in BOOLEAN
    BY Zenon DEF Init
  <2>4. restarts \in 0..MaxRestarts
    BY BoundAssumption DEF Init
  <2>3. /\ pc \in [Requester -> {"idle", "computed", "installed"}]
        /\ DOMAIN run = Requester
        /\ \A r \in Requester : pc[r] = "idle" /\ run[r] = NoRun
    BY DEF Init
  <2> QED BY <2>1, <2>2, <2>3, <2>4 DEF TypeOK, RunOK
<1>3. \A r \in Requester : RunInv(r)
  BY DEF Init, RunInv
<1> QED BY <1>1, <1>2, <1>3 DEF LoopInv, Init

LEMMA BeginStep ==
    ASSUME LoopInv, NEW r \in Requester, Begin(r)
    PROVE  LoopInv'
<1> DEFINE out == Reconcile(Input, cur)
<1>1. /\ TypeOK /\ TableInv(cur) /\ InputOK(Input)
      /\ Input.cfg = cfg /\ Input.topo = topo
      /\ ~Reloads => topo = cfg /\ DiverseOK(cfg, cur)
      /\ \A q \in Requester : RunInv(q)
  BY InputTyped DEF LoopInv
<1>2. CASE TooMany(Input)
  <2>1. UNCHANGED vars
    BY <1>2 DEF Begin, vars
  <2> QED BY <1>1, <2>1 DEF vars, LoopInv, TypeOK, RunInv, RunOK
<1>3. CASE ~TooMany(Input)
  <2>1. /\ pc[r] = "idle"
        /\ pc' = [pc EXCEPT ![r] = "computed"]
        /\ run' = [run EXCEPT ![r] = [snap |-> inv, state |-> out.state,
                                      delta |-> out.delta]]
        /\ UNCHANGED <<inv, healthy, cfg, topo, cur, tasks, ready, restarts>>
    BY <1>3 DEF Begin
  <2>2. /\ TableInv(out.state)
        /\ ~topo.reuse /\ topo = cfg /\ DiverseOK(cfg, cur) => DiverseOK(cfg, out.state)
    BY <1>1, ReconcileFacts
  <2>3. ~Reloads => DiverseOK(cfg, out.state)
    <3>1. cfg.reuse => DiverseOK(cfg, out.state)
      BY DEF DiverseOK
    <3> QED BY <1>1, <2>2, <3>1
  <2> DEFINE st == out.state
             dl == out.delta
  <2> HIDE DEF st, dl
  <2>4. /\ pc \in [Requester -> {"idle", "computed", "installed"}]
        /\ DOMAIN run = Requester
    BY <1>1 DEF TypeOK
  <2>5. /\ pc'[r] = "computed"
        /\ run'[r] = [snap |-> inv, state |-> st, delta |-> dl]
        /\ \A q \in Requester \ {r} : pc'[q] = pc[q] /\ run'[q] = run[q]
        /\ DOMAIN run' = Requester
        /\ pc' \in [Requester -> {"idle", "computed", "installed"}]
    BY <2>1, <2>4 DEF st, dl
  <2>6. run'[r].snap = inv /\ run'[r].state = st /\ run'[r].delta = dl
    BY <2>5
  <2>7. ASSUME NEW q \in Requester
        PROVE  /\ RunInv(q)'
               /\ RunOK(q)'
    <3>1. CASE q = r
      <4>1. inv \in Inventories \cup {<<>>}
        BY <1>1 DEF TypeOK
      <4>2. TableInv(st) /\ (~Reloads => DiverseOK(cfg, st)) /\ cfg' = cfg
        BY <2>1, <2>2, <2>3 DEF st
      <4>3. TableOK(st)
        BY <4>2 DEF TableInv
      <4>4. RunInv(q)'
        BY <2>6, <3>1, <4>2 DEF RunInv
      <4> QED BY <2>5, <2>6, <3>1, <4>1, <4>3, <4>4 DEF RunOK
    <3>2. CASE q # r
      <4>1. pc'[q] = pc[q] /\ run'[q] = run[q] /\ cfg' = cfg
        BY <2>1, <2>5, <3>2
      <4> QED BY <1>1, <4>1 DEF TypeOK, RunInv, RunOK
    <3> QED BY <3>1, <3>2
  <2>8. TypeOK'
    BY <1>1, <2>1, <2>5, <2>7 DEF TypeOK
  <2> QED BY <1>1, <2>1, <2>7, <2>8 DEF LoopInv
<1> QED BY <1>2, <1>3

LEMMA InstallStep ==
    ASSUME LoopInv, NEW r \in Requester, Install(r)
    PROVE  LoopInv'
<1>1. /\ pc[r] = "computed" /\ cur' = run[r].state
      /\ pc' = [pc EXCEPT ![r] = "installed"]
      /\ UNCHANGED <<inv, healthy, cfg, topo, tasks, ready, run, restarts>>
  BY DEF Install
<1>2. pc \in [Requester -> {"idle", "computed", "installed"}]
  BY DEF LoopInv, TypeOK
<1>3. \A q \in Requester : pc[q] = "idle" <=> pc'[q] = "idle"
  BY <1>1, <1>2
<1>4. pc' \in [Requester -> {"idle", "computed", "installed"}]
  BY <1>1, <1>2
<1>5. TableInv(cur') /\ (~Reloads => DiverseOK(cfg', cur'))
  BY <1>1 DEF LoopInv, RunInv
<1>6. \A q \in Requester : RunInv(q)'
  BY <1>1, <1>3 DEF LoopInv, RunInv
<1>7. TypeOK'
  BY <1>1, <1>3, <1>4, <1>5 DEF LoopInv, TypeOK, TableInv, RunOK
<1> QED BY <1>1, <1>5, <1>6, <1>7 DEF LoopInv

LEMMA FinishStep ==
    ASSUME LoopInv, NEW r \in Requester, Finish(r)
    PROVE  LoopInv'
<1>1. /\ pc[r] # "idle"
      /\ tasks' \in {Desired(run[r].state, run[r].snap), tasks}
      /\ ready' = TRUE
      /\ pc' = [pc EXCEPT ![r] = "idle"]
      /\ run' = [run EXCEPT ![r] = NoRun]
      /\ UNCHANGED <<inv, healthy, cfg, topo, cur, restarts>>
  BY DEF Finish
<1>2. /\ pc \in [Requester -> {"idle", "computed", "installed"}]
      /\ DOMAIN run = Requester
      /\ TableOK(run[r].state) /\ run[r].snap \in Inventories \cup {<<>>}
  BY <1>1 DEF LoopInv, TypeOK, RunOK
<1>3. /\ pc'[r] = "idle" /\ run'[r] = NoRun
      /\ \A q \in Requester \ {r} : pc'[q] = pc[q] /\ run'[q] = run[q]
      /\ pc' \in [Requester -> {"idle", "computed", "installed"}]
      /\ DOMAIN run' = Requester
  BY <1>1, <1>2
<1>4. \A t \in tasks' : t[1] \in Keys /\ t[2] \in Nat /\ t[3] \in Hosts
  <2>1. \A t \in Desired(run[r].state, run[r].snap) :
            t[1] \in Keys /\ t[2] \in Nat /\ t[3] \in Hosts
    BY <1>2, DesiredTyped
  <2>2. \A t \in tasks : t[1] \in Keys /\ t[2] \in Nat /\ t[3] \in Hosts
    BY DEF LoopInv, TypeOK
  <2> QED BY <1>1, <2>1, <2>2
<1>5. \A q \in Requester : RunInv(q)'
  BY <1>1, <1>3 DEF LoopInv, RunInv
<1>6. \A q \in Requester : RunOK(q)'
  BY <1>3 DEF LoopInv, TypeOK, RunOK
<1>7. TypeOK'
  BY <1>1, <1>3, <1>4, <1>6 DEF LoopInv, TypeOK
<1> QED BY <1>1, <1>5, <1>7 DEF LoopInv

LEMMA ElapseStep ==
    ASSUME LoopInv, Elapse
    PROVE  LoopInv'
<1>1. /\ cur' = Older(cur)
      /\ run' = [r \in Requester |-> IF run[r] = NoRun THEN NoRun
                                     ELSE [run[r] EXCEPT !.state = Older(@)]]
      /\ UNCHANGED <<inv, healthy, cfg, topo, tasks, ready, pc, restarts>>
  BY DEF Elapse
<1>2. TableInv(cur') /\ (~Reloads => DiverseOK(cfg, cur'))
  BY <1>1, OlderFacts DEF LoopInv
<1>3. ASSUME NEW q \in Requester
      PROVE  /\ RunInv(q)'
             /\ RunOK(q)'
  <2>1. CASE pc[q] = "idle"
    <3>1. run[q] = NoRun /\ pc'[q] = "idle"
      BY <1>1, <2>1 DEF LoopInv, TypeOK, RunOK
    <3>2. run'[q] = NoRun
      BY <1>1, <3>1
    <3> QED BY <3>1, <3>2 DEF RunInv, RunOK
  <2>2. CASE pc[q] # "idle"
    <3>1. /\ run[q] = [snap |-> run[q].snap, state |-> run[q].state,
                       delta |-> run[q].delta]
          /\ run[q].snap \in Inventories \cup {<<>>} /\ pc'[q] = pc[q] /\ cfg' = cfg
          /\ TableInv(run[q].state) /\ (~Reloads => DiverseOK(cfg, run[q].state))
      BY <1>1, <2>2 DEF LoopInv, TypeOK, RunInv, RunOK
    <3>2. run[q] # NoRun
      <4>1. DOMAIN run[q] = {"snap", "state", "delta"}
        BY <3>1
      <4>2. DOMAIN NoRun = {}
        BY DEF NoRun
      <4> QED BY <4>1, <4>2
    <3>3. run'[q] = [run[q] EXCEPT !.state = Older(run[q].state)]
      BY <1>1, <3>2
    <3>4. run'[q] = [snap |-> run[q].snap, state |-> Older(run[q].state),
                     delta |-> run[q].delta]
      BY <3>1, <3>3
    <3>5. /\ TableInv(Older(run[q].state))
          /\ ~Reloads => DiverseOK(cfg, Older(run[q].state))
      BY <3>1, OlderFacts
    <3>6. TableOK(Older(run[q].state))
      BY <3>5 DEF TableInv
    <3>7. run'[q].snap = run[q].snap /\ run'[q].state = Older(run[q].state)
          /\ run'[q].delta = run[q].delta
      BY <3>4
    <3>8. RunInv(q)'
      <4>1. TableInv(run'[q].state) /\ (~Reloads => DiverseOK(cfg', run'[q].state))
        BY <3>1, <3>5, <3>7
      <4> QED BY <4>1 DEF RunInv
    <3>9. RunOK(q)'
      BY <2>2, <3>1, <3>4, <3>6, <3>7 DEF RunOK
    <3> QED BY <3>8, <3>9
  <2> QED BY <2>1, <2>2
<1>4. TypeOK'
  BY <1>1, <1>2, <1>3 DEF LoopInv, TypeOK, TableInv
<1> QED BY <1>1, <1>2, <1>3, <1>4 DEF LoopInv

LEMMA LoopStep == LoopInv /\ [Next]_vars => LoopInv'
<1> SUFFICES ASSUME LoopInv, [Next]_vars
             PROVE  LoopInv'
  OBVIOUS
<1>1. ASSUME NEW r \in Requester, Begin(r)
      PROVE  LoopInv'
  BY <1>1, BeginStep
<1>2. ASSUME NEW r \in Requester, Install(r)
      PROVE  LoopInv'
  BY <1>2, InstallStep
<1>3. ASSUME NEW r \in Requester, Finish(r)
      PROVE  LoopInv'
  BY <1>3, FinishStep
<1>4. CASE Discover
  BY <1>4 DEF Discover, LoopInv, TypeOK, RunInv, RunOK
<1>5. ASSUME NEW h \in Frail, HealthChange(h)
      PROVE  LoopInv'
  BY <1>5, HostAssumption DEF HealthChange, LoopInv, TypeOK, RunInv, RunOK
<1>6. CASE Reload
  BY <1>6 DEF Reload, LoopInv, TypeOK, RunInv, RunOK
<1>7. CASE OnConfig
  BY <1>7 DEF OnConfig, LoopInv, TypeOK, RunInv, RunOK
<1>8. CASE Elapse
  BY <1>8, ElapseStep
<1>9. CASE Restart
  <2>1. /\ inv' = <<>> /\ healthy' = Hosts /\ topo' = cfg
        /\ tasks' = {} /\ ready' = FALSE /\ restarts' = restarts + 1
        /\ restarts < MaxRestarts /\ UNCHANGED <<cfg, cur, pc, run>>
    BY <1>9 DEF Restart
  <2>2. restarts' \in 0..MaxRestarts
    BY <2>1, BoundAssumption DEF LoopInv, TypeOK
  <2>3. ready' \in BOOLEAN /\ topo' \in Configs
    BY <2>1 DEF LoopInv, TypeOK
  <2>4. TypeOK'
    BY <2>1, <2>2, <2>3 DEF LoopInv, TypeOK, RunOK
  <2> QED BY <2>1, <2>4 DEF LoopInv, RunInv
<1>10. CASE UNCHANGED vars
  BY <1>10 DEF vars, LoopInv, TypeOK, RunInv, RunOK
<1> QED BY <1>1, <1>2, <1>3, <1>4, <1>5, <1>6, <1>7, <1>8, <1>9, <1>10 DEF Next

\* Every table, installed or computed, is well formed.
THEOREM Inductive == Spec => []LoopInv
<1> QED BY LoopInit, LoopStep, PTL DEF Spec

\* Every reachable table, and everything the loop keeps, has its type.
THEOREM TypeCorrect == Spec => []TypeOK
<1>1. LoopInv => TypeOK
  BY DEF LoopInv
<1> QED BY <1>1, Inductive, PTL

\* fillAnchors: the anchor set of a pairing changes together, through any
\* sequence of failures, refills, removal holds, reloads and restarts.
THEOREM AnchorsAlwaysTogether == Spec => []AnchorsTogether
<1>1. LoopInv => AnchorsTogether
  BY DEF LoopInv, TableInv, AnchorsOK, Agree, AnchorsTogether, OfClass
<1> QED BY <1>1, Inductive, PTL

\* fillDiverse: without allow_reuse, and without reloads, the diverse slots
\* of a pairing hold different hosts on each side.
THEOREM DiverseAlwaysIndependent == Spec => []DiverseIndependent
<1>1. LoopInv => DiverseIndependent
  BY DEF LoopInv, DiverseOK, Distinct, DiverseIndependent, OfClass
<1> QED BY <1>1, Inductive, PTL

LEMMA BeginResult ==
    ASSUME LoopInv, NEW r \in Requester, Begin(r), pc'[r] # "idle"
    PROVE  /\ run'[r].state = Reconcile(Input, cur).state
           /\ InputOK(Input) /\ Input.cfg = cfg /\ Input.topo = topo
           /\ cfg \in Configs /\ TableInv(cur) /\ TableInv(run'[r].state)
           /\ Rebuilt(Input, cur).slots = SlotsFingerprint(cfg)
<1>1. /\ pc[r] = "idle" /\ DOMAIN run = Requester /\ TableInv(cur) /\ cfg \in Configs
  BY DEF LoopInv, TypeOK, Begin
<1>2. InputOK(Input) /\ Input.cfg = cfg /\ Input.topo = topo
  BY InputTyped DEF LoopInv
<1> DEFINE out == Reconcile(Input, cur)
<1>3. run' = [run EXCEPT ![r] = [snap |-> inv, state |-> out.state, delta |-> out.delta]]
  BY <1>1 DEF Begin
<1> HIDE DEF out
<1>4. run'[r].state = out.state
  BY <1>1, <1>3
<1>5. TableInv(out.state)
  BY <1>1, <1>2, ReconcileFacts DEF out
<1>6. Rebuilt(Input, cur).slots = SlotsFingerprint(cfg)
  BY <1>1, <1>2, RebuiltFacts
<1> QED BY <1>1, <1>2, <1>4, <1>5, <1>6 DEF out

LEMMA TableSlots ==
    ASSUME NEW c \in Configs, NEW st, TableOK(st), NEW k \in DOMAIN st.pairings,
           Layout(c, Slots(st, k))
    PROVE  BaseOf(st, k) = 1..c.count
<1>1. Slots(st, k) \in Seq(SlotType)
  BY DEF TableOK, PairingType, Slots
<1> QED BY <1>1, BaseLayout DEF BaseOf

\* Continuity: a run never moves a host that is still valid in its side.
THEOREM ValidSidesKept == Spec => KeepsValidSides
<1> DEFINE Step == \A r \in Requester : (Begin(r) /\ pc'[r] # "idle") =>
                LET new == run'[r].state IN
                cur = Rebuilt(Input, cur) =>
                    \A k \in DOMAIN cur.pairings \cap DOMAIN new.pairings :
                        \A i \in BaseOf(cur, k) : \A s \in Side :
                            LET h == Slots(cur, k)[i].host[s]
                            IN  Valid(Input, k[s], h) => Slots(new, k)[i].host[s] = h
<1>1. ASSUME LoopInv, NEW r \in Requester, Begin(r), pc'[r] # "idle",
             cur = Rebuilt(Input, cur), NEW new, new = run'[r].state,
             NEW k \in DOMAIN cur.pairings \cap DOMAIN new.pairings,
             NEW i \in BaseOf(cur, k), NEW s \in Side,
             Valid(Input, k[s], Slots(cur, k)[i].host[s])
      PROVE  Slots(new, k)[i].host[s] = Slots(cur, k)[i].host[s]
  <2>1. /\ new = Reconcile(Input, cur).state /\ InputOK(Input) /\ Input.cfg = cfg
        /\ cfg \in Configs /\ TableInv(cur)
    BY <1>1, BeginResult
  <2>2. /\ Layout(cfg, Slots(cur, k))
        /\ \A j \in 1..cfg.count : \A d \in Side :
               Valid(Input, k[d], Slots(cur, k)[j].host[d]) =>
                   Slots(new, k)[j].host[d] = Slots(cur, k)[j].host[d]
    BY <1>1, <2>1, ReconcileFacts
  <2>3. BaseOf(cur, k) = 1..cfg.count
    BY <2>1, <2>2, TableSlots DEF TableInv
  <2> QED BY <1>1, <2>2, <2>3
<1>2. LoopInv /\ [Next]_vars => [Step]_vars
  BY <1>1
<1> QED BY <1>2, Inductive, PTL DEF Spec, KeepsValidSides

\* A run fills every side of a wanted pairing that can be filled, with
\* present and eligible hosts of the zone.
THEOREM AlwaysAssigns == Spec => Assigns
<1> DEFINE Settles(new, k, i, s) ==
               LET slot == Slots(new, k)[i]
                   C    == Candidates(Input, k, s)
               IN  IF slot.host[s] # None THEN slot.host[s] \in C
                   ELSE \/ C \subseteq {slot.host[3 - s]}
                        \/ /\ ~topo.reuse /\ slot.class = "diverse"
                           /\ \A h \in C : h # slot.host[3 - s] =>
                                  UseCount(Slots(new, k), s, h) > 0
           Step == \A r \in Requester : (Begin(r) /\ pc'[r] # "idle") =>
                LET new == run'[r].state IN
                \A k \in Wanted(Input) : \A i \in BaseOf(new, k) : \A s \in Side :
                    Settles(new, k, i, s)
<1>1. ASSUME LoopInv, NEW r \in Requester, Begin(r), pc'[r] # "idle",
             NEW new, new = run'[r].state,
             NEW k \in Wanted(Input), NEW i \in BaseOf(new, k), NEW s \in Side
      PROVE  Settles(new, k, i, s)
  <2>1. /\ new = Reconcile(Input, cur).state /\ InputOK(Input)
        /\ Input.cfg = cfg /\ Input.topo = topo
        /\ cfg \in Configs /\ TableInv(cur) /\ TableInv(new)
    BY <1>1, BeginResult
  <2>2. /\ k \in DOMAIN new.pairings /\ Layout(cfg, Slots(new, k))
        /\ \A j \in 1..cfg.count : \A d \in Side : Settled(Input, k, Slots(new, k), j, d)
    BY <2>1, ReconcileFacts
  <2>3. BaseOf(new, k) = 1..cfg.count
    BY <2>1, <2>2, TableSlots DEF TableInv
  <2>4. Settled(Input, k, Slots(new, k), i, s)
    BY <2>2, <2>3
  <2> QED BY <2>1, <2>4 DEF Settled
<1>2. LoopInv /\ [Next]_vars => [Step]_vars
  <2> HIDE DEF Settles
  <2> QED BY <1>1
<1> QED BY <1>2, Inductive, PTL DEF Spec, Assigns

\* PickSuper: a run drops a super host only when it is no longer valid, or
\* when the zone has more of them than the scanner wants.
THEOREM SuperAlwaysSticky == Spec => SuperSticky
<1> DEFINE Step == \A r \in Requester : (Begin(r) /\ pc'[r] # "idle") =>
                (cur = Rebuilt(Input, cur) =>
                    \A z \in DOMAIN cur.supers : \A h \in cur.supers[z] :
                        Valid(Input, z, h) /\ Cardinality(cur.supers[z]) <= topo.superHosts =>
                            h \in SupersOf(run'[r].state.supers, z))
<1>1. ASSUME LoopInv, NEW r \in Requester, Begin(r), pc'[r] # "idle",
             cur = Rebuilt(Input, cur),
             NEW z \in DOMAIN cur.supers, NEW h \in cur.supers[z],
             Valid(Input, z, h), Cardinality(cur.supers[z]) <= topo.superHosts
      PROVE  h \in SupersOf(run'[r].state.supers, z)
  <2>1. /\ run'[r].state = Reconcile(Input, cur).state /\ InputOK(Input)
        /\ Input.cfg = cfg /\ Input.topo = topo /\ cfg \in Configs /\ TableInv(cur)
        /\ cur.slots = SlotsFingerprint(cfg)
    BY <1>1, BeginResult
  <2>2. run'[r].state.supers = NextSupers(Input, cur.supers)
    BY <1>1, <2>1, ReconcileFacts
  <2>3. z # None /\ cfg.superHosts # 0
    BY <2>1 DEF TableInv, SupersOK
  <2>4. \A y \in DOMAIN cur.supers : cur.supers[y] \subseteq Hosts
    BY <2>1 DEF TableInv, TableOK
  <2>5. h \in SupersOf(NextSupers(Input, cur.supers), z)
    BY <1>1, <2>1, <2>3, <2>4, NextSupersFacts
  <2> QED BY <2>2, <2>5
<1>2. LoopInv /\ [Next]_vars => [Step]_vars
  BY <1>1
<1> QED BY <1>2, Inductive, PTL DEF Spec, SuperSticky

-----------------------------------------------------------------------------
(* A second run on the same inputs.                                          *)

\* The same hosts in the same places.
SameHosts(s, t) ==
    /\ Len(t) = Len(s)
    /\ \A i \in DOMAIN s :
           /\ t[i].class = s[i].class
           /\ \A d \in Side : t[i].host[d] = s[i].host[d]

\* A table of base slots that the scanner can do nothing for.
Full(in, k, s) ==
    /\ s \in Seq(SlotType) /\ \A d \in Side : Agree(s, d)
    /\ \A i \in DOMAIN s : /\ IsBase(s[i])
                           /\ \A d \in Side : Settled(in, k, s, i, d)

LEMMA SameHostsFacts ==
    ASSUME NEW s \in Seq(SlotType), NEW t \in Seq(SlotType), SameHosts(s, t)
    PROVE  /\ SameHosts(s, s) /\ SameHosts(t, s) /\ DOMAIN s = DOMAIN t
           /\ \A u \in Seq(SlotType) : SameHosts(t, u) => SameHosts(s, u)
           /\ \A in, k : Full(in, k, s) => Full(in, k, t)
<1>1. DOMAIN s = 1..Len(s) /\ DOMAIN t = 1..Len(t) /\ DOMAIN s = DOMAIN t
  BY DEF SameHosts
<1>2. SameHosts(s, s) /\ SameHosts(t, s)
  BY <1>1 DEF SameHosts
<1>3. ASSUME NEW u \in Seq(SlotType), SameHosts(t, u)
      PROVE  SameHosts(s, u)
  BY <1>1, <1>3 DEF SameHosts
<1>4. ASSUME NEW in, NEW k, Full(in, k, s)
      PROVE  Full(in, k, t)
  <2>1. \A d \in Side : Agree(t, d)
    BY <1>1, <1>4 DEF Full, Agree, SameHosts
  <2>2. \A i \in DOMAIN t : IsBase(t[i])
    BY <1>1, <1>4 DEF Full, SameHosts, IsBase
  <2>3. ASSUME NEW i \in DOMAIN s, NEW d \in Side
        PROVE  Settled(in, k, t, i, d)
    <3>1. 3 - d \in Side
      BY DEF Side
    <3>2. /\ t[i].class = s[i].class /\ t[i].host[d] = s[i].host[d]
          /\ t[i].host[3 - d] = s[i].host[3 - d]
      BY <3>1 DEF SameHosts
    <3>3. \A h : UseCount(t, d, h) = UseCount(s, d, h)
      <4>1. \A h : {j \in DOMAIN t : t[j].host[d] = h} = {j \in DOMAIN s : s[j].host[d] = h}
        BY <1>1 DEF SameHosts
      <4> QED BY <4>1 DEF UseCount
    <3>4. Settled(in, k, s, i, d)
      BY <1>4 DEF Full
    <3> QED BY <3>2, <3>3, <3>4 DEF Settled
  <2> QED BY <1>1, <2>1, <2>2, <2>3 DEF Full
<1> QED BY <1>1, <1>2, <1>3, <1>4

\* Where a side is empty, the other side's host, when it may not be taken,
\* is the only candidate, or reuse is not allowed and all are used.
LEMMA NothingLeft ==
    ASSUME NEW in, InputOK(in), NEW k, NEW s, Full(in, k, s),
           NEW i \in DOMAIN s, NEW d \in Side, s[i].host[d] = None
    PROVE  LET C   == Candidates(in, k, d)
               far == s[i].host[3 - d] IN
           \/ k[1] = k[2] /\ far # None /\ C \subseteq {far}
           \/ C = {}
           \/ /\ ~in.topo.reuse /\ s[i].class = "diverse"
              /\ \A h \in C : (k[1] = k[2] /\ h = far) \/ UseCount(s, d, h) > 0
<1> DEFINE C   == Candidates(in, k, d)
           e   == 3 - d
           far == s[i].host[e]
<1>1. None \notin C /\ None \notin Candidates(in, k, e) /\ e \in Side
  BY CandidatesFacts DEF Side
<1>2. \/ C \subseteq {far}
      \/ /\ ~in.topo.reuse /\ s[i].class = "diverse"
         /\ \A h \in C : h # far => UseCount(s, d, h) > 0
  BY DEF Full, Settled
<1>3. k[1] # k[2] => far \notin C
  <2>1. far = None \/ far \in Candidates(in, k, e)
    BY <1>1 DEF Full, Settled
  <2>2. k[1] # k[2] => k[d] # k[e]
    BY DEF Side
  <2>3. \A h : h \in C /\ h \in Candidates(in, k, e) => k[d] = k[e]
    BY DEF Candidates, Members
  <2> HIDE DEF far, C, e
  <2> QED BY <1>1, <2>1, <2>2, <2>3
<1>4. far = None => far \notin C
  BY <1>1
<1> HIDE DEF far, C
<1>5. CASE C \subseteq {far}
  BY <1>3, <1>4, <1>5 DEF far, C
<1>6. CASE /\ ~in.topo.reuse /\ s[i].class = "diverse"
           /\ \A h \in C : h # far => UseCount(s, d, h) > 0
  BY <1>3, <1>6 DEF far, C
<1> QED BY <1>2, <1>5, <1>6

LEMMA AnchorsIdle ==
    ASSUME NEW in, InputOK(in), NEW k \in Keys, NEW s, Full(in, k, s), NEW d \in Side
    PROVE  LET t == FillAnchors(in, k, s, d) IN
           t \in Seq(SlotType) /\ SameHosts(s, t)
<1> DEFINE t       == FillAnchors(in, k, s, d)
           C       == Candidates(in, k, d)
           anchors == {i \in DOMAIN s : s[i].class = "anchor"}
           Held(e) == {i \in anchors : s[i].host[e] # None}
           far     == IF k[1] = k[2] THEN {s[i].host[3 - d] : i \in Held(3 - d)} ELSE {}
           first   == CHOOSE i \in Held(d) : \A j \in Held(d) : i <= j
           choice  == IF Held(d) # {} THEN <<s[first].host[d], MinUse>>
                      ELSE PickAnchor(in, k, s, d, far)
           e       == 3 - d
<1>1. t = [i \in DOMAIN s |-> IF i \in anchors \ Held(d)
                              THEN SetHost(s[i], d, choice[1], choice[2]) ELSE s[i]]
  BY DEF FillAnchors
<1>2. /\ s \in Seq(SlotType) /\ e \in Side /\ DOMAIN s = 1..Len(s) /\ Len(s) \in Nat
      /\ \A i \in DOMAIN s : s[i] \in SlotType
  BY SeqDomain DEF Full, Side
<1>3. ASSUME NEW i \in anchors \ Held(d)
      PROVE  choice[1] = None /\ choice[2] \in Unfilled..AnyUse
  <2>1. \A j \in anchors : s[j].host[d] = None
    BY <1>3 DEF Full, Agree
  <2>2. Held(d) = {}
    BY <2>1
  <2>3. C \subseteq far
    <3>1. s[i].host[d] = None /\ i \in DOMAIN s /\ s[i].class # "diverse"
      BY <1>3
    <3>2. (k[1] = k[2] /\ s[i].host[e] # None /\ C \subseteq {s[i].host[e]}) \/ C = {}
      BY <3>1, NothingLeft
    <3>3. ASSUME k[1] = k[2], s[i].host[e] # None
          PROVE  s[i].host[e] \in far
      BY <1>3, <3>3
    <3> HIDE DEF C, far, e
    <3> QED BY <3>2, <3>3
  <2>4. choice = PickAnchor(in, k, s, d, far)
    BY <2>2
  <2>5. LET p == PickAnchor(in, k, s, d, far) IN
        /\ p[2] \in Unfilled..AnyUse
        /\ IF C \subseteq far THEN p[1] = None ELSE p[1] \in C \ far
    <3> HIDE DEF far
    <3> QED BY PickAnchorFacts
  <2> HIDE DEF choice, far, C
  <2> QED BY <2>3, <2>4, <2>5
<1> HIDE DEF choice, t, first
<1>4. ASSUME NEW i \in anchors \ Held(d)
      PROVE  /\ t[i] \in SlotType /\ t[i].class = s[i].class
             /\ t[i].host[d] = s[i].host[d] /\ t[i].host[e] = s[i].host[e]
  <2> DEFINE h0 == choice[1]
             r0 == choice[2]
  <2>1. t[i] = SetHost(s[i], d, h0, r0) /\ s[i] \in SlotType /\ s[i].host[d] = None
    BY <1>1, <1>2
  <2>2. h0 \in Hosts \cup {None} /\ r0 \in Unfilled..AnyUse
    BY <1>3
  <2>3. s[i] \in SlotType
    BY <1>2
  <2>5. h0 = s[i].host[d]
    BY <1>3, <2>1
  <2> HIDE DEF h0, r0
  <2>4. LET u == SetHost(s[i], d, h0, r0) IN
        /\ u \in SlotType /\ u.class = s[i].class
        /\ u.host[d] = h0 /\ u.host[3 - d] = s[i].host[3 - d]
    BY <2>2, <2>3, SetHostFacts, Zenon
  <2> QED BY <2>1, <2>4, <2>5
<1>5. ASSUME NEW i \in DOMAIN s, i \notin anchors \ Held(d)
      PROVE  t[i] = s[i]
  BY <1>1, <1>5
<1>6. t \in Seq(SlotType) /\ Len(t) = Len(s)
  <2>1. \A i \in DOMAIN s : t[i] \in SlotType
    BY <1>2, <1>4, <1>5
  <2> HIDE DEF anchors, Held
  <2> QED BY <1>1, <1>2, <2>1
<1>7. \A c \in Side : c = d \/ c = e
  BY DEF Side
<1>8. SameHosts(s, t)
  <2>1. ASSUME NEW i \in DOMAIN s
        PROVE  t[i].class = s[i].class /\ \A c \in Side : t[i].host[c] = s[i].host[c]
    <3>1. CASE i \in anchors \ Held(d)
      <4> HIDE DEF anchors, Held, e
      <4> QED BY <1>4, <1>7, <3>1
    <3>2. CASE i \notin anchors \ Held(d)
      BY <1>5, <3>2
    <3> QED BY <3>1, <3>2
  <2> QED BY <1>6, <2>1 DEF SameHosts
<1> QED BY <1>6, <1>8 DEF t

LEMMA DiverseIdle ==
    ASSUME NEW in, InputOK(in), NEW k \in Keys, NEW s, Full(in, k, s),
           NEW i \in DOMAIN s, NEW d \in Side
    PROVE  LET t == FillDiverse(in, k, s, i, d) IN
           t \in Seq(SlotType) /\ SameHosts(s, t)
<1> DEFINE t      == FillDiverse(in, k, s, i, d)
           C      == Candidates(in, k, d)
           far    == s[i].host[3 - d]
           X      == IF k[1] = k[2] /\ far # None THEN {far} ELSE {}
           choice == Pick(in, k, s, d, X)
           h0     == choice[1]
           r0     == choice[2]
           Fill   == s[i].class = "diverse" /\ s[i].host[d] = None
<1>1. t = [j \in DOMAIN s |-> IF j = i /\ Fill
                              THEN SetHost(s[i], d, choice[1], choice[2]) ELSE s[j]]
  BY DEF FillDiverse
<1>2. /\ s \in Seq(SlotType) /\ DOMAIN s = 1..Len(s) /\ Len(s) \in Nat
      /\ \A j \in DOMAIN s : s[j] \in SlotType
  BY SeqDomain DEF Full
<1>3. /\ r0 \in Unfilled..AnyUse
      /\ \/ /\ h0 # None /\ h0 \in C \ X
            /\ ~in.topo.reuse => UseCount(s, d, h0) = 0
         \/ /\ h0 = None
            /\ \/ C \subseteq X
               \/ /\ ~in.topo.reuse
                  /\ \A h \in C \ X : UseCount(s, d, h) > 0
  <2> HIDE DEF X
  <2> QED BY <1>2, PickFacts
<1> HIDE DEF choice, t
<1>4. ASSUME Fill
      PROVE  h0 = None
  <2>1. \/ k[1] = k[2] /\ far # None /\ C \subseteq {far}
        \/ C = {}
        \/ /\ ~in.topo.reuse /\ s[i].class = "diverse"
           /\ \A h \in C : (k[1] = k[2] /\ h = far) \/ UseCount(s, d, h) > 0
    BY <1>4, NothingLeft
  <2>2. None \notin C
    BY CandidatesFacts
  <2>3. CASE \/ k[1] = k[2] /\ far # None /\ C \subseteq {far}
             \/ C = {}
    <3> HIDE DEF C, far, h0
    <3> QED BY <1>3, <2>3
  <2>4. CASE /\ ~in.topo.reuse
             /\ \A h \in C : (k[1] = k[2] /\ h = far) \/ UseCount(s, d, h) > 0
    <3>1. ASSUME h0 # None
          PROVE  FALSE
      <4> HIDE DEF C, far, h0
      <4>1. h0 \in C \ X /\ UseCount(s, d, h0) = 0
        BY <1>3, <2>4, <3>1
      <4>2. k[1] = k[2] /\ h0 = far /\ far # None
        BY <2>2, <2>4, <4>1
      <4> QED BY <4>1, <4>2
    <3> QED BY <3>1
  <2> QED BY <2>1, <2>3, <2>4
<1>5. ASSUME Fill
      PROVE  /\ t[i] \in SlotType /\ t[i].class = s[i].class
             /\ t[i].host[d] = s[i].host[d] /\ t[i].host[3 - d] = s[i].host[3 - d]
  <2>1. t[i] = SetHost(s[i], d, h0, r0) /\ s[i] \in SlotType
    BY <1>1, <1>2, <1>5
  <2>2. h0 \in Hosts \cup {None} /\ r0 \in Unfilled..AnyUse
    BY <1>3, <1>4, <1>5
  <2>3. s[i] \in SlotType
    BY <1>2
  <2>5. h0 = s[i].host[d]
    BY <1>4, <1>5, <2>1
  <2> HIDE DEF h0, r0
  <2>4. LET u == SetHost(s[i], d, h0, r0) IN
        /\ u \in SlotType /\ u.class = s[i].class
        /\ u.host[d] = h0 /\ u.host[3 - d] = s[i].host[3 - d]
    BY <2>2, <2>3, SetHostFacts, Zenon
  <2> QED BY <2>1, <2>4, <2>5
<1>6. ASSUME NEW j \in DOMAIN s, ~(j = i /\ Fill)
      PROVE  t[j] = s[j]
  BY <1>1, <1>6
<1>7. t \in Seq(SlotType) /\ Len(t) = Len(s)
  <2>1. \A j \in DOMAIN s : t[j] \in SlotType
    BY <1>2, <1>5, <1>6
  <2> HIDE DEF Fill
  <2> QED BY <1>1, <1>2, <2>1
<1>8. \A c \in Side : c = d \/ c = 3 - d
  BY DEF Side
<1>9. SameHosts(s, t)
  <2>1. ASSUME NEW j \in DOMAIN s
        PROVE  t[j].class = s[j].class /\ \A c \in Side : t[j].host[c] = s[j].host[c]
    <3>1. CASE j = i /\ Fill
      BY <1>5, <1>8, <3>1
    <3>2. CASE ~(j = i /\ Fill)
      BY <1>6, <3>2
    <3> QED BY <3>1, <3>2
  <2> QED BY <1>7, <2>1 DEF SameHosts
<1> QED BY <1>7, <1>9 DEF t

LEMMA SidesIdle ==
    ASSUME NEW in, InputOK(in), NEW k \in Keys, NEW s, Full(in, k, s)
    PROVE  LET t == FillSides(in, k, s) IN
           t \in Seq(SlotType) /\ SameHosts(s, t)
<1> DEFINE N == 2 * Len(s)
           f == CHOOSE g : Filled(in, k, s, N, g)
           T == {n \in Nat : n <= N => f[n] \in Seq(SlotType) /\ SameHosts(s, f[n])}
<1>1. s \in Seq(SlotType) /\ Len(s) \in Nat /\ N \in Nat /\ DOMAIN s = 1..Len(s)
  BY DEF Full
<1>2. FillSides(in, k, s) = f[N]
  BY DEF FillSides, Filled
<1>3. Filled(in, k, s, N, f)
  <2>1. \E g : Filled(in, k, s, N, g)
    BY <1>1, FilledExists
  <2> QED BY <2>1
<1> HIDE DEF f
<1>4. f[0] = FillAnchors(in, k, FillAnchors(in, k, s, 1), 2)
  BY <1>1, <1>3 DEF Filled
<1>5. \A n \in 1..N : f[n] = FillDiverse(in, k, f[n - 1], (n + 1) \div 2, 2 - (n % 2))
  BY <1>1, <1>3 DEF Filled
<1>6. 0 \in T
  <2> DEFINE u == FillAnchors(in, k, s, 1)
             v == FillAnchors(in, k, u, 2)
  <2>1. 1 \in Side /\ 2 \in Side
    BY DEF Side
  <2>2. u \in Seq(SlotType) /\ SameHosts(s, u)
    BY <2>1, AnchorsIdle
  <2> HIDE DEF u
  <2>3. Full(in, k, u)
    BY <1>1, <2>2, SameHostsFacts
  <2>4. v \in Seq(SlotType) /\ SameHosts(u, v)
    BY <2>1, <2>3, AnchorsIdle
  <2> HIDE DEF v
  <2>5. SameHosts(s, v)
    BY <1>1, <2>2, <2>4, SameHostsFacts
  <2>6. f[0] = v
    BY <1>4 DEF u, v
  <2> QED BY <2>4, <2>5, <2>6
<1>7. ASSUME NEW n \in Nat, n \in T
      PROVE  n + 1 \in T
  <2>1. SUFFICES ASSUME n + 1 <= N
                 PROVE  f[n + 1] \in Seq(SlotType) /\ SameHosts(s, f[n + 1])
    OBVIOUS
  <2>2. f[n] \in Seq(SlotType) /\ SameHosts(s, f[n])
    BY <1>1, <1>7, <2>1
  <2>3. Full(in, k, f[n]) /\ DOMAIN f[n] = DOMAIN s
    BY <1>1, <2>2, SameHostsFacts
  <2> DEFINE a == (n + 1 + 1) \div 2
             e == 2 - ((n + 1) % 2)
  <2>4. a \in DOMAIN s /\ e \in Side
    BY <1>1, <2>1 DEF Side
  <2>5. f[n + 1] = FillDiverse(in, k, f[n], a, e)
    <3>1. n + 1 \in 1..N /\ (n + 1) - 1 = n
      BY <1>1, <2>1
    <3> QED BY <1>5, <3>1
  <2> HIDE DEF a, e, N
  <2>6. f[n + 1] \in Seq(SlotType) /\ SameHosts(f[n], f[n + 1])
    BY <2>3, <2>4, <2>5, DiverseIdle
  <2> QED BY <1>1, <2>2, <2>6, SameHostsFacts
<1>8. Nat \subseteq T
  <2> HIDE DEF T
  <2> QED BY <1>6, <1>7, Induction
<1>9. f[N] \in Seq(SlotType) /\ SameHosts(s, f[N])
  BY <1>1, <1>8
<1> QED BY <1>2, <1>9

LEMMA BasesSame ==
    ASSUME NEW c \in Configs, NEW s \in Seq(SlotType), Layout(c, s), Len(s) = c.count
    PROVE  /\ \A i \in DOMAIN s : IsBase(s[i])
           /\ Bases(s) = s /\ Resize(c, s) = s
<1>1. c.count \in Nat /\ DOMAIN s = 1..c.count
  BY Classes
<1>2. \A i \in DOMAIN s : IsBase(s[i])
  BY <1>1, Classes DEF Layout, IsBase
<1>3. \A t \in Seq(SlotType) : Len(t) = Len(s) /\ (\A i \in 1..c.count : t[i] = s[i]) => t = s
  BY <1>1
<1>4. Bases(s) = s
  <2>1. /\ Bases(s) \in Seq(SlotType) /\ Len(Bases(s)) = c.count
        /\ \A i \in 1..c.count : Bases(s)[i] = s[i]
    BY BasesFacts
  <2> QED BY <1>3, <2>1
<1>5. Len(Supers(s)) = 0
  <2>1. {i \in DOMAIN s : IsSuper(s[i])} = {}
    BY <1>2 DEF IsBase, IsSuper
  <2> QED BY <2>1, SupersFacts, FS_EmptySet
<1>6. Resize(c, s) = s
  <2>1. /\ Resize(c, s) \in Seq(SlotType) /\ Len(Resize(c, s)) = c.count
        /\ \A i \in 1..c.count : Resize(c, s)[i] = s[i]
    BY <1>1, <1>5, ResizeFacts
  <2> QED BY <1>3, <2>1
<1> QED BY <1>2, <1>4, <1>6

LEMMA HeldSame ==
    ASSUME NEW k, NEW s \in Seq(SlotType), NEW t \in Seq(SlotType), SameHosts(s, t),
           \A i \in DOMAIN s : IsBase(s[i])
    PROVE  HeldIn(k, s) = HeldIn(k, t)
<1> DEFINE D(u) == {d \in (DOMAIN u) \X Side : u[d[1]].host[d[2]] # None}
<1>1. DOMAIN s = DOMAIN t
  BY SameHostsFacts
<1>2. \A i \in DOMAIN s : Place(s[i], i) = Place(t[i], i)
  BY DEF SameHosts, Place, IsSuper, IsBase
<1>3. D(s) = D(t)
  BY <1>1 DEF SameHosts
<1>4. \A c \in D(s) : /\ c[1] \in DOMAIN s /\ c[2] \in Side
                      /\ s[c[1]].host[c[2]] = t[c[1]].host[c[2]]
  BY DEF SameHosts
<1>5. \A u : HeldIn(k, u) = {<<k, Place(u[c[1]], c[1]), c[2], u[c[1]].host[c[2]]>> : c \in D(u)}
  BY DEF HeldIn
<1> DEFINE E(u, c) == <<k, Place(u[c[1]], c[1]), c[2], u[c[1]].host[c[2]]>>
<1>6. \A c \in D(s) : E(s, c) = E(t, c)
  BY <1>2, <1>4
<1> HIDE DEF D
<1>7. HeldIn(k, s) = {E(s, c) : c \in D(s)} /\ HeldIn(k, t) = {E(t, c) : c \in D(t)}
  BY <1>5
<1> HIDE DEF E
<1> QED BY <1>3, <1>6, <1>7

\* The sides that some pairings hold, of those in S.
HeldBy(S, ps) == UNION {HeldIn(k, ps[k].slots) : k \in S \cap DOMAIN ps}

\* The last stage of a run.
Scanned(in, ps) == OnActive(ps, LAMBDA k, slots : FillSides(in, k, slots))

\* The zones whose super hosts a run changed.
Resupplied(old, new) ==
    {z \in DOMAIN old \cup DOMAIN new :
        SupersOf(old, z) # SupersOf(new, z) \/ z \notin DOMAIN new}

LEMMA DeltaFacts ==
    ASSUME NEW in, NEW st
    PROVE  LET old == Rebuilt(in, st)
               ps1 == DiffPairings(in, old.pairings)
               ps2 == ValidateSides(in, ps1)
               sup == NextSupers(in, old.supers)
               ps3 == UpdateSupers(in, sup, ps2)
               ps4 == Scanned(in, ps3)
               H(ps) == HeldBy(DOMAIN ps1, ps)
               d   == Reconcile(in, st).delta IN
           /\ d.added = DOMAIN ps1 \ DOMAIN old.pairings
           /\ d.removed = Expired(in, old.pairings)
           /\ d.sides = {} <=> /\ H(old.pairings) = H(ps1) /\ H(ps1) = H(ps2)
                               /\ H(ps2) = H(ps3) /\ H(ps3) = H(ps4)
           /\ d.supers = Resupplied(old.supers, sup)
<1> DEFINE old == Rebuilt(in, st)
           ps1 == DiffPairings(in, old.pairings)
           ps2 == ValidateSides(in, ps1)
           sup == NextSupers(in, old.supers)
           ps3 == UpdateSupers(in, sup, ps2)
           ps4 == Scanned(in, ps3)
           H(ps) == HeldBy(DOMAIN ps1, ps)
           Diff(ps, qs) == (H(ps) \ H(qs)) \cup (H(qs) \ H(ps))
           d   == Reconcile(in, st).delta
<1>1. /\ d.added = DOMAIN ps1 \ DOMAIN old.pairings
      /\ d.removed = Expired(in, old.pairings)
      /\ d.sides = Diff(old.pairings, ps1) \cup Diff(ps1, ps2)
                       \cup Diff(ps2, ps3) \cup Diff(ps3, ps4)
      /\ d.supers = Resupplied(old.supers, sup)
  BY DEF Reconcile, HeldBy, Scanned, Resupplied
<1>2. \A ps, qs : Diff(ps, qs) = {} <=> H(ps) = H(qs)
  OBVIOUS
<1> HIDE DEF Diff, H, d, ps1, ps2, ps3, ps4, sup, old
<1>3. d.sides = {} <=> /\ H(old.pairings) = H(ps1) /\ H(ps1) = H(ps2)
                       /\ H(ps2) = H(ps3) /\ H(ps3) = H(ps4)
  BY <1>1, <1>2
<1> QED BY <1>1, <1>3 DEF H, d, ps1, ps2, ps3, ps4, sup, old

\* The stages of a run leave the sides of such a table as they are.
LEMMA StagesIdle ==
    ASSUME NEW in, InputOK(in), NEW k \in Keys, NEW s, Full(in, k, s),
           Len(s) = in.cfg.count,
           NEW t \in Seq(SlotType), Checked(in, k, s, t),
           NEW u \in Seq(SlotType), SameBase(in.cfg, t, u), Len(u) = in.cfg.count
    PROVE  /\ HeldIn(k, t) = HeldIn(k, s) /\ HeldIn(k, u) = HeldIn(k, s)
           /\ HeldIn(k, FillSides(in, k, u)) = HeldIn(k, s)
<1>1. /\ s \in Seq(SlotType) /\ Len(s) \in Nat /\ DOMAIN s = 1..Len(s)
      /\ \A i \in DOMAIN s : IsBase(s[i])
  BY DEF Full
<1>2. SameHosts(s, t)
  <2>1. ASSUME NEW i \in DOMAIN s, NEW d \in Side
        PROVE  t[i].host[d] = s[i].host[d]
    <3>1. s[i].host[d] # None => Valid(in, k[d], s[i].host[d])
      BY DEF Full, Settled, Candidates, Members, Valid
    <3>2. t[i].host[d] = IF Valid(in, k[d], s[i].host[d]) THEN s[i].host[d] ELSE None
      BY DEF Checked
    <3> QED BY <3>1, <3>2
  <2> QED BY <2>1 DEF Checked, SameHosts
<1>3. u = t
  <2>1. Len(t) = Len(s) /\ \A i \in 1..Len(s) : u[i] = t[i]
    BY DEF Checked, SameBase
  <2> QED BY <2>1
<1>4. Full(in, k, t)
  BY <1>1, <1>2, SameHostsFacts
<1> DEFINE v == FillSides(in, k, u)
<1>5. v \in Seq(SlotType) /\ SameHosts(t, v)
  BY <1>3, <1>4, SidesIdle
<1> HIDE DEF v
<1>6. SameHosts(s, v)
  BY <1>1, <1>2, <1>5, SameHostsFacts
<1>7. HeldIn(k, s) = HeldIn(k, t)
  BY <1>1, <1>2, HeldSame
<1>8. HeldIn(k, s) = HeldIn(k, v)
  BY <1>1, <1>5, <1>6, HeldSame
<1> QED BY <1>3, <1>7, <1>8 DEF v

LEMMA HeldBySame ==
    ASSUME NEW S, NEW ps, NEW qs, DOMAIN ps = DOMAIN qs,
           \A k \in DOMAIN ps : HeldIn(k, ps[k].slots) = HeldIn(k, qs[k].slots)
    PROVE  HeldBy(S, ps) = HeldBy(S, qs)
<1> DEFINE T == S \cap DOMAIN ps
           A(k) == HeldIn(k, ps[k].slots)
           B(k) == HeldIn(k, qs[k].slots)
<1>1. \A k \in T : A(k) = B(k)
  OBVIOUS
<1>2. HeldBy(S, ps) = UNION {A(k) : k \in T} /\ HeldBy(S, qs) = UNION {B(k) : k \in T}
  BY DEF HeldBy
<1> HIDE DEF T, A, B
<1> QED BY <1>1, <1>2

\* What a run leaves behind, when no super hosts are configured and it did
\* not leave a pairing whose removal hold is already over.
LEMMA NothingToDo ==
    ASSUME NEW in, InputOK(in), in.cfg.superHosts = 0,
           NEW st, TableInv(st), st.rule = in.topo.rule,
           st.slots = SlotsFingerprint(in.cfg),
           Wanted(in) \subseteq DOMAIN st.pairings,
           \A k \in DOMAIN st.pairings :
               /\ Layout(in.cfg, Slots(st, k)) /\ Len(Slots(st, k)) = in.cfg.count
               /\ IsActive(st.pairings[k]) <=> k \in Wanted(in)
               /\ st.pairings[k].left # 0,
           \A k \in Wanted(in) : \A i \in 1..in.cfg.count : \A d \in Side :
               Settled(in, k, Slots(st, k), i, d)
    PROVE  IsEmpty(Reconcile(in, st).delta)
<1> DEFINE c   == in.cfg
           old == Rebuilt(in, st)
           p0  == old.pairings
           p1  == DiffPairings(in, p0)
           p2  == ValidateSides(in, p1)
           sup == NextSupers(in, old.supers)
           p3  == UpdateSupers(in, sup, p2)
           p4  == Scanned(in, p3)
           H(ps) == HeldBy(DOMAIN p1, ps)
           d   == Reconcile(in, st).delta
<1>1. old = st /\ c \in Configs /\ c.count \in Nat
  BY Classes DEF Rebuilt, InputOK
<1>2. /\ d.added = DOMAIN p1 \ DOMAIN p0
      /\ d.removed = Expired(in, p0)
      /\ d.sides = {} <=> H(p0) = H(p1) /\ H(p1) = H(p2) /\ H(p2) = H(p3) /\ H(p3) = H(p4)
      /\ d.supers = Resupplied(old.supers, sup)
  BY DeltaFacts
<1> HIDE DEF d
<1>3. /\ PairingsOK(p0) /\ p0 = st.pairings
      /\ \A k \in DOMAIN p0 : \A e \in Side : Agree(p0[k].slots, e)
  BY <1>1 DEF TableInv, TableOK, AnchorsOK, PairingsOK, Slots
<1>4. DOMAIN old.supers = {} /\ DOMAIN sup = {}
  <2>1. DOMAIN old.supers = {}
    BY <1>1 DEF TableInv, SupersOK
  <2> QED BY <2>1 DEF NextSupers
<1> HIDE DEF old, sup, p0
<1>5. d.supers = {}
  BY <1>2, <1>4 DEF Resupplied
<1>6. ASSUME NEW k \in DOMAIN p0
      PROVE  /\ p0[k] = [slots |-> p0[k].slots, left |-> p0[k].left]
             /\ p0[k].slots \in Seq(SlotType) /\ p0[k].left \in Nat \cup {Never}
             /\ Layout(c, p0[k].slots) /\ Len(p0[k].slots) = c.count
             /\ IsActive(p0[k]) <=> k \in Wanted(in)
             /\ p0[k].left # 0 /\ k \in Keys
             /\ \A i \in DOMAIN p0[k].slots : IsBase(p0[k].slots[i])
             /\ Resize(c, p0[k].slots) = p0[k].slots
             /\ Bases(p0[k].slots) = p0[k].slots
  <2>1. /\ p0[k] = [slots |-> p0[k].slots, left |-> p0[k].left]
        /\ p0[k].slots \in Seq(SlotType) /\ p0[k].left \in Nat \cup {Never} /\ k \in Keys
    BY <1>3 DEF PairingsOK, PairingType
  <2>2. /\ Layout(c, p0[k].slots) /\ Len(p0[k].slots) = c.count
        /\ IsActive(p0[k]) <=> k \in Wanted(in)
        /\ p0[k].left # 0
    BY <1>3 DEF Slots
  <2> DEFINE s == p0[k].slots
  <2> HIDE DEF s, c
  <2>3. s \in Seq(SlotType) /\ Layout(c, s) /\ Len(s) = c.count
    BY <2>1, <2>2 DEF s
  <2>4. /\ \A i \in DOMAIN s : IsBase(s[i])
        /\ Bases(s) = s /\ Resize(c, s) = s
    BY <1>1, <2>3, BasesSame
  <2> QED BY <2>1, <2>2, <2>4 DEF s
<1>7. Expired(in, p0) = {}
  BY <1>6 DEF Expired
<1>8. DOMAIN p1 = DOMAIN p0 /\ \A k \in DOMAIN p0 : p1[k] = p0[k]
  <2>1. /\ DOMAIN p1 = Wanted(in) \cup (DOMAIN p0 \ Expired(in, p0))
        /\ \A k \in Wanted(in) : k \in DOMAIN p0 =>
               p1[k] = [slots |-> Resize(c, p0[k].slots), left |-> Never]
        /\ \A k \in DOMAIN p1 \ Wanted(in) :
               p1[k] = [p0[k] EXCEPT !.left = IF @ = Never THEN c.hold ELSE @]
    BY DEF DiffPairings
  <2> HIDE DEF p1
  <2>2. DOMAIN p1 = DOMAIN p0
    BY <1>3, <1>7, <2>1
  <2>3. ASSUME NEW k \in DOMAIN p0
        PROVE  p1[k] = p0[k]
    <3> DEFINE s == p0[k].slots
               l == p0[k].left
               p == p0[k]
    <3>1. p = [slots |-> s, left |-> l]
      BY <1>6
    <3>2. CASE k \in Wanted(in)
      <4>1. l = Never
        BY <1>6, <3>2 DEF IsActive
      <4>2. p1[k] = [slots |-> s, left |-> Never]
        BY <1>6, <2>1, <3>2
      <4> HIDE DEF s, l, p
      <4>3. p1[k] = p
        BY <3>1, <4>1, <4>2
      <4> QED BY <4>3 DEF p
    <3>3. CASE k \notin Wanted(in)
      <4>1. l # Never
        BY <1>6, <3>3 DEF IsActive
      <4>2. p1[k] = [p EXCEPT !.left = l]
        BY <2>1, <2>2, <3>3, <4>1
      <4> HIDE DEF s, l, p
      <4>3. p1[k] = p
        BY <3>1, <4>2
      <4> QED BY <4>3 DEF p
    <3> QED BY <3>2, <3>3
  <2> QED BY <2>2, <2>3
<1>9. PairingsOK(p1)
  BY <1>3, <1>8 DEF PairingsOK
<1> HIDE DEF p1
<1>10. /\ PairingsOK(p2) /\ DOMAIN p2 = DOMAIN p1
       /\ \A k \in DOMAIN p1 :
              /\ p2[k].left = p1[k].left
              /\ IF IsActive(p1[k]) THEN Checked(in, k, p1[k].slots, p2[k].slots)
                 ELSE p2[k] = p1[k]
  BY <1>9, ValidateFacts
<1> HIDE DEF p2
<1>11. \A k \in DOMAIN p2 : p2[k].slots \in Seq(SlotType)
  BY <1>10 DEF PairingsOK, PairingType
<1>12. ASSUME NEW k \in DOMAIN p2
       PROVE  Layout(c, p2[k].slots)
  <2>1. CASE k \in Wanted(in)
    <3> DEFINE s == p0[k].slots
               t == p2[k].slots
    <3>1. /\ s \in Seq(SlotType) /\ t \in Seq(SlotType)
          /\ Checked(in, k, s, t) /\ Layout(c, s)
      BY <1>6, <1>8, <1>10, <1>11, <2>1
    <3> HIDE DEF c, s, t
    <3>2. Layout(c, t)
      BY <1>1, <3>1, CheckedFacts
    <3> QED BY <3>2 DEF t
  <2>2. CASE k \notin Wanted(in)
    BY <1>6, <1>8, <1>10, <2>2
  <2> QED BY <2>1, <2>2
<1>13. /\ PairingsOK(p3) /\ DOMAIN p3 = DOMAIN p2
       /\ \A k \in DOMAIN p2 :
              /\ p3[k].left = p2[k].left
              /\ SameBase(c, p2[k].slots, p3[k].slots)
              /\ Len(p3[k].slots) = c.count
  BY <1>10, <1>12, UpdateFacts
<1> HIDE DEF p3
<1>14. \A k \in DOMAIN p3 : p3[k] \in PairingType /\ p3[k].slots \in Seq(SlotType)
  BY <1>13 DEF PairingsOK, PairingType
<1>15. /\ DOMAIN p4 = DOMAIN p3
       /\ \A k \in DOMAIN p3 :
              p4[k] = IF IsActive(p3[k])
                      THEN [p3[k] EXCEPT !.slots = FillSides(in, k, @)] ELSE p3[k]
  BY DEF Scanned, OnActive
<1> HIDE DEF p4
<1>16. DOMAIN p4 = DOMAIN p0 /\ DOMAIN p3 = DOMAIN p0 /\ DOMAIN p2 = DOMAIN p0
  BY <1>8, <1>10, <1>13, <1>15
<1>17. ASSUME NEW k \in DOMAIN p0
       PROVE  /\ HeldIn(k, p1[k].slots) = HeldIn(k, p0[k].slots)
              /\ HeldIn(k, p2[k].slots) = HeldIn(k, p0[k].slots)
              /\ HeldIn(k, p3[k].slots) = HeldIn(k, p0[k].slots)
              /\ HeldIn(k, p4[k].slots) = HeldIn(k, p0[k].slots)
  <2> DEFINE s == p0[k].slots
             t == p2[k].slots
             u == p3[k].slots
  <2>1. /\ s \in Seq(SlotType) /\ t \in Seq(SlotType) /\ u \in Seq(SlotType)
        /\ Len(s) = c.count /\ Len(u) = c.count /\ SameBase(c, t, u) /\ k \in Keys
    BY <1>6, <1>11, <1>13, <1>14, <1>16
  <2>2. p1[k].slots = s
    BY <1>8
  <2>3. p3[k].left = p0[k].left /\ (IsActive(p3[k]) <=> k \in Wanted(in))
    BY <1>6, <1>8, <1>10, <1>13, <1>16 DEF IsActive
  <2>4. CASE k \in Wanted(in)
    <3>1. Full(in, k, s)
      <4>1. \A e \in Side : Agree(s, e)
        BY <1>3
      <4>2. \A i \in DOMAIN s : IsBase(s[i]) /\ i \in 1..c.count
        BY <1>6, <2>1
      <4>3. \A i \in 1..c.count : \A e \in Side : Settled(in, k, s, i, e)
        BY <1>3, <2>4 DEF Slots
      <4> HIDE DEF s
      <4> QED BY <2>1, <4>1, <4>2, <4>3 DEF Full
    <3>2. Checked(in, k, s, t)
      BY <1>6, <1>8, <1>10, <2>4
    <3>3. p4[k].slots = FillSides(in, k, u)
      <4>1. p3[k] = [slots |-> p3[k].slots, left |-> p3[k].left]
        BY <1>14, <1>16 DEF PairingType
      <4>2. p4[k] = [p3[k] EXCEPT !.slots = FillSides(in, k, u)]
        BY <1>15, <1>16, <2>3, <2>4
      <4> QED BY <4>1, <4>2
    <3>4. /\ HeldIn(k, t) = HeldIn(k, s) /\ HeldIn(k, u) = HeldIn(k, s)
          /\ HeldIn(k, FillSides(in, k, u)) = HeldIn(k, s)
      <4> HIDE DEF s, t, u
      <4> QED BY <2>1, <3>1, <3>2, StagesIdle
    <3> QED BY <2>2, <3>3, <3>4
  <2>5. CASE k \notin Wanted(in)
    <3>1. t = s
      BY <1>6, <1>8, <1>10, <2>5
    <3>2. u = t
      <4>1. \A i \in 1..c.count : u[i] = t[i]
        BY <2>1 DEF SameBase
      <4>2. Len(t) = c.count
        BY <2>1, <3>1
      <4> HIDE DEF u, t
      <4> QED BY <2>1, <4>1, <4>2
    <3>3. p4[k] = p3[k]
      BY <1>15, <1>16, <2>3, <2>5
    <3> QED BY <2>2, <3>1, <3>2, <3>3
  <2> QED BY <2>4, <2>5
<1>18. H(p0) = H(p1) /\ H(p1) = H(p2) /\ H(p2) = H(p3) /\ H(p3) = H(p4)
  BY <1>8, <1>16, <1>17, HeldBySame
<1> HIDE DEF H
<1>19. d.sides = {} /\ d.added = {} /\ d.removed = {}
  BY <1>2, <1>7, <1>8, <1>18
<1> QED BY <1>5, <1>19 DEF IsEmpty, d

\* A second run on the inputs of the first finds nothing to do.
THEOREM SecondRunAlwaysEmpty == Spec => SecondRunEmpty
<1> DEFINE Step == \A r \in Requester :
                (Begin(r) /\ pc'[r] # "idle" /\ cfg.superHosts = 0 /\ cfg.hold > 0) =>
                    IsEmpty(Reconcile(Input, run'[r].state).delta)
<1>1. ASSUME LoopInv, NEW r \in Requester, Begin(r), pc'[r] # "idle",
             cfg.superHosts = 0, cfg.hold > 0
      PROVE  IsEmpty(Reconcile(Input, run'[r].state).delta)
  <2> DEFINE new == run'[r].state
  <2>1. /\ new = Reconcile(Input, cur).state /\ InputOK(Input)
        /\ Input.cfg = cfg /\ Input.topo = topo /\ TableInv(cur) /\ TableInv(new)
    BY <1>1, BeginResult
  <2> DEFINE in == Input
  <2> HIDE DEF new, in
  <2>2. /\ new.rule = in.topo.rule /\ new.slots = SlotsFingerprint(in.cfg)
        /\ \A k \in Wanted(in) :
               /\ k \in DOMAIN new.pairings
               /\ \A i \in 1..in.cfg.count : \A d \in Side :
                      Settled(in, k, Slots(new, k), i, d)
        /\ \A k \in DOMAIN new.pairings :
               /\ Layout(in.cfg, Slots(new, k))
               /\ IsActive(new.pairings[k]) <=> k \in Wanted(in)
               /\ in.cfg.hold > 0 => new.pairings[k].left # 0
               /\ in.cfg.superHosts = 0 => Len(Slots(new, k)) = in.cfg.count
    BY <2>1, ReconcileFacts DEF in
  <2>3. in.cfg.superHosts = 0 /\ in.cfg.hold > 0 /\ InputOK(in) /\ TableInv(new)
    BY <1>1, <2>1 DEF in
  <2>4. Wanted(in) \subseteq DOMAIN new.pairings
    BY <2>2
  <2> QED BY <2>2, <2>3, <2>4, NothingToDo DEF new, in
<1>2. LoopInv /\ [Next]_vars => [Step]_vars
  BY <1>1
<1> QED BY <1>2, Inductive, PTL DEF Spec, SecondRunEmpty

-----------------------------------------------------------------------------
(* The tasks.  A run that reports no change does not replace the table, but  *)
(* the first one hands its tasks over: the table it threw away holds nothing *)
(* that the installed one does not hold in the same slots.                   *)

\* Super slots of the same source and target.
Twin(s, t) == s.host[1] = t.host[1] /\ s.target = t.target

\* Every super slot of a has a twin in b.
Twinned(c, a, b) ==
    \A i \in DOMAIN a : i > c.count =>
        \E j \in DOMAIN b : j > c.count /\ Twin(a[i], b[j])

LEMMA SlotNumbers ==
    ASSUME NEW s \in SlotType
    PROVE  s.host[1] \in Nat /\ s.target \in Nat
<1>1. 1 \in Side /\ Hosts \cup {None} \subseteq Nat
  BY HostAssumption DEF Side, None
<1> QED BY <1>1 DEF SlotType

\* If the super slots before the n-th are twins, so are the n-th.
LEMMA NextTwin ==
    ASSUME NEW c \in Configs, NEW a \in Seq(SlotType), NEW b \in Seq(SlotType),
           InLine(c, a), InLine(c, b), Twinned(c, a, b), Twinned(c, b, a),
           NEW n \in DOMAIN a, n > c.count,
           \A m \in DOMAIN a \cup DOMAIN b : m > c.count /\ m < n =>
               m \in DOMAIN a /\ m \in DOMAIN b /\ Twin(a[m], b[m])
    PROVE  n \in DOMAIN b /\ Twin(a[n], b[n])
<1>1. /\ DOMAIN a = 1..Len(a) /\ DOMAIN b = 1..Len(b) /\ Len(a) \in Nat /\ Len(b) \in Nat
      /\ c.count \in Nat
      /\ \A i \in DOMAIN a : a[i].host[1] \in Nat /\ a[i].target \in Nat
      /\ \A i \in DOMAIN b : b[i].host[1] \in Nat /\ b[i].target \in Nat
  BY SlotNumbers, Classes
<1>2. PICK j \in DOMAIN b : j > c.count /\ Twin(a[n], b[j])
  BY DEF Twinned
<1>3. CASE j = n
  BY <1>2, <1>3
<1>4. CASE j < n
  <2>1. j \in DOMAIN a /\ Twin(a[j], b[j])
    BY <1>2, <1>4
  <2>2. Ahead(a[j], a[n])
    BY <1>2, <1>4, <2>1 DEF InLine
  <2> QED BY <1>1, <1>2, <2>1, <2>2 DEF Ahead, Twin
<1>5. CASE j > n
  <2>1. n \in DOMAIN b
    BY <1>1, <1>5
  <2>2. Ahead(b[n], b[j])
    BY <1>5, <2>1 DEF InLine
  <2>3. PICK m \in DOMAIN a : m > c.count /\ Twin(b[n], a[m])
    BY <2>1 DEF Twinned
  <2>4. Ahead(a[m], a[n])
    BY <1>2, <2>2, <2>3 DEF Ahead, Twin
  <2>5. CASE m = n
    BY <1>1, <2>4, <2>5 DEF Ahead
  <2>6. CASE m > n
    <3>1. Ahead(a[n], a[m])
      BY <2>6 DEF InLine
    <3> QED BY <1>1, <2>4, <3>1 DEF Ahead
  <2>7. CASE m < n
    <3>1. m \in DOMAIN b /\ Twin(a[m], b[m])
      BY <2>3, <2>7
    <3>2. Ahead(b[m], b[n])
      BY <2>1, <2>3, <2>7, <3>1 DEF InLine
    <3> QED BY <1>1, <2>1, <2>3, <3>1, <3>2 DEF Ahead, Twin
  <2> QED BY <1>1, <2>5, <2>6, <2>7
<1> QED BY <1>1, <1>3, <1>4, <1>5

\* Two tables in line with the same super slots have them at the same places.
LEMMA SameLine ==
    ASSUME NEW c \in Configs, NEW a \in Seq(SlotType), NEW b \in Seq(SlotType),
           InLine(c, a), InLine(c, b), Twinned(c, a, b), Twinned(c, b, a)
    PROVE  \A i \in DOMAIN a : i > c.count => i \in DOMAIN b /\ Twin(a[i], b[i])
<1> DEFINE Both(i) == i \in DOMAIN a /\ i \in DOMAIN b /\ Twin(a[i], b[i])
           T == {i \in DOMAIN a \cup DOMAIN b : i > c.count /\ ~Both(i)}
<1> SUFFICES ASSUME T # {}
             PROVE  FALSE
  OBVIOUS
<1>1. T \in SUBSET Nat
  BY SeqDomain
<1>2. PICK n \in T : \A m \in T : n <= m
  BY <1>1, LeastNat
<1>3. \A m \in DOMAIN a \cup DOMAIN b : m > c.count /\ m < n => Both(m)
  <2>1. DOMAIN a \cup DOMAIN b \subseteq Nat
    BY SeqDomain
  <2> HIDE DEF Both
  <2> QED BY <1>2, <2>1
<1>4. CASE n \in DOMAIN a
  <2>1. n \in DOMAIN b /\ Twin(a[n], b[n])
    BY <1>2, <1>3, <1>4, NextTwin
  <2> QED BY <1>2, <1>4, <2>1
<1>5. CASE n \in DOMAIN b
  <2>1. \A m \in DOMAIN b \cup DOMAIN a : m > c.count /\ m < n =>
            m \in DOMAIN b /\ m \in DOMAIN a /\ Twin(b[m], a[m])
    BY <1>3 DEF Twin
  <2>2. n \in DOMAIN a /\ Twin(b[n], a[n])
    BY <1>2, <1>5, <2>1, NextTwin
  <2> QED BY <1>2, <1>5, <2>2 DEF Twin
<1> QED BY <1>2, <1>4, <1>5

LEMMA HeldIs ==
    ASSUME NEW k, NEW s, NEW p, NEW d, NEW h
    PROVE  <<k, p, d, h>> \in HeldIn(k, s) <=>
               /\ d \in Side /\ h # None
               /\ \E i \in DOMAIN s : s[i].host[d] = h /\ Place(s[i], i) = p
<1> DEFINE D == {e \in (DOMAIN s) \X Side : s[e[1]].host[e[2]] # None}
           E(e) == <<k, Place(s[e[1]], e[1]), e[2], s[e[1]].host[e[2]]>>
<1>1. HeldIn(k, s) = {E(e) : e \in D}
  BY DEF HeldIn
<1>2. ASSUME NEW e \in D, E(e) = <<k, p, d, h>>
      PROVE  /\ d \in Side /\ h # None
             /\ \E i \in DOMAIN s : s[i].host[d] = h /\ Place(s[i], i) = p
  BY <1>2
<1>3. ASSUME d \in Side, h # None, NEW i \in DOMAIN s, s[i].host[d] = h, Place(s[i], i) = p
      PROVE  <<i, d>> \in D /\ E(<<i, d>>) = <<k, p, d, h>>
  BY <1>3
<1> HIDE DEF D, E
<1> QED BY <1>1, <1>2, <1>3

\* What t holds and s holds too is in the same base slot, or in a twin.
LEMMA HeldTwice ==
    ASSUME NEW c \in Configs, NEW k, NEW s \in Seq(SlotType), NEW t \in Seq(SlotType),
           Layout(c, s), Layout(c, t), HeldIn(k, t) \subseteq HeldIn(k, s),
           NEW i \in DOMAIN t, NEW d \in Side, t[i].host[d] # None
    PROVE  IF i > c.count
           THEN \E j \in DOMAIN s : /\ j > c.count /\ Twin(t[i], s[j])
                                    /\ s[j].host[d] = t[i].host[d]
           ELSE i \in DOMAIN s /\ s[i].host[d] = t[i].host[d]
<1>1. /\ DOMAIN s = 1..Len(s) /\ DOMAIN t = 1..Len(t) /\ Len(s) \in Nat /\ Len(t) \in Nat
      /\ c.count \in Nat
  BY Classes
<1>2. PICK j \in DOMAIN s : s[j].host[d] = t[i].host[d] /\ Place(s[j], j) = Place(t[i], i)
  <2>1. <<k, Place(t[i], i), d, t[i].host[d]>> \in HeldIn(k, t)
    BY HeldIs
  <2>2. <<k, Place(t[i], i), d, t[i].host[d]>> \in HeldIn(k, s)
    BY <2>1
  <2> QED BY <2>2, HeldIs
<1>3. /\ IsSuper(t[i]) <=> i > c.count
      /\ IsSuper(s[j]) <=> j > c.count
  <2>1. \A m : IsSuper(t[m]) <=> ~IsBase(t[m])
    BY DEF IsSuper, IsBase
  <2>2. \A m : IsSuper(s[m]) <=> ~IsBase(s[m])
    BY DEF IsSuper, IsBase
  <2>3. /\ {m \in DOMAIN s : IsBase(s[m])} = 1..c.count
        /\ {m \in DOMAIN t : IsBase(t[m])} = 1..c.count
    BY BaseLayout
  <2> QED BY <1>1, <2>1, <2>2, <2>3
<1>4. CASE i > c.count
  <2>1. Place(t[i], i) = <<0, t[i].host[1], t[i].target>>
    BY <1>3, <1>4 DEF Place
  <2>2. Place(s[j], j) = IF j > c.count THEN <<0, s[j].host[1], s[j].target>>
                                        ELSE <<j, None, None>>
    BY <1>3 DEF Place
  <2>3. j # 0
    BY <1>1
  <2>4. j > c.count /\ Twin(t[i], s[j])
    BY <1>2, <2>1, <2>2, <2>3 DEF Twin
  <2> QED BY <1>2, <1>4, <2>4
<1>5. CASE ~(i > c.count)
  <2>1. Place(t[i], i) = <<i, None, None>> /\ i # 0
    BY <1>1, <1>3, <1>5 DEF Place
  <2>2. Place(s[j], j) = IF j > c.count THEN <<0, s[j].host[1], s[j].target>>
                                        ELSE <<j, None, None>>
    BY <1>3 DEF Place
  <2>3. i = j
    BY <1>2, <2>1, <2>2
  <2> QED BY <1>2, <1>5, <2>3
<1> QED BY <1>4, <1>5

\* Two tables that hold the same sides hold them in the same slots.
LEMMA SamePlaces ==
    ASSUME NEW c \in Configs, NEW k, NEW s \in Seq(SlotType), NEW t \in Seq(SlotType),
           Layout(c, s), Layout(c, t), InLine(c, s), InLine(c, t),
           HeldIn(k, s) = HeldIn(k, t),
           NEW i \in DOMAIN t, NEW d \in Side, t[i].host[d] # None
    PROVE  i \in DOMAIN s /\ s[i].host[d] = t[i].host[d]
<1>1. Twinned(c, t, s)
  <2>1. ASSUME NEW m \in DOMAIN t, m > c.count
        PROVE  \E j \in DOMAIN s : j > c.count /\ Twin(t[m], s[j])
    <3>1. t[m].host[1] # None /\ 1 \in Side
      BY <2>1 DEF InLine, Side
    <3> QED BY <2>1, <3>1, HeldTwice
  <2> QED BY <2>1 DEF Twinned
<1>2. Twinned(c, s, t)
  <2>1. ASSUME NEW m \in DOMAIN s, m > c.count
        PROVE  \E j \in DOMAIN t : j > c.count /\ Twin(s[m], t[j])
    <3>1. s[m].host[1] # None /\ 1 \in Side
      BY <2>1 DEF InLine, Side
    <3> QED BY <2>1, <3>1, HeldTwice
  <2> QED BY <2>1 DEF Twinned
<1>3. CASE ~(i > c.count)
  BY <1>3, HeldTwice
<1>4. CASE i > c.count
  <2>1. i \in DOMAIN s /\ Twin(t[i], s[i])
    BY <1>1, <1>2, <1>4, SameLine
  <2>2. PICK j \in DOMAIN s : /\ j > c.count /\ Twin(t[i], s[j])
                              /\ s[j].host[d] = t[i].host[d]
    BY <1>4, HeldTwice
  <2>3. j = i
    <3>1. i \in Nat /\ j \in Nat
      BY <2>1, SeqDomain
    <3>2. ~Ahead(s[i], s[j]) /\ ~Ahead(s[j], s[i])
      <4>1. s[i].host[1] \in Nat /\ s[i].target \in Nat
        BY <2>1, SeqDomain, SlotNumbers
      <4> QED BY <2>1, <2>2, <4>1 DEF Twin, Ahead
    <3> QED BY <1>4, <2>1, <2>2, <3>1, <3>2 DEF InLine
  <2> QED BY <2>1, <2>2, <2>3
<1> QED BY <1>3, <1>4

LEMMA HeldOne ==
    ASSUME NEW S, NEW ps, NEW qs, HeldBy(S, ps) = HeldBy(S, qs),
           NEW k \in S, k \in DOMAIN ps, k \in DOMAIN qs
    PROVE  HeldIn(k, ps[k].slots) = HeldIn(k, qs[k].slots)
<1>1. ASSUME NEW rs, k \in DOMAIN rs
      PROVE  HeldIn(k, rs[k].slots) = {e \in HeldBy(S, rs) : e[1] = k}
  <2>1. \A j, s : \A e \in HeldIn(j, s) : e[1] = j
    BY DEF HeldIn
  <2>2. HeldBy(S, rs) = UNION {HeldIn(j, rs[j].slots) : j \in S \cap DOMAIN rs}
    BY DEF HeldBy
  <2>3. HeldIn(k, rs[k].slots) \subseteq HeldBy(S, rs)
    BY <1>1, <2>2
  <2>4. ASSUME NEW e \in HeldBy(S, rs), e[1] = k
        PROVE  e \in HeldIn(k, rs[k].slots)
    <3>1. PICK j \in S \cap DOMAIN rs : e \in HeldIn(j, rs[j].slots)
      BY <2>2
    <3> QED BY <2>1, <2>4, <3>1
  <2> QED BY <2>1, <2>3, <2>4
<1> QED BY <1>1

\* The wanted pairings of new hold nothing that old does not hold there.
Retains(old, new) ==
    \A k \in DOMAIN new.pairings : IsActive(new.pairings[k]) =>
        \A i \in DOMAIN Slots(new, k) : \A d \in Side :
            LET h == Slots(new, k)[i].host[d]
            IN  h # None => /\ k \in DOMAIN old.pairings /\ i \in DOMAIN Slots(old, k)
                            /\ Slots(old, k)[i].host[d] = h

\* A run that reports no change leaves every host where it was.
LEMMA IdleRetains ==
    ASSUME NEW in, InputOK(in), NEW st, TableInv(st), IsEmpty(Reconcile(in, st).delta)
    PROVE  Retains(st, Reconcile(in, st).state)
<1> DEFINE c   == in.cfg
           old == Rebuilt(in, st)
           p0  == old.pairings
           p1  == DiffPairings(in, p0)
           p2  == ValidateSides(in, p1)
           sup == NextSupers(in, old.supers)
           p3  == UpdateSupers(in, sup, p2)
           p4  == Scanned(in, p3)
           H(ps) == HeldBy(DOMAIN p1, ps)
           new == Reconcile(in, st).state
<1>1. c \in Configs
  BY DEF InputOK
<1>2. DOMAIN p1 \subseteq DOMAIN p0 /\ H(p0) = H(p4)
  <2> DEFINE d == Reconcile(in, st).delta
  <2>1. /\ d.added = DOMAIN p1 \ DOMAIN p0
        /\ d.sides = {} <=> H(p0) = H(p1) /\ H(p1) = H(p2) /\ H(p2) = H(p3) /\ H(p3) = H(p4)
    BY DeltaFacts
  <2> HIDE DEF d, H, p0, p1, p2, p3, p4
  <2>2. d.added = {} /\ d.sides = {}
    BY DEF IsEmpty, d
  <2> QED BY <2>1, <2>2
<1>3. new.pairings = p4
  <2>1. new = [old EXCEPT !.pairings = p4, !.supers = sup]
    BY DEF Reconcile, Scanned
  <2>2. old = [rule |-> old.rule, slots |-> old.slots,
               pairings |-> old.pairings, supers |-> old.supers]
    <3>1. TableInv(old)
      BY RebuiltFacts
    <3> QED BY <3>1 DEF TableInv, TableOK
  <2> HIDE DEF new, p4, sup, old
  <2> QED BY <2>1, <2>2
<1>4. Wanted(in) \subseteq DOMAIN p1
  BY DEF DiffPairings
<1>5. /\ TableInv(new) /\ new.slots = SlotsFingerprint(c)
      /\ \A k \in DOMAIN new.pairings : IsActive(new.pairings[k]) <=> k \in Wanted(in)
  <2> HIDE DEF new
  <2> QED BY ReconcileFacts DEF new
<1> HIDE DEF H, p1, p2, p3, p4, sup, new
<1>6. ASSUME NEW k \in DOMAIN new.pairings, IsActive(new.pairings[k]),
             NEW i \in DOMAIN Slots(new, k), NEW d \in Side, Slots(new, k)[i].host[d] # None
      PROVE  /\ k \in DOMAIN st.pairings /\ i \in DOMAIN Slots(st, k)
             /\ Slots(st, k)[i].host[d] = Slots(new, k)[i].host[d]
  <2>1. k \in Wanted(in) /\ k \in DOMAIN p1 /\ k \in DOMAIN p0 /\ k \in DOMAIN p4
    BY <1>2, <1>3, <1>4, <1>5, <1>6
  <2>2. old = st /\ st.slots = SlotsFingerprint(c)
    <3>1. DOMAIN NewState(in).pairings = {}
      BY DEF NewState
    <3> QED BY <2>1, <3>1 DEF Rebuilt
  <2>3. HeldIn(k, Slots(st, k)) = HeldIn(k, Slots(new, k))
    <3>1. HeldIn(k, p0[k].slots) = HeldIn(k, p4[k].slots)
      <4> HIDE DEF p0
      <4> QED BY <1>2, <2>1, HeldOne DEF H
    <3> QED BY <1>3, <2>2, <3>1 DEF Slots
  <2>4. k \in DOMAIN st.pairings
    BY <2>1, <2>2
  <2>5. /\ Layout(c, Slots(st, k)) /\ InLine(c, Slots(st, k))
        /\ Layout(c, Slots(new, k)) /\ InLine(c, Slots(new, k))
    BY <1>1, <1>5, <1>6, <2>2, <2>4 DEF TableInv, LayoutOK
  <2>6. Slots(st, k) \in Seq(SlotType) /\ Slots(new, k) \in Seq(SlotType)
    BY <1>5, <1>6, <2>4 DEF TableInv, TableOK, PairingType, Slots
  <2> QED BY <1>1, <1>6, <2>3, <2>4, <2>5, <2>6, SamePlaces
<1> QED BY <1>6 DEF Retains, new

\* NoStaleTask, of a task set and a table.
Matches(ts, st) ==
    \A t \in ts :
        /\ t[1] \in DOMAIN st.pairings /\ t[2] \in DOMAIN Slots(st, t[1])
        /\ LET h == Slots(st, t[1])[t[2]].host
           IN  Node \in {h[1], h[2]} /\ t[3] \in {h[1], h[2]}

\* Runner.desired takes a task from a slot that holds both hosts.
LEMMA DesiredMatches ==
    ASSUME NEW old, NEW new, Retains(old, new), NEW snap \in Inventories \cup {<<>>}
    PROVE  Matches(Desired(new, snap), old)
<1> DEFINE A == {k \in DOMAIN new.pairings : IsActive(new.pairings[k])}
           E == UNION {{k} \X (DOMAIN new.pairings[k].slots) \X Side : k \in A}
           Host(e)   == new.pairings[e[1]].slots[e[2]].host[e[3]]
           Target(e) == new.pairings[e[1]].slots[e[2]].host[3 - e[3]]
<1> SUFFICES ASSUME NEW t \in Desired(new, snap)
             PROVE  /\ t[1] \in DOMAIN old.pairings /\ t[2] \in DOMAIN Slots(old, t[1])
                    /\ LET h == Slots(old, t[1])[t[2]].host
                       IN  Node \in {h[1], h[2]} /\ t[3] \in {h[1], h[2]}
  BY DEF Matches
<1>1. PICK e \in E : /\ Host(e) = Node /\ Target(e) \in DOMAIN snap
                     /\ t = <<e[1], e[2], Target(e), snap[Target(e)].addr>>
  BY DEF Desired
<1>2. PICK k \in A : e \in {k} \X (DOMAIN new.pairings[k].slots) \X Side
  <2> HIDE DEF A
  <2> QED BY <1>1
<1>3. /\ e[1] = k /\ e[2] \in DOMAIN Slots(new, k) /\ e[3] \in Side
      /\ k \in DOMAIN new.pairings /\ IsActive(new.pairings[k])
  BY <1>2 DEF Slots
<1> DEFINE i == e[2]
           d == e[3]
           s == Slots(new, k)[i]
<1>4. /\ s.host[d] = Node /\ s.host[3 - d] = t[3] /\ t[1] = k /\ t[2] = i
      /\ t[3] \in DOMAIN snap
  BY <1>1, <1>3 DEF Slots
<1>5. Node # None /\ t[3] # None
  <2>1. Node \in Hosts /\ None \notin Hosts
    BY HostAssumption
  <2>2. DOMAIN snap \subseteq Hosts
    BY HostAssumption
  <2> QED BY <1>4, <2>1, <2>2
<1>6. 3 - d \in Side /\ ((d = 1 /\ 3 - d = 2) \/ (d = 2 /\ 3 - d = 1))
  BY <1>3 DEF Side
<1> HIDE DEF E, A, Host, Target
<1>7. /\ k \in DOMAIN old.pairings /\ i \in DOMAIN Slots(old, k)
      /\ Slots(old, k)[i].host[d] = Node /\ Slots(old, k)[i].host[3 - d] = t[3]
  BY <1>3, <1>4, <1>5, <1>6 DEF Retains
<1> QED BY <1>4, <1>6, <1>7

\* Time changes no slot, and takes no pairing out of its removal hold.
LEMMA OlderSame ==
    ASSUME NEW st, TableOK(st)
    PROVE  /\ DOMAIN Older(st).pairings = DOMAIN st.pairings
           /\ \A k \in DOMAIN st.pairings :
                  /\ Slots(Older(st), k) = Slots(st, k)
                  /\ IsActive(Older(st).pairings[k]) <=> IsActive(st.pairings[k])
<1> DEFINE q == [k \in DOMAIN st.pairings |->
                    [st.pairings[k] EXCEPT !.left = IF @ > 0 THEN @ - 1 ELSE @]]
<1>1. Older(st).pairings = q
  <2>1. Older(st) = [st EXCEPT !.pairings = q]
    BY Zenon DEF Older
  <2>2. st = [rule |-> st.rule, slots |-> st.slots,
              pairings |-> st.pairings, supers |-> st.supers]
    BY DEF TableOK
  <2> HIDE DEF q
  <2> QED BY <2>1, <2>2
<1>2. ASSUME NEW k \in DOMAIN st.pairings
      PROVE  q[k].slots = st.pairings[k].slots /\ (q[k].left = Never <=> st.pairings[k].left = Never)
  <2> DEFINE p == st.pairings[k]
  <2>1. /\ p = [slots |-> p.slots, left |-> p.left]
        /\ p.left \in Nat \cup {Never}
    BY DEF TableOK, PairingType
  <2>2. q[k] = [p EXCEPT !.left = IF @ > 0 THEN @ - 1 ELSE @]
    OBVIOUS
  <2> HIDE DEF p, q
  <2>3. q[k] = [slots |-> p.slots, left |-> IF p.left > 0 THEN p.left - 1 ELSE p.left]
    BY <2>1, <2>2
  <2> QED BY <2>1, <2>3 DEF Never, p
<1>3. DOMAIN q = DOMAIN st.pairings
  OBVIOUS
<1> HIDE DEF q
<1> QED BY <1>1, <1>2, <1>3 DEF Slots, IsActive

\* Outside the moment between Install and OnDelta the tasks are in the table,
\* and the tasks that a run is about to hand over are.
TaskInv(r) ==
    /\ pc[r] # "installed" => Matches(tasks, cur)
    /\ pc[r] = "installed" => Retains(cur, run[r].state)
    /\ pc[r] = "computed" /\ IsEmpty(run[r].delta) => Retains(cur, run[r].state)

LEMMA BeginTasks ==
    ASSUME LoopInv, NEW r \in Requester, TaskInv(r), Begin(r)
    PROVE  TaskInv(r)'
<1> DEFINE out == Reconcile(Input, cur)
<1>1. CASE TooMany(Input)
  BY <1>1 DEF Begin, TaskInv
<1>2. CASE ~TooMany(Input)
  <2>1. /\ pc[r] = "idle" /\ DOMAIN run = Requester /\ DOMAIN pc = Requester
        /\ TableInv(cur) /\ InputOK(Input)
    BY InputTyped DEF LoopInv, TypeOK, Begin
  <2>2. /\ pc' = [pc EXCEPT ![r] = "computed"]
        /\ run' = [run EXCEPT ![r] = [snap |-> inv, state |-> out.state,
                                      delta |-> out.delta]]
        /\ UNCHANGED <<cur, tasks>>
    BY <1>2 DEF Begin
  <2>3. IsEmpty(out.delta) => Retains(cur, out.state)
    BY <2>1, IdleRetains
  <2> HIDE DEF out
  <2>4. pc'[r] = "computed" /\ run'[r].state = out.state /\ run'[r].delta = out.delta
    BY <2>1, <2>2
  <2>5. Matches(tasks, cur)
    BY <2>1 DEF TaskInv
  <2> QED BY <2>2, <2>3, <2>4, <2>5 DEF TaskInv
<1> QED BY <1>1, <1>2

LEMMA InstallTasks ==
    ASSUME LoopInv, NEW r \in Requester, TaskInv(r), Install(r)
    PROVE  TaskInv(r)'
<1>1. /\ pc' = [pc EXCEPT ![r] = "installed"] /\ cur' = run[r].state /\ run' = run
      /\ DOMAIN pc = Requester
  BY DEF Install, LoopInv, TypeOK
<1>2. pc'[r] = "installed"
  BY <1>1
<1>3. \A st : Retains(st, st)
  BY DEF Retains
<1> QED BY <1>1, <1>2, <1>3 DEF TaskInv

LEMMA FinishTasks ==
    ASSUME LoopInv, NEW r \in Requester, TaskInv(r), Finish(r)
    PROVE  TaskInv(r)'
<1>1. /\ pc[r] = "installed" \/ (pc[r] = "computed" /\ IsEmpty(run[r].delta))
      /\ tasks' = IF pc[r] = "installed" \/ ~ready
                  THEN Desired(run[r].state, run[r].snap) ELSE tasks
      /\ pc' = [pc EXCEPT ![r] = "idle"] /\ cur' = cur
  BY DEF Finish
<1>2. DOMAIN pc = Requester /\ run[r].snap \in Inventories \cup {<<>>}
  BY <1>1 DEF LoopInv, TypeOK, RunOK
<1>3. Retains(cur, run[r].state)
  BY <1>1 DEF TaskInv
<1>4. Matches(Desired(run[r].state, run[r].snap), cur)
  BY <1>2, <1>3, DesiredMatches
<1>5. Matches(tasks', cur)
  BY <1>1, <1>4 DEF TaskInv
<1>6. pc'[r] = "idle"
  BY <1>1, <1>2
<1> QED BY <1>1, <1>5, <1>6 DEF TaskInv

LEMMA ElapseTasks ==
    ASSUME LoopInv, NEW r \in Requester, TaskInv(r), Elapse
    PROVE  TaskInv(r)'
<1>1. /\ cur' = Older(cur) /\ pc' = pc /\ tasks' = tasks
      /\ run'[r] = IF run[r] = NoRun THEN NoRun
                   ELSE [run[r] EXCEPT !.state = Older(run[r].state)]
  BY DEF Elapse
<1>2. TableOK(cur)
  BY DEF LoopInv, TypeOK
<1>3. Matches(tasks, cur) => Matches(tasks, Older(cur))
  BY <1>2, OlderSame DEF Matches
<1>4. ASSUME pc[r] # "idle"
      PROVE  /\ run'[r].state = Older(run[r].state) /\ run'[r].delta = run[r].delta
             /\ TableOK(run[r].state)
  <2>1. /\ run[r] = [snap |-> run[r].snap, state |-> run[r].state,
                     delta |-> run[r].delta]
        /\ TableOK(run[r].state)
    BY <1>4 DEF LoopInv, TypeOK, RunOK
  <2>2. run[r] # NoRun
    <3>1. DOMAIN run[r] = {"snap", "state", "delta"}
      BY <2>1
    <3>2. DOMAIN NoRun = {}
      BY DEF NoRun
    <3> QED BY <3>1, <3>2
  <2>3. run'[r] = [run[r] EXCEPT !.state = Older(run[r].state)]
    BY <1>1, <2>2
  <2>4. run'[r] = [snap |-> run[r].snap, state |-> Older(run[r].state),
                   delta |-> run[r].delta]
    BY <2>1, <2>3
  <2> QED BY <2>1, <2>4
<1>5. ASSUME NEW st, TableOK(st), Retains(cur, st)
      PROVE  Retains(Older(cur), Older(st))
  <2>1. /\ DOMAIN Older(cur).pairings = DOMAIN cur.pairings
        /\ \A k \in DOMAIN cur.pairings : Slots(Older(cur), k) = Slots(cur, k)
    BY <1>2, OlderSame
  <2>2. /\ DOMAIN Older(st).pairings = DOMAIN st.pairings
        /\ \A k \in DOMAIN st.pairings :
               /\ Slots(Older(st), k) = Slots(st, k)
               /\ IsActive(Older(st).pairings[k]) <=> IsActive(st.pairings[k])
    BY <1>5, OlderSame
  <2> QED BY <1>5, <2>1, <2>2 DEF Retains
<1> QED BY <1>1, <1>3, <1>4, <1>5 DEF TaskInv

LEMMA TasksStep ==
    ASSUME LoopInv, NEW r \in Requester, Requester = {r}, TaskInv(r), [Next]_vars
    PROVE  TaskInv(r)'
<1>1. CASE Begin(r)
  BY <1>1, BeginTasks
<1>2. CASE Install(r)
  BY <1>2, InstallTasks
<1>3. CASE Finish(r)
  BY <1>3, FinishTasks
<1>4. CASE Elapse
  BY <1>4, ElapseTasks
<1>5. CASE Restart
  <2>1. pc'[r] = "idle" /\ tasks' = {}
    BY <1>5 DEF Restart
  <2> QED BY <2>1 DEF TaskInv, Matches
<1>6. CASE \/ Discover \/ (\E h \in Frail : HealthChange(h))
           \/ Reload \/ OnConfig \/ UNCHANGED vars
  <2>1. UNCHANGED <<cur, tasks, pc, run>>
    BY <1>6 DEF Discover, HealthChange, Reload, OnConfig, vars
  <2> QED BY <2>1 DEF TaskInv
<1>7. \A q \in Requester : q = r
  OBVIOUS
<1> QED BY <1>1, <1>2, <1>3, <1>4, <1>5, <1>6, <1>7 DEF Next

\* With one requester, the loop itself, the runner never measures a pair of
\* hosts that the table does not hold in that slot, outside a run: neither a
\* run without a delta nor the first one after a restart publishes another
\* table's tasks.
THEOREM NoTaskStale ==
    ASSUME NEW r \in Requester, Requester = {r}
    PROVE  Spec => []NoStaleTask
<1>1. Init => TaskInv(r)
  BY DEF Init, TaskInv, Matches
<1>2. LoopInv /\ TaskInv(r) /\ [Next]_vars => TaskInv(r)'
  BY TasksStep
<1>3. TaskInv(r) => NoStaleTask
  BY DEF TaskInv, Matches, NoStaleTask
<1> QED BY <1>1, <1>2, <1>3, Inductive, PTL DEF Spec
=============================================================================
