------------------------------ MODULE Reconcile ------------------------------
(***************************************************************************)
(* The pure function of internal/reconcile: the slot table that follows    *)
(* from an inventory, a configuration, the eligible hosts and the table    *)
(* before it, with the operators of internal/pairing and internal/slot it  *)
(* is built from.                                                          *)
(*                                                                         *)
(* Hosts and zones are numbers in their canonical (sorted) order, so "the  *)
(* first host" is the least one; None is the empty string.  A pairing key  *)
(* is the pair of its zones, the lesser first; side 1 is SideA, in zone    *)
(* k[1], and side 2 is SideB.  A zone rule is the function from a host's   *)
(* attributes to its zone (None: unresolved) and is its own fingerprint.   *)
(* The time left before a pairing's RemoveAt stands for RemoveAt.          *)
(***************************************************************************)
EXTENDS Integers, FiniteSets, Sequences, SequencesExt

CONSTANT
    Hash    \* Hash[k]: the fnv32a hash of a pairing key

ASSUME HashAssumption == \A k \in DOMAIN Hash : Hash[k] \in Nat

None  == 0
Never == -1
Side  == {1, 2}

Unfilled == 0
Unique   == 1
MinUse   == 2
AnyUse   == 3

\* The elements of a finite set in an order.
Sorted(S, Before(_, _)) ==
    [n \in 1..Cardinality(S) |->
        CHOOSE x \in S : Cardinality({y \in S : Before(y, x)}) = n - 1]

\* The first n hosts of S in canonical order.
FirstN(S, n) == {h \in S : Cardinality({g \in S : g < h}) < n}

-----------------------------------------------------------------------------
(* An input of Reconcile: inv, the snapshot, a function from the hosts that *)
(* are present to [attr, addr]; eligible, a set of hosts; cfg, the current  *)
(* configuration; topo, the configuration the zone rule, the pairing filter *)
(* and the scanner were last compiled from.                                 *)

Zone(in, h)    == in.topo.rule[in.inv[h].attr]
Members(in, z) == {h \in DOMAIN in.inv : Zone(in, h) = z}
Zones(in)      == {Zone(in, h) : h \in DOMAIN in.inv} \ {None}

\* pairing.Build before its limit, and the limit.  The second test of the
\* limit, after the filter, is implied by the first.
Wanted(in) ==
    {k \in in.topo.filter \cap (Zones(in) \X Zones(in)) :
        \/ k[1] < k[2]
        \/ k[1] = k[2] /\ in.cfg.intra /\ Cardinality(Members(in, k[1])) >= 2}

TooMany(in) ==
    LET n == Cardinality(Zones(in))
    IN  /\ in.cfg.maxPairings > 0
        /\ (n * (n - 1)) \div 2 + (IF in.cfg.intra THEN n ELSE 0)
               > in.cfg.maxPairings

-----------------------------------------------------------------------------
(* Slot tables.                                                            *)

\* ComputeLayout, for an anchor ratio in percent.
Anchors(cfg) ==
    LET raw == cfg.count * cfg.percent
        n   == IF cfg.rounding = "down" THEN raw \div 100
                                        ELSE (raw + 99) \div 100
    IN  IF n = 0 /\ cfg.percent > 0 THEN 1 ELSE n

ClassAt(cfg, i) == IF i <= Anchors(cfg) THEN "anchor" ELSE "diverse"

\* slotsFingerprint.
SlotsFingerprint(cfg) ==
    <<cfg.count, cfg.percent, cfg.rounding, cfg.superHosts, cfg.superMax,
      cfg.reuse>>

EmptySlot(class) ==
    [class |-> class, host |-> <<None, None>>,
     rank |-> <<Unfilled, Unfilled>>, target |-> None]

SuperSlot(src, dst) ==
    [class |-> "super", host |-> <<src, dst>>, rank |-> <<Unique, Unique>>,
     target |-> dst]

SetHost(slot, side, h, r) ==
    [slot EXCEPT !.host[side] = h, !.rank[side] = r]

IsSuper(slot) == slot.class = "super"
IsBase(slot)  == slot.class # "super"
IsActive(p)   == p.left = Never

\* The slots at the positions of S, which keep their order.
SlotsAt(slots, S) ==
    LET order == Sorted(S, LAMBDA i, j : i < j)
    IN  [n \in DOMAIN order |-> slots[order[n]]]

Bases(slots)  == SlotsAt(slots, {i \in DOMAIN slots : IsBase(slots[i])})
Supers(slots) == SlotsAt(slots, {i \in DOMAIN slots : IsSuper(slots[i])})

NewState(in) ==
    [rule |-> in.topo.rule, slots |-> SlotsFingerprint(in.cfg),
     pairings |-> <<>>, supers |-> <<>>]

\* Defect: a new layout keeps the table made under the old one.
RebuiltForRule(in, st) == IF st.rule = in.topo.rule THEN st ELSE NewState(in)

\* A table made under another rule or layout is discarded.
Rebuilt(in, st) ==
    IF st.rule = in.topo.rule /\ st.slots = SlotsFingerprint(in.cfg)
    THEN st ELSE NewState(in)

\* resizeSlots: a slot of another class loses its hosts, super slots follow.
Resize(cfg, slots) ==
    LET base == Bases(slots)
        At(i) == IF i <= Len(base) /\ base[i].class = ClassAt(cfg, i)
                 THEN base[i] ELSE EmptySlot(ClassAt(cfg, i))
    IN  [i \in 1..cfg.count |-> At(i)] \o Supers(slots)

\* diffPairings: new tables, kept tables, and the removal hold of the
\* vanished ones.
Expired(in, ps) == {k \in DOMAIN ps \ Wanted(in) : ps[k].left = 0}

DiffPairings(in, ps) ==
    [k \in Wanted(in) \cup (DOMAIN ps \ Expired(in, ps)) |->
        IF k \in Wanted(in)
        THEN [slots |-> Resize(in.cfg, IF k \in DOMAIN ps THEN ps[k].slots
                                                         ELSE <<>>),
              left |-> Never]
        ELSE [ps[k] EXCEPT !.left = IF @ = Never THEN in.cfg.hold ELSE @]]

\* F(k, slots) applied to the table of every pairing that is not vanishing.
OnActive(ps, F(_, _)) ==
    [k \in DOMAIN ps |-> IF IsActive(ps[k])
                         THEN [ps[k] EXCEPT !.slots = F(k, @)] ELSE ps[k]]

\* Defect: a host that fails keeps its sides.
ValidWhilePresent(in, z, h) == h \in DOMAIN in.inv /\ Zone(in, h) = z

\* checkSide: what keeps a host in its side.
Valid(in, z, h) ==
    h \in DOMAIN in.inv /\ h \in in.eligible /\ Zone(in, h) = z

\* Defect: a failure on one side clears the whole slot.
ValidateSlots(in, ps) ==
    OnActive(ps, LAMBDA k, slots : [i \in DOMAIN slots |->
        IF \A s \in Side : Valid(in, k[s], slots[i].host[s])
        THEN slots[i]
        ELSE [slots[i] EXCEPT !.host = <<None, None>>,
                              !.rank = <<Unfilled, Unfilled>>]])

\* validateSides.  The reverse direction's super slots are checked against
\* the same zones as the others.
ValidateSides(in, ps) ==
    LET Check(k, slot) ==
            [slot EXCEPT
                !.host = [s \in Side |-> IF Valid(in, k[s], @[s])
                                         THEN @[s] ELSE None],
                !.rank = [s \in Side |-> IF Valid(in, k[s], slot.host[s])
                                         THEN @[s] ELSE Unfilled]]
    IN  OnActive(ps, LAMBDA k, slots :
                         [i \in DOMAIN slots |-> Check(k, slots[i])])

-----------------------------------------------------------------------------
(* Super hosts and super slots.                                            *)

\* Defect: the selector's matches come before the hosts that are chosen.
PickSuperAfresh(in, z, current) ==
    LET want == in.topo.superHosts
        pool == Members(in, z) \cap in.eligible
        best == FirstN({h \in pool : in.inv[h].attr \in in.topo.selector}, want)
    IN  best \cup FirstN(pool \ best, want - Cardinality(best))

\* PickSuper: the hosts still valid stay, then the selector's matches, then
\* the canonical order.
PickSuper(in, z, current) ==
    LET want == in.topo.superHosts
        pool == Members(in, z) \cap in.eligible
        kept == FirstN(current \cap pool, want)
        matching == {h \in pool \ kept : in.inv[h].attr \in in.topo.selector}
        chosen == kept \cup FirstN(matching, want - Cardinality(kept))
    IN  chosen \cup FirstN(pool \ chosen, want - Cardinality(chosen))

SupersOf(supers, z) == IF z \in DOMAIN supers THEN supers[z] ELSE {}

NextSupers(in, supers) ==
    LET pick == [z \in Zones(in) |-> PickSuper(in, z, SupersOf(supers, z))]
    IN  IF in.cfg.superHosts = 0 THEN <<>>
        ELSE [z \in {y \in Zones(in) : y \in DOMAIN supers \/ pick[y] # {}}
                 |-> pick[z]]

\* superPairs: each super host of one zone with the other zone's hosts.
SuperPairs(in, supers, k) ==
    LET Fan(y, z) ==
            UNION {{<<src, dst>> : dst \in
                        FirstN({h \in Members(in, z) \cap in.eligible : h # src},
                               in.cfg.superMax)} :
                   src \in SupersOf(supers, y) \cap in.eligible}
    IN  Fan(k[1], k[2]) \cup Fan(k[2], k[1])

\* updateSuper, for the table of one pairing: a super slot that is still
\* wanted, and was not cleared, keeps its record.
UpdateSuper(in, supers, k, slots) ==
    LET old == {slots[i] : i \in {j \in DOMAIN slots : IsSuper(slots[j])}}
        pairs == Sorted(SuperPairs(in, supers, k),
                     LAMBDA p, q : p[1] < q[1] \/ (p[1] = q[1] /\ p[2] < q[2]))
        At(p) == LET same == {s \in old : s.host[1] = p[1] /\ s.target = p[2]}
                 IN  IF same = {} THEN SuperSlot(p[1], p[2])
                                  ELSE CHOOSE s \in same : TRUE
    IN  Bases(slots) \o [i \in DOMAIN pairs |-> At(pairs[i])]

UpdateSupers(in, supers, ps) ==
    IF in.cfg.superHosts = 0
    THEN [k \in DOMAIN ps |-> [ps[k] EXCEPT !.slots = Bases(@)]]
    ELSE OnActive(ps, LAMBDA k, slots : UpdateSuper(in, supers, k, slots))

-----------------------------------------------------------------------------
(* The scanner.                                                            *)

\* Defect: candidates are not filtered by health.
AllCandidates(in, k, side) == Members(in, k[side])

\* NewCandidates for one side of a pairing.
Candidates(in, k, side) == Members(in, k[side]) \cap in.eligible

\* Candidates.UseCount: the slots, super slots included, h holds on a side.
UseCount(slots, side, h) ==
    Cardinality({i \in DOMAIN slots : slots[i].host[side] = h})

\* scan: the first host of Q met from the start offset, wrapping once.
Scan(k, C, Q) ==
    LET n == Cardinality(C)
        dist == [h \in C |-> (Cardinality({g \in C : g < h}) - Hash[k]) % n]
    IN  CHOOSE h \in Q : \A g \in Q : dist[h] <= dist[g]

\* Defect: allow_reuse is not consulted.
PickReusing(in, k, slots, side, exclude) ==
    LET C      == Candidates(in, k, side)
        free   == C \ exclude
        unused == {h \in free : UseCount(slots, side, h) = 0}
    IN  CASE free = {}   -> <<None, Unfilled>>
          [] unused # {} -> <<Scan(k, C, unused), Unique>>
          [] OTHER       -> <<Scan(k, C, free), MinUse>>

\* Pick, as a host and its rank.
Pick(in, k, slots, side, exclude) ==
    LET C      == Candidates(in, k, side)
        free   == C \ exclude
        Use(h) == UseCount(slots, side, h)
        unused == {h \in free : Use(h) = 0}
        least  == {h \in free : \A g \in C : Use(h) <= Use(g)}
    IN  IF unused # {} THEN <<Scan(k, C, unused), Unique>>
        ELSE IF ~in.topo.reuse \/ free = {} THEN <<None, Unfilled>>
        ELSE IF least # {} THEN <<Scan(k, C, least), MinUse>>
        ELSE <<Scan(k, C, free), AnyUse>>

\* PickAnchor ignores use counts, except in the rank it reports.
PickAnchor(in, k, slots, side, exclude) ==
    LET C == Candidates(in, k, side)
        h == Scan(k, C, C \ exclude)
    IN  IF C \subseteq exclude THEN <<None, Unfilled>>
        ELSE <<h, IF UseCount(slots, side, h) = 0 THEN Unique ELSE MinUse>>

\* Defect: every anchor slot gets a pick of its own.
FillAnchorsApart(in, k, slots, side) ==
    FoldLeft(LAMBDA t, i :
                 LET p == Pick(in, k, t, side, {})
                 IN  [j \in DOMAIN t |->
                         IF /\ j = i /\ t[i].class = "anchor"
                            /\ t[i].host[side] = None
                         THEN SetHost(t[i], side, p[1], p[2]) ELSE t[j]],
             slots, [n \in DOMAIN slots |-> n])

\* fillAnchors, for one side: the first anchor host is copied, or one is
\* picked for all.
FillAnchors(in, k, slots, side) ==
    LET anchors == {i \in DOMAIN slots : slots[i].class = "anchor"}
        held(s) == {i \in anchors : slots[i].host[s] # None}
        far     == IF k[1] = k[2] THEN {slots[i].host[3 - side] :
                                            i \in held(3 - side)} ELSE {}
        first   == CHOOSE i \in held(side) : \A j \in held(side) : i <= j
        choice  == IF held(side) # {} THEN <<slots[first].host[side], MinUse>>
                   ELSE PickAnchor(in, k, slots, side, far)
    IN  [i \in DOMAIN slots |->
            IF i \in anchors \ held(side)
            THEN SetHost(slots[i], side, choice[1], choice[2]) ELSE slots[i]]

\* Defect: an intra-zone slot may get the same host on both sides.
FillDiverseAlone(in, k, slots, i, side) ==
    LET choice == Pick(in, k, slots, side, {})
    IN  [j \in DOMAIN slots |->
            IF /\ j = i /\ slots[i].class = "diverse"
               /\ slots[i].host[side] = None
            THEN SetHost(slots[i], side, choice[1], choice[2]) ELSE slots[j]]

\* fillDiverse, for one side of one slot.
FillDiverse(in, k, slots, i, side) ==
    LET far    == slots[i].host[3 - side]
        choice == Pick(in, k, slots, side,
                       IF k[1] = k[2] /\ far # None THEN {far} ELSE {})
    IN  [j \in DOMAIN slots |->
            IF /\ j = i /\ slots[i].class = "diverse"
               /\ slots[i].host[side] = None
            THEN SetHost(slots[i], side, choice[1], choice[2]) ELSE slots[j]]

\* fillSides, for the table of one pairing: anchors, then diverse slots in
\* order, side A before side B.
FillSides(in, k, slots) ==
    LET filled[n \in 0..(2 * Len(slots))] ==
            IF n = 0
            THEN FillAnchors(in, k, FillAnchors(in, k, slots, 1), 2)
            ELSE FillDiverse(in, k, filled[n - 1], (n + 1) \div 2, 2 - (n % 2))
    IN  filled[2 * Len(slots)]

-----------------------------------------------------------------------------
(* Reconcile.                                                              *)

\* The sides that hold a host, as <<key, place, side, host>>; a super slot's
\* place is its endpoints, for it may move up without being reported.
Place(slot, i) == IF IsSuper(slot) THEN <<0, slot.host[1], slot.target>>
                                   ELSE <<i, None, None>>

HeldIn(k, slots) ==
    {<<k, Place(slots[c[1]], c[1]), c[2], slots[c[1]].host[c[2]]>> :
        c \in {d \in (DOMAIN slots) \X Side : slots[d[1]].host[d[2]] # None}}

\* The new state and the Delta.  A stage reports the sides whose host it
\* cleared or placed; a removed pairing is reported as such.
Reconcile(in, current) ==
    LET st     == Rebuilt(in, current)
        ps1    == DiffPairings(in, st.pairings)
        ps2    == ValidateSides(in, ps1)
        supers == NextSupers(in, st.supers)
        ps3    == UpdateSupers(in, supers, ps2)
        ps4    == OnActive(ps3, LAMBDA k, slots : FillSides(in, k, slots))
        H(ps)  == UNION {HeldIn(k, ps[k].slots) : k \in DOMAIN ps1 \cap DOMAIN ps}
        Diff(ps, qs) == (H(ps) \ H(qs)) \cup (H(qs) \ H(ps))
    IN  [state |-> [st EXCEPT !.pairings = ps4, !.supers = supers],
         delta |-> [added   |-> DOMAIN ps1 \ DOMAIN st.pairings,
                    removed |-> Expired(in, st.pairings),
                    sides   |-> Diff(st.pairings, ps1) \cup Diff(ps1, ps2)
                                    \cup Diff(ps2, ps3) \cup Diff(ps3, ps4),
                    supers  |-> {z \in DOMAIN st.supers \cup DOMAIN supers :
                                    \/ SupersOf(st.supers, z) # SupersOf(supers, z)
                                    \/ z \notin DOMAIN supers}]]

IsEmpty(delta) ==
    /\ delta.added = {} /\ delta.removed = {}
    /\ delta.sides = {} /\ delta.supers = {}
=============================================================================
