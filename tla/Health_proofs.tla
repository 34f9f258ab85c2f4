---------------------------- MODULE Health_proofs ----------------------------
(* Proofs about the health tracker, for every set of hosts, every set of    *)
(* configurations and every bound.                                          *)
EXTENDS Health, TLAPS

(***************************************************************************)
(* The inductive invariant: the type, and for each host the timer of a     *)
(* pending host and the bound on the marks of an eligible one.  Timed is   *)
(* what makes a release by Tick traceable to a full release_hold.          *)
(***************************************************************************)
Good(st) == st \in Status /\ Timed(st) /\ Calm(st)

IInv == /\ TypeOK
        /\ \A h \in DOMAIN hosts : Good(hosts[h])

-----------------------------------------------------------------------------
(* The state change that every operation goes through.                      *)

LEMMA RecentType ==
    ASSUME cfg \in Configs, NEW marks \in MarkBags, NEW t \in 1..MaxTime
    PROVE  Recent(marks, t) \in MarkBags
<1> DEFINE D == {u \in DOMAIN marks \cup {t} : t <= u + cfg.flapWindow}
<1>1. PICK E \in SUBSET (1..MaxTime) : marks \in [E -> 1..MaxCount]
  BY DEF MarkBags
<1>2. D \in SUBSET (1..MaxTime)
  BY <1>1
<1>3. ASSUME NEW m \in D
      PROVE  (IF m \notin DOMAIN marks THEN 1
              ELSE IF m = t THEN Saturated(marks[m]) ELSE marks[m]) \in 1..MaxCount
  BY <1>1, BoundAssumption DEF Saturated
<1>4. Recent(marks, t) \in [D -> 1..MaxCount]
  BY <1>3 DEF Recent
<1> QED
  BY <1>2, <1>4 DEF MarkBags

\* Transition yields a Status; it changes neither presence nor the absence
\* and DNS timers; and it ends in the state asked for or in "cooldown".
LEMMA TransitionFacts ==
    ASSUME cfg \in Configs, NEW st \in Status, NEW to \in States,
           NEW t \in 1..MaxTime
    PROVE  LET r == Transition(st, to, t)
           IN  /\ r \in Status
               /\ r.present = st.present
               /\ r.missingAt = st.missingAt
               /\ r.state \in {to, "cooldown"}
               /\ to = "ineligible" => r.state = "ineligible"
               /\ Eligible(st) /\ to \in EligibleStates => r.state = to
               /\ Calm(st) => Calm(r)
<1> DEFINE marks  == Recent(st.flapMarks, t)
           moved  == Moved(st, to)
           marked == [moved EXCEPT !.flapMarks = marks]
           cooled == [marked EXCEPT !.state = "cooldown",
                                    !.cooldownEnd = t + cfg.flapCooldown]
           r      == Transition(st, to, t)
<1>1. /\ moved \in Status
      /\ moved.state = to
      /\ moved.present = st.present
      /\ moved.missingAt = st.missingAt
      /\ moved.flapMarks = st.flapMarks
  BY DEF Moved, Status
<1>2. marks \in MarkBags
  BY RecentType DEF Status
<1>3. /\ marked \in Status
      /\ marked.state = to
      /\ marked.present = st.present
      /\ marked.missingAt = st.missingAt
      /\ marked.flapMarks = marks
  <2> HIDE DEF moved, marks
  <2> QED BY <1>1, <1>2 DEF Status
<1>4. /\ cooled \in Status
      /\ cooled.state = "cooldown"
      /\ cooled.present = st.present
      /\ cooled.missingAt = st.missingAt
  <2>1. t + cfg.flapCooldown \in Nat
    BY ConfigAssumption DEF HealthConfig
  <2> HIDE DEF marked
  <2> QED BY <1>3, <2>1 DEF Status, States
<1> HIDE DEF moved, marked, cooled
<1>5. CASE st.state = to
  <2>1. r = st
    BY <1>5 DEF Transition
  <2> QED BY <1>5, <2>1
<1>6. CASE st.state # to /\ Eligible(st) = Eligible(moved)
  <2>1. r = moved
    BY <1>6 DEF Transition, moved
  <2>2. Calm(st) => Calm(moved)
    BY <1>1, <1>6 DEF Calm
  <2> QED BY <1>1, <2>1, <2>2
<1>7. CASE st.state # to /\ Eligible(st) # Eligible(moved)
  <2>1. CASE r = cooled /\ to \notin {"ineligible", "cooldown"}
    <3>1. ~Eligible(cooled)
      BY <1>4 DEF Eligible, EligibleStates
    <3>2. ~(Eligible(st) /\ to \in EligibleStates)
      BY <1>1, <1>7 DEF Eligible
    <3> QED BY <2>1, <1>4, <3>1, <3>2 DEF Calm
  <2>2. CASE /\ r = marked
             /\ ~(/\ cfg.flapThreshold > 0
                  /\ BagCardinality(marks) > cfg.flapThreshold
                  /\ to \notin {"ineligible", "cooldown"})
    <3>1. Calm(marked)
      BY <1>3, <2>2 DEF Calm, Eligible, EligibleStates
    <3> QED BY <1>3, <2>2, <3>1
  <2> QED
    BY <1>7, <2>1, <2>2 DEF Transition, moved, marked, cooled
<1> QED BY <1>5, <1>6, <1>7

-----------------------------------------------------------------------------
(* What each operation does to one good Status.                             *)

\* Changing only what neither the timer nor the marks depend on.
LEMMA KeepGood ==
    ASSUME NEW st, Good(st), NEW s \in Status,
           s.state = st.state, s.markedAt = st.markedAt,
           s.releaseAt = st.releaseAt, s.flapMarks = st.flapMarks
    PROVE  Good(s) /\ (Eligible(s) <=> Eligible(st))
BY DEF Good, Timed, Calm, Eligible

\* A transition to a state other than "pending" keeps a Status good.
LEMMA TransitionGood ==
    ASSUME cfg \in Configs, NEW st, st \in Status, Calm(st),
           NEW to \in States, to # "pending", NEW t \in 1..MaxTime
    PROVE  Good(Transition(st, to, t))
BY TransitionFacts DEF Good, Timed

LEMMA NewStatusGood ==
    Good(NewStatus)
<1>1. EmptyBag \in [{} -> 1..MaxCount]
  BY DEF EmptyBag, SetToBag
<1>2. EmptyBag \in MarkBags
  BY <1>1 DEF MarkBags
<1>3. NewStatus \in Status
  BY <1>2, BoundAssumption DEF NewStatus, Status, States
<1> QED
  BY <1>3 DEF Good, Timed, Calm, NewStatus

LEMMA SeenOK ==
    ASSUME cfg \in Configs, now \in Nat, NEW st, Good(st),
           NEW up \in BOOLEAN, NEW t \in 1..MaxTime
    PROVE  Good(Seen(st, up, t)) /\ Justified(st, Seen(st, up, t))
<1> DEFINE s == [st EXCEPT !.present = TRUE, !.missingAt = 0]
<1>1. /\ s \in Status /\ s.state = st.state /\ s.markedAt = st.markedAt
      /\ s.releaseAt = st.releaseAt /\ s.flapMarks = st.flapMarks
      /\ s.present = TRUE
  BY DEF Good, Status
<1>2. Good(s) /\ (Eligible(s) <=> Eligible(st))
  <2> HIDE DEF s
  <2> QED BY <1>1, KeepGood
<1> HIDE DEF s
<1>3. CASE ~up
  <2>1. Seen(st, up, t) = Transition(s, "ineligible", t)
    BY <1>3 DEF Seen, s
  <2>2. Good(Transition(s, "ineligible", t))
    BY <1>1, <1>2, TransitionGood DEF Good, States
  <2>3. /\ Transition(s, "ineligible", t).state = "ineligible"
        /\ Transition(s, "ineligible", t).present
    BY <1>1, TransitionFacts DEF States
  <2> QED BY <2>1, <2>2, <2>3 DEF Justified
<1>4. CASE up /\ s.state = "ineligible"
  <2>1. Seen(st, up, t) = Transition(s, "unknown", t)
    BY <1>4 DEF Seen, s
  <2>2. Good(Transition(s, "unknown", t))
    BY <1>1, <1>2, TransitionGood DEF Good, States
  <2>3. ~Eligible(st)
    BY <1>1, <1>4 DEF Eligible, EligibleStates
  <2> QED BY <2>1, <2>2, <2>3 DEF Justified
<1>5. CASE up /\ s.state # "ineligible"
  <2>1. Seen(st, up, t) = s
    BY <1>5 DEF Seen, s
  <2> QED BY <2>1, <1>2 DEF Justified
<1> QED BY <1>3, <1>4, <1>5

\* The step that makes a host ineligible for being absent.
LEMMA MissedOK ==
    ASSUME cfg \in Configs, now \in Nat, NEW st, Good(st),
           NEW t \in 1..MaxTime, t <= now, MissedTooLong(st, t)
    PROVE  LET r == Transition(st, "ineligible", t)
           IN  /\ Good(r)
               /\ r.state = "ineligible"
               /\ now >= r.missingAt + cfg.missingGrace
<1> DEFINE r == Transition(st, "ineligible", t)
<1>1. Good(r)
  BY TransitionGood DEF Good, States
<1>2. r.state = "ineligible" /\ r.missingAt = st.missingAt
  BY TransitionFacts DEF Good, States
<1>3. st.missingAt \in Nat /\ cfg.missingGrace \in Nat
  BY ConfigAssumption DEF Good, Status, HealthConfig
<1> QED
  BY <1>1, <1>2, <1>3 DEF MissedTooLong

LEMMA UnseenOK ==
    ASSUME cfg \in Configs, now \in Nat, NEW st, Good(st),
           NEW t \in 1..MaxTime, t <= now
    PROVE  Good(Unseen(st, t)) /\ Justified(st, Unseen(st, t))
<1> DEFINE s == IF st.present
                THEN [st EXCEPT !.present = FALSE, !.missingAt = t] ELSE st
<1>1. /\ s \in Status /\ s.state = st.state /\ s.markedAt = st.markedAt
      /\ s.releaseAt = st.releaseAt /\ s.flapMarks = st.flapMarks
  <2>1. [st EXCEPT !.present = FALSE, !.missingAt = t] \in Status
    BY t \in Nat, BoundAssumption DEF Good, Status
  <2>2. CASE st.present
    BY <2>1, <2>2 DEF Good, Status
  <2>3. CASE ~st.present
    BY <2>3 DEF Good
  <2> QED BY <2>2, <2>3
<1> HIDE DEF s
<1>2. Good(s) /\ (Eligible(s) <=> Eligible(st))
  BY <1>1, KeepGood
<1>3. CASE MissedTooLong(s, t)
  <2>1. Unseen(st, t) = Transition(s, "ineligible", t)
    BY <1>3 DEF Unseen, s
  <2> QED BY <1>2, <1>3, <2>1, MissedOK DEF Justified
<1>4. CASE ~MissedTooLong(s, t)
  <2>1. Unseen(st, t) = s
    BY <1>4 DEF Unseen, s
  <2> QED BY <1>2, <2>1 DEF Justified
<1> QED BY <1>3, <1>4

LEMMA ProbeOKGood ==
    ASSUME cfg \in Configs, NEW st, Good(st), NEW t \in 1..MaxTime
    PROVE  Good(ProbeOK(st, t)) /\ Justified(st, ProbeOK(st, t))
<1> DEFINE s == [st EXCEPT !.okStreak = Saturated(@), !.failStreak = 0]
<1>1. Saturated(st.okStreak) \in 0..MaxCount /\ 0 \in 0..MaxCount
  BY BoundAssumption DEF Saturated, Good, Status
<1>2. /\ s \in Status /\ s.state = st.state /\ s.markedAt = st.markedAt
      /\ s.releaseAt = st.releaseAt /\ s.flapMarks = st.flapMarks
  BY <1>1 DEF Good, Status
<1> HIDE DEF s
<1>3. Good(s) /\ (Eligible(s) <=> Eligible(st))
  BY <1>2, KeepGood
<1>4. CASE HeldOut(s) \/ s.okStreak < cfg.healthyAfter
  <2>1. ProbeOK(st, t) = s
    BY <1>4 DEF ProbeOK, s
  <2> QED BY <1>3, <2>1 DEF Justified
<1>5. CASE ~(HeldOut(s) \/ s.okStreak < cfg.healthyAfter)
  <2> DEFINE r == Transition(s, "healthy", t)
  <2>1. ProbeOK(st, t) = r
    BY <1>5 DEF ProbeOK, s
  <2>2. Good(r)
    BY <1>3, TransitionGood DEF Good, States
  <2>3. Eligible(s) => Eligible(r)
    <3>1. Eligible(s) => r.state = "healthy"
      BY <1>3, TransitionFacts DEF Good, States, EligibleStates
    <3> QED BY <3>1 DEF Eligible, EligibleStates
  <2> QED BY <1>3, <2>1, <2>2, <2>3 DEF Justified
<1> QED BY <1>4, <1>5

LEMMA ProbeFailedGood ==
    ASSUME cfg \in Configs, NEW st, Good(st), NEW t \in 1..MaxTime
    PROVE  Good(ProbeFailed(st, t)) /\ Justified(st, ProbeFailed(st, t))
<1> DEFINE s == [st EXCEPT !.failStreak = Saturated(@), !.okStreak = 0]
<1>1. Saturated(st.failStreak) \in 0..MaxCount /\ 0 \in 0..MaxCount
  BY BoundAssumption DEF Saturated, Good, Status
<1>2. /\ s \in Status /\ s.state = st.state /\ s.markedAt = st.markedAt
      /\ s.releaseAt = st.releaseAt /\ s.flapMarks = st.flapMarks
  BY <1>1 DEF Good, Status
<1> HIDE DEF s
<1>3. Good(s) /\ (Eligible(s) <=> Eligible(st))
  BY <1>2, KeepGood
<1>4. CASE HeldOut(s)
  <2>1. ProbeFailed(st, t) = s
    BY <1>4 DEF ProbeFailed, s
  <2> QED BY <1>3, <2>1 DEF Justified
<1>5. CASE ~HeldOut(s) /\ s.failStreak < cfg.unhealthyAfter
  <2> DEFINE r == Transition(s, "suspect", t)
  <2>1. ProbeFailed(st, t) = r
    BY <1>5 DEF ProbeFailed, s
  <2>2. Good(r)
    BY <1>3, TransitionGood DEF Good, States
  <2>3. Eligible(s) => Eligible(r)
    <3>1. Eligible(s) => r.state = "suspect"
      BY <1>3, TransitionFacts DEF Good, States, EligibleStates
    <3> QED BY <3>1 DEF Eligible, EligibleStates
  <2> QED BY <1>3, <2>1, <2>2, <2>3 DEF Justified
<1>6. CASE ~HeldOut(s) /\ ~(s.failStreak < cfg.unhealthyAfter)
  <2>1. CASE s.state \in {"pending", "unhealthy"}
    <3>1. ProbeFailed(st, t) = s
      BY <1>6, <2>1 DEF ProbeFailed, s
    <3> QED BY <1>3, <3>1 DEF Justified
  <2>2. CASE s.state \notin {"pending", "unhealthy"}
    <3> DEFINE q == Transition(s, "pending", t)
               r == [q EXCEPT !.markedAt = t, !.releaseAt = t + cfg.releaseHold]
    <3>1. ProbeFailed(st, t) = r
      BY <1>6, <2>2 DEF ProbeFailed, s
    <3>2. Eligible(s)
      BY <1>2, <1>6, <2>2 DEF HeldOut, Eligible, EligibleStates, Status, States
    <3>3. q \in Status /\ q.state = "pending" /\ Calm(q)
      BY <1>3, <3>2, TransitionFacts DEF Good, States, EligibleStates
    <3>4. t # 0 /\ t \in Nat /\ t + cfg.releaseHold \in Nat
      BY ConfigAssumption DEF HealthConfig
    <3> HIDE DEF q
    <3>5. /\ r \in Status /\ r.state = "pending" /\ r.markedAt = t
          /\ r.releaseAt = t + cfg.releaseHold /\ r.flapMarks = q.flapMarks
      BY <3>3, <3>4 DEF Status
    <3> HIDE DEF r
    <3>6. Good(r) /\ Eligible(r)
      BY <3>3, <3>4, <3>5 DEF Good, Timed, Calm, Eligible, EligibleStates
    <3> QED BY <3>1, <3>6 DEF Justified
  <2> QED BY <2>1, <2>2
<1> QED BY <1>4, <1>5, <1>6

LEMMA ResolveFailedGood ==
    ASSUME cfg \in Configs, now \in Nat, NEW st, Good(st),
           NEW t \in 1..MaxTime, t <= now
    PROVE  Good(ResolveFailed(st, t)) /\ Justified(st, ResolveFailed(st, t))
<1>1. CASE st.resolveFail = 0
  <2> DEFINE s == [st EXCEPT !.resolveFail = t]
  <2>1. ResolveFailed(st, t) = s
    BY <1>1 DEF ResolveFailed
  <2>2. /\ s \in Status /\ s.state = st.state /\ s.markedAt = st.markedAt
        /\ s.releaseAt = st.releaseAt /\ s.flapMarks = st.flapMarks
    BY DEF Good, Status
  <2> HIDE DEF s
  <2> QED BY <2>1, <2>2, KeepGood DEF Justified
<1>2. CASE /\ st.resolveFail # 0 /\ t >= st.resolveFail + cfg.dnsGrace
           /\ Eligible(st)
  <2>1. ResolveFailed(st, t) = Transition(st, "unhealthy", t)
    BY <1>2 DEF ResolveFailed
  <2>2. Good(Transition(st, "unhealthy", t))
    BY TransitionGood DEF Good, States
  <2>3. now >= st.resolveFail + cfg.dnsGrace
    BY <1>2, ConfigAssumption DEF Good, Status, HealthConfig
  <2> QED BY <1>2, <2>1, <2>2, <2>3 DEF Justified
<1>3. CASE /\ st.resolveFail # 0
           /\ ~(t >= st.resolveFail + cfg.dnsGrace /\ Eligible(st))
  <2>1. ResolveFailed(st, t) = st
    BY <1>3 DEF ResolveFailed
  <2> QED BY <2>1 DEF Justified
<1> QED BY <1>1, <1>2, <1>3

LEMMA TickedGood ==
    ASSUME cfg \in Configs, now \in Nat, NEW st, Good(st),
           NEW t \in 1..MaxTime, t <= now
    PROVE  Good(Ticked(st, t)) /\ Justified(st, Ticked(st, t))
<1> DEFINE s == Expired(st, t)
<1>1. Good(s) /\ Justified(st, s)
  <2>1. CASE st.state = "pending" /\ st.releaseAt # 0 /\ t >= st.releaseAt
    <3>1. s = Transition(st, "unhealthy", t)
      BY <2>1 DEF Expired
    <3>2. Good(s)
      BY <3>1, TransitionGood DEF Good, States
    <3>3. now >= st.markedAt + cfg.releaseHold
      BY <2>1, ConfigAssumption DEF Good, Timed, Status, HealthConfig
    <3> QED BY <2>1, <3>2, <3>3 DEF Justified
  <2>2. CASE st.state = "cooldown" /\ st.cooldownEnd # 0 /\ t >= st.cooldownEnd
    <3> DEFINE q == Transition(st, "unknown", t)
    <3>1. s = [q EXCEPT !.okStreak = 0, !.failStreak = 0]
      BY <2>2 DEF Expired
    <3>2. Good(q)
      BY TransitionGood DEF Good, States
    <3> HIDE DEF q, s
    <3>0. 0 \in 0..MaxCount
      BY BoundAssumption
    <3>3. /\ s \in Status /\ s.state = q.state /\ s.markedAt = q.markedAt
          /\ s.releaseAt = q.releaseAt /\ s.flapMarks = q.flapMarks
      BY <3>0, <3>1, <3>2 DEF Good, Status
    <3>4. Good(s)
      BY <3>2, <3>3, KeepGood
    <3>5. ~Eligible(st)
      BY <2>2 DEF Eligible, EligibleStates
    <3> QED BY <3>4, <3>5 DEF Justified
  <2>3. CASE /\ ~(st.state = "pending" /\ st.releaseAt # 0 /\ t >= st.releaseAt)
             /\ ~(st.state = "cooldown" /\ st.cooldownEnd # 0
                                        /\ t >= st.cooldownEnd)
    <3>1. s = st
      BY <2>3 DEF Expired
    <3> QED BY <3>1 DEF Justified
  <2> QED BY <2>1, <2>2, <2>3
<1> HIDE DEF s
<1>2. CASE s.state # "ineligible" /\ MissedTooLong(s, t)
  <2>1. Ticked(st, t) = Transition(s, "ineligible", t)
    BY <1>2 DEF Ticked, s
  <2> QED BY <1>1, <1>2, <2>1, MissedOK DEF Justified
<1>3. CASE ~(s.state # "ineligible" /\ MissedTooLong(s, t))
  <2>1. Ticked(st, t) = s
    BY <1>3 DEF Ticked, s
  <2> QED BY <1>1, <2>1
<1> QED BY <1>2, <1>3

-----------------------------------------------------------------------------
(* The tracker as a whole.                                                  *)

LEMMA InitIInv ==
    Init => IInv
BY BoundAssumption DEF Init, IInv, TypeOK

\* Every step that is not a reload replaces each Status by a good one, and
\* takes eligibility away only with a justification.
LEMMA StatusOfGood ==
    ASSUME IInv, NEW h
    PROVE  Good(StatusOf(h))
BY NewStatusGood DEF IInv, StatusOf

LEMMA PutOK ==
    ASSUME IInv, NEW h \in Host, NEW st, Good(st), Justified(StatusOf(h), st),
           Put(h, st), UNCHANGED <<now, cfg>>
    PROVE  /\ IInv'
           /\ \A g \in DOMAIN hosts : Justified(hosts[g], hosts'[g])
<1>1. /\ DOMAIN hosts' = DOMAIN hosts \cup {h}
      /\ \A g \in DOMAIN hosts' : hosts'[g] = IF g = h THEN st ELSE hosts[g]
  BY DEF Put
<1>2. \A g \in DOMAIN hosts' : Good(hosts'[g])
  BY <1>1 DEF IInv
<1>3. hosts' \in [DOMAIN hosts' -> Status]
  BY <1>1, <1>2 DEF Put, Good
<1>4. IInv'
  BY <1>1, <1>2, <1>3 DEF IInv, TypeOK, Good, Timed, Calm
<1>5. \A g \in DOMAIN hosts : Justified(hosts[g], hosts'[g])
  BY <1>1 DEF Justified, StatusOf
<1> QED BY <1>4, <1>5

LEMMA StepOK ==
    ASSUME IInv, [Next]_vars
    PROVE  /\ IInv'
           /\ \A h \in DOMAIN hosts : Justified(hosts[h], hosts'[h])
<1>0. now \in 1..MaxTime /\ now \in Nat /\ cfg \in Configs
  BY BoundAssumption DEF IInv, TypeOK
<1>1. CASE Advance
  <2>1. now' \in 1..MaxTime
    BY <1>0, <1>1, BoundAssumption DEF Advance
  <2> QED
    BY <1>1, <2>1 DEF Advance, IInv, TypeOK, Good, Timed, Calm, Justified
<1>2. ASSUME NEW c \in Configs, SetConfig(c)
      PROVE  /\ IInv'
             /\ \A h \in DOMAIN hosts : Justified(hosts[h], hosts'[h])
  <2>1. /\ DOMAIN hosts' = DOMAIN hosts
        /\ \A h \in DOMAIN hosts : hosts'[h] = Rearmed(hosts[h], c)
        /\ cfg' = c /\ now' = now
    BY <1>2 DEF SetConfig
  <2>2. c.releaseHold \in Nat
    BY ConfigAssumption DEF HealthConfig
  <2>3. ASSUME NEW h \in DOMAIN hosts
        PROVE  /\ hosts'[h] \in Status
               /\ Timed(hosts[h])'
               /\ Calm(hosts'[h])
               /\ Justified(hosts[h], hosts'[h])
    <3> DEFINE st == hosts[h]
               r  == [st EXCEPT !.releaseAt = st.markedAt + c.releaseHold]
    <3>1. Good(st)
      BY DEF IInv
    <3>2. CASE st.state = "pending"
      <4>1. hosts'[h] = r
        BY <2>1, <3>1, <3>2 DEF Rearmed, Good, Timed
      <4>2. st.markedAt + c.releaseHold \in Nat
        BY <2>2, <3>1 DEF Good, Status
      <4> HIDE DEF st
      <4>3. /\ r \in Status /\ r.state = st.state /\ r.markedAt = st.markedAt
            /\ r.releaseAt = st.markedAt + c.releaseHold
            /\ r.flapMarks = st.flapMarks
        BY <3>1, <4>2 DEF Good, Status
      <4> HIDE DEF r
      <4>4. Timed(hosts[h])'
        BY <2>1, <3>1, <3>2, <4>1, <4>3 DEF Timed, Good
      <4>5. Calm(r) /\ Justified(st, r)
        BY <3>1, <4>3 DEF Calm, Eligible, Justified, Good
      <4> QED BY <4>1, <4>3, <4>4, <4>5 DEF st
    <3>3. CASE st.state # "pending"
      <4>1. hosts'[h] = st
        BY <2>1, <3>3 DEF Rearmed
      <4> QED BY <3>1, <3>3, <4>1 DEF Good, Timed, Justified
    <3> QED BY <3>2, <3>3
  <2>4. hosts' \in [DOMAIN hosts' -> Status]
    BY <1>2, <2>1, <2>3 DEF SetConfig
  <2>5. IInv'
    BY <1>0, <2>1, <2>3, <2>4 DEF IInv, TypeOK, Good
  <2> QED BY <2>3, <2>5
<1>3. ASSUME NEW t \in Readings, Tick(t)
      PROVE  /\ IInv'
             /\ \A h \in DOMAIN hosts : Justified(hosts[h], hosts'[h])
  <2>1. t \in 1..MaxTime /\ t <= now
    BY <1>0, BoundAssumption DEF Readings
  <2>2. /\ DOMAIN hosts' = DOMAIN hosts
        /\ \A h \in DOMAIN hosts : hosts'[h] = Ticked(hosts[h], t)
        /\ cfg' = cfg /\ now' = now
    BY <1>3 DEF Tick
  <2>3. \A h \in DOMAIN hosts : Good(hosts'[h]) /\ Justified(hosts[h], hosts'[h])
    BY <1>0, <2>1, <2>2, TickedGood DEF IInv
  <2>4. hosts' \in [DOMAIN hosts' -> Status]
    BY <1>3, <2>2, <2>3 DEF Tick, Good
  <2>5. IInv'
    BY <1>0, <2>2, <2>3, <2>4 DEF IInv, TypeOK, Good, Timed, Calm
  <2> QED BY <2>3, <2>5
<1>4. ASSUME NEW t \in Readings, NEW snap \in Snapshots, Observe(snap, t)
      PROVE  /\ IInv'
             /\ \A h \in DOMAIN hosts : Justified(hosts[h], hosts'[h])
  <2>1. t \in 1..MaxTime /\ t <= now
    BY <1>0, BoundAssumption DEF Readings
  <2>2. DOMAIN snap \subseteq Host /\ \A h \in DOMAIN snap : snap[h] \in BOOLEAN
    BY DEF Snapshots
  <2>3. /\ DOMAIN hosts' = DOMAIN hosts \cup DOMAIN snap
        /\ \A h \in DOMAIN hosts' :
              hosts'[h] = IF h \in DOMAIN snap
                          THEN Seen(StatusOf(h), snap[h], t)
                          ELSE Unseen(hosts[h], t)
        /\ cfg' = cfg /\ now' = now
    BY <1>4 DEF Observe
  <2>4. ASSUME NEW h \in DOMAIN hosts'
        PROVE  Good(hosts'[h]) /\ Justified(StatusOf(h), hosts'[h])
    <3>1. CASE h \in DOMAIN snap
      BY <1>0, <2>1, <2>2, <2>3, <3>1, StatusOfGood, SeenOK
    <3>2. CASE h \notin DOMAIN snap
      <4>1. h \in DOMAIN hosts /\ StatusOf(h) = hosts[h] /\ Good(hosts[h])
        BY <2>3, <3>2 DEF StatusOf, IInv
      <4> QED BY <1>0, <2>1, <2>3, <3>2, <4>1, UnseenOK
    <3> QED BY <3>1, <3>2
  <2>5. hosts' \in [DOMAIN hosts' -> Status]
    BY <1>4, <2>3, <2>4 DEF Observe, Good
  <2>6. IInv'
    BY <1>0, <2>2, <2>3, <2>4, <2>5 DEF IInv, TypeOK, Good, Timed, Calm
  <2>7. \A h \in DOMAIN hosts : Justified(hosts[h], hosts'[h])
    BY <2>3, <2>4 DEF StatusOf
  <2> QED BY <2>6, <2>7
<1>5. ASSUME NEW t \in Readings, NEW h \in Host, NEW ok \in BOOLEAN,
             RecordProbe(h, ok, t)
      PROVE  /\ IInv'
             /\ \A g \in DOMAIN hosts : Justified(hosts[g], hosts'[g])
  <2>1. t \in 1..MaxTime
    BY <1>0, BoundAssumption DEF Readings
  <2>2. CASE ok
    <3>1. Put(h, ProbeOK(StatusOf(h), t)) /\ UNCHANGED <<now, cfg>>
      BY <1>5, <2>2 DEF RecordProbe
    <3>2. /\ Good(ProbeOK(StatusOf(h), t))
          /\ Justified(StatusOf(h), ProbeOK(StatusOf(h), t))
      BY <1>0, <2>1, StatusOfGood, ProbeOKGood
    <3> QED BY <3>1, <3>2, PutOK
  <2>3. CASE ~ok
    <3>1. Put(h, ProbeFailed(StatusOf(h), t)) /\ UNCHANGED <<now, cfg>>
      BY <1>5, <2>3 DEF RecordProbe
    <3>2. /\ Good(ProbeFailed(StatusOf(h), t))
          /\ Justified(StatusOf(h), ProbeFailed(StatusOf(h), t))
      BY <1>0, <2>1, StatusOfGood, ProbeFailedGood
    <3> QED BY <3>1, <3>2, PutOK
  <2> QED BY <2>2, <2>3
<1>6. ASSUME NEW t \in Readings, NEW h \in Host, NEW ok \in BOOLEAN,
             RecordResolve(h, ok, t)
      PROVE  /\ IInv'
             /\ \A g \in DOMAIN hosts : Justified(hosts[g], hosts'[g])
  <2>1. t \in 1..MaxTime /\ t <= now
    BY <1>0, BoundAssumption DEF Readings
  <2>2. h \in DOMAIN hosts /\ StatusOf(h) = hosts[h] /\ Good(hosts[h])
    BY <1>6 DEF RecordResolve, StatusOf, IInv
  <2>3. CASE ok
    <3> DEFINE st == hosts[h]
               s  == [st EXCEPT !.resolveFail = 0]
    <3>1. Put(h, s) /\ UNCHANGED <<now, cfg>>
      BY <1>6, <2>3 DEF RecordResolve
    <3> HIDE DEF st
    <3>2. /\ s \in Status /\ s.state = st.state /\ s.markedAt = st.markedAt
          /\ s.releaseAt = st.releaseAt /\ s.flapMarks = st.flapMarks
      BY <2>2 DEF Good, Status, st
    <3> HIDE DEF s
    <3>3. Good(s) /\ Justified(st, s)
      BY <2>2, <3>2, KeepGood DEF Justified, st
    <3> QED BY <2>2, <3>1, <3>3, PutOK DEF st
  <2>4. CASE ~ok
    <3>1. Put(h, ResolveFailed(hosts[h], t)) /\ UNCHANGED <<now, cfg>>
      BY <1>6, <2>4 DEF RecordResolve
    <3>2. /\ Good(ResolveFailed(hosts[h], t))
          /\ Justified(hosts[h], ResolveFailed(hosts[h], t))
      BY <1>0, <2>1, <2>2, ResolveFailedGood
    <3> QED BY <2>2, <3>1, <3>2, PutOK
  <2> QED BY <2>3, <2>4
<1>7. ASSUME NEW t \in Readings, NEW h \in Host, MarkAssigned(h, t)
      PROVE  /\ IInv'
             /\ \A g \in DOMAIN hosts : Justified(hosts[g], hosts'[g])
  <2> DEFINE st == hosts[h]
             s  == [st EXCEPT !.assignedAt = t]
  <2>1. t \in Nat
    BY <1>0, BoundAssumption DEF Readings
  <2>2. Put(h, s) /\ UNCHANGED <<now, cfg>>
    BY <1>7 DEF MarkAssigned
  <2>3. Good(st) /\ StatusOf(h) = st
    BY <1>7 DEF MarkAssigned, IInv, StatusOf
  <2> HIDE DEF st
  <2>4. /\ s \in Status /\ s.state = st.state /\ s.markedAt = st.markedAt
        /\ s.releaseAt = st.releaseAt /\ s.flapMarks = st.flapMarks
    BY <2>1, <2>3 DEF Good, Status
  <2> HIDE DEF s
  <2>5. Good(s) /\ Justified(st, s)
    BY <2>3, <2>4, KeepGood DEF Justified
  <2> QED BY <2>2, <2>3, <2>5, PutOK
<1>8. CASE UNCHANGED vars
  BY <1>8 DEF vars, IInv, TypeOK, Good, Timed, Calm, Justified
<1> QED
  BY <1>1, <1>2, <1>3, <1>4, <1>5, <1>6, <1>7, <1>8 DEF Next

-----------------------------------------------------------------------------

\* The inductive invariant holds in every reachable state of the tracker.
THEOREM Inductive == Spec => []IInv
<1>1. IInv /\ [Next]_vars => IInv'
  BY StepOK
<1> QED BY InitIInv, <1>1, PTL DEF Spec

\* The tracker's type is preserved by every operation.
THEOREM TypeCorrect == Spec => []TypeOK
<1>1. IInv => TypeOK
  BY DEF IInv
<1> QED BY Inductive, <1>1, PTL

\* A pending host always has a release timer of the current release_hold.
THEOREM PendingAlwaysTimed == Spec => []PendingTimed
<1>1. IInv => PendingTimed
  BY DEF IInv, Good, PendingTimed
<1> QED BY Inductive, <1>1, PTL

\* An eligible host never carries more recent flap marks than allowed.
THEOREM FlapAlwaysBounded == Spec => []FlapBounded
<1>1. IInv => FlapBounded
  BY DEF IInv, Good, FlapBounded
<1> QED BY Inductive, <1>1, PTL

\* No step takes eligibility from a host without one of the four reasons.
THEOREM ReleaseAlwaysJustified == Spec => ReleaseJustified
<1>1. IInv /\ [Next]_vars =>
          [\A h \in DOMAIN hosts : Justified(hosts[h], hosts'[h])]_vars
  BY StepOK
<1> QED BY Inductive, <1>1, PTL DEF Spec, ReleaseJustified
-----------------------------------------------------------------------------
(* Cooldowns.                                                               *)

\* A transition adds no mark but one at t, and enters "cooldown", unless it
\* was asked for, with its end one flap_cooldown after t.
LEMMA TransitionCooldown ==
    ASSUME cfg \in Configs, NEW st \in Status, NEW to \in States,
           to # "cooldown", NEW t \in 1..MaxTime
    PROVE  LET r == Transition(st, to, t)
           IN  /\ DOMAIN r.flapMarks \subseteq DOMAIN st.flapMarks \cup {t}
               /\ r.state = "cooldown" => r.cooldownEnd = t + cfg.flapCooldown
<1> DEFINE marks  == Recent(st.flapMarks, t)
           moved  == Moved(st, to)
           marked == [moved EXCEPT !.flapMarks = marks]
           cooled == [marked EXCEPT !.state = "cooldown",
                                    !.cooldownEnd = t + cfg.flapCooldown]
           r      == Transition(st, to, t)
<1>1. DOMAIN marks \subseteq DOMAIN st.flapMarks \cup {t}
  BY DEF Recent
<1>2. moved \in Status /\ moved.state = to /\ moved.flapMarks = st.flapMarks
  BY DEF Moved, Status
<1>3. /\ marked.state = to /\ marked.flapMarks = marks
      /\ cooled.flapMarks = marks /\ cooled.cooldownEnd = t + cfg.flapCooldown
  <2> HIDE DEF moved, marks
  <2> QED BY <1>2 DEF Status
<1>4. \/ r = st /\ st.state = to
      \/ r = moved
      \/ r = marked
      \/ r = cooled
  BY Zenon DEF Transition
<1> HIDE DEF r, moved, marked, cooled, marks
<1> QED BY <1>1, <1>2, <1>3, <1>4 DEF r

LEMMA ExpiredStatus ==
    ASSUME cfg \in Configs, NEW st \in Status, NEW t \in 1..MaxTime
    PROVE  LET s == Expired(st, t)
           IN  /\ s \in Status
               /\ s.state = "pending" =>
                      s = st /\ ~(st.releaseAt # 0 /\ t >= st.releaseAt)
               /\ s.state = "cooldown" =>
                      \/ s = st /\ ~(st.cooldownEnd # 0 /\ t >= st.cooldownEnd)
                      \/ s.cooldownEnd = t + cfg.flapCooldown
               /\ s # st =>
                      \/ st.state = "pending" /\ st.releaseAt # 0 /\ t >= st.releaseAt
                      \/ st.state = "cooldown" /\ st.cooldownEnd # 0 /\ t >= st.cooldownEnd
               /\ DOMAIN s.flapMarks \subseteq DOMAIN st.flapMarks \cup {t}
<1> DEFINE s == Expired(st, t)
<1>1. CASE st.state = "pending" /\ st.releaseAt # 0 /\ t >= st.releaseAt
  <2> DEFINE q == Transition(st, "unhealthy", t)
  <2>1. s = q
    BY <1>1 DEF Expired
  <2>2. /\ q \in Status /\ q.state \in {"unhealthy", "cooldown"}
        /\ DOMAIN q.flapMarks \subseteq DOMAIN st.flapMarks \cup {t}
        /\ q.state = "cooldown" => q.cooldownEnd = t + cfg.flapCooldown
    BY TransitionFacts, TransitionCooldown DEF States
  <2> HIDE DEF q, s
  <2> QED BY <1>1, <2>1, <2>2 DEF s
<1>2. CASE st.state = "cooldown" /\ st.cooldownEnd # 0 /\ t >= st.cooldownEnd
  <2> DEFINE q == Transition(st, "unknown", t)
  <2>1. s = [q EXCEPT !.okStreak = 0, !.failStreak = 0]
    BY <1>2 DEF Expired
  <2>2. /\ q \in Status /\ q.state \in {"unknown", "cooldown"}
        /\ DOMAIN q.flapMarks \subseteq DOMAIN st.flapMarks \cup {t}
        /\ q.state = "cooldown" => q.cooldownEnd = t + cfg.flapCooldown
    BY TransitionFacts, TransitionCooldown DEF States
  <2>3. 0 \in 0..MaxCount
    BY BoundAssumption
  <2> HIDE DEF q, s
  <2>4. /\ s \in Status /\ s.state = q.state /\ s.flapMarks = q.flapMarks
        /\ s.cooldownEnd = q.cooldownEnd
    BY <2>1, <2>2, <2>3 DEF Status
  <2> QED BY <1>2, <2>2, <2>4 DEF s
<1>3. CASE /\ ~(st.state = "pending" /\ st.releaseAt # 0 /\ t >= st.releaseAt)
           /\ ~(st.state = "cooldown" /\ st.cooldownEnd # 0
                                      /\ t >= st.cooldownEnd)
  <2>1. s = st
    BY <1>3 DEF Expired
  <2> QED BY <1>3, <2>1
<1> QED BY <1>1, <1>2, <1>3

\* Tick at t leaves alone what has no deadline by t, and leaves no deadline
\* by t behind.
LEMMA TickedDeadlines ==
    ASSUME cfg \in Configs, NEW st \in Status, NEW t \in 1..MaxTime
    PROVE  /\ Ticked(st, t) # st => \E d \in StatusDeadlines(st) : d <= t
           /\ cfg.flapCooldown > 0 =>
                  \A d \in StatusDeadlines(Ticked(st, t)) : d > t
<1> DEFINE s == Expired(st, t)
           r == Ticked(st, t)
<1>1. s \in Status
  BY ExpiredStatus
<1>2. /\ cfg.missingGrace \in Nat /\ cfg.flapCooldown \in Nat /\ t \in Nat
      /\ st.releaseAt \in Nat /\ st.cooldownEnd \in Nat
      /\ st.missingAt \in Nat /\ s.missingAt \in Nat
  BY <1>1, ConfigAssumption DEF HealthConfig, Status
<1>3. s # st => \E d \in StatusDeadlines(st) : d <= t
  <2>1. CASE st.state = "pending" /\ st.releaseAt # 0 /\ t >= st.releaseAt
    BY <1>2, <2>1 DEF StatusDeadlines
  <2>2. CASE st.state = "cooldown" /\ st.cooldownEnd # 0 /\ t >= st.cooldownEnd
    BY <1>2, <2>2 DEF StatusDeadlines
  <2> QED BY <2>1, <2>2, ExpiredStatus
<1>4. CASE s.state # "ineligible" /\ MissedTooLong(s, t)
  <2>1. r = Transition(s, "ineligible", t)
    BY <1>4 DEF Ticked
  <2>2. r.state = "ineligible"
    <3> HIDE DEF s
    <3>1. Transition(s, "ineligible", t).state = "ineligible"
      BY <1>1, TransitionFacts DEF States
    <3> QED BY <2>1, <3>1
  <2>3. StatusDeadlines(r) = {}
    BY <2>2 DEF StatusDeadlines
  <2>4. s = st => st.missingAt + cfg.missingGrace \in StatusDeadlines(st)
    BY <1>4 DEF StatusDeadlines, MissedTooLong
  <2>5. s = st => st.missingAt + cfg.missingGrace <= t
    BY <1>2, <1>4 DEF MissedTooLong
  <2> QED BY <1>3, <2>3, <2>4, <2>5
<1>5. CASE ~(s.state # "ineligible" /\ MissedTooLong(s, t))
  <2>1. r = s
    BY <1>5 DEF Ticked
  <2>2. ASSUME cfg.flapCooldown > 0, NEW d \in StatusDeadlines(s)
        PROVE  d > t
    <3>1. CASE s.state = "pending" /\ s.releaseAt # 0 /\ d = s.releaseAt
      BY <1>2, <3>1, ExpiredStatus
    <3>2. CASE s.state = "cooldown" /\ s.cooldownEnd # 0 /\ d = s.cooldownEnd
      BY <1>2, <2>2, <3>2, ExpiredStatus
    <3>3. CASE /\ s.state # "ineligible" /\ s.missingAt # 0
               /\ d = s.missingAt + cfg.missingGrace
      BY <1>2, <1>5, <3>3 DEF MissedTooLong
    <3> QED BY <3>1, <3>2, <3>3 DEF StatusDeadlines
  <2> QED BY <1>3, <2>1, <2>2
<1> QED BY <1>4, <1>5

\* The loop may sleep until the next deadline: no earlier Tick changes a
\* host, and after a Tick every deadline lies ahead.
THEOREM DeadlinesAlwaysExact == Spec => []DeadlinesExact
<1>1. TypeOK => DeadlinesExact
  <2> SUFFICES ASSUME TypeOK PROVE DeadlinesExact
    OBVIOUS
  <2>1. now \in 1..MaxTime /\ cfg \in Configs /\ \A h \in DOMAIN hosts : hosts[h] \in Status
    BY DEF TypeOK
  <2> QED BY <2>1, TickedDeadlines DEF DeadlinesExact
<1> QED BY TypeCorrect, <1>1, PTL
-----------------------------------------------------------------------------
(* The end of a cooldown.  When every cooldown outlasts every flap window   *)
(* and the age of a clock reading, the marks of a host in cooldown have all *)
(* left the window by its end, under whatever configuration is in force     *)
(* then: marks are never in the future, and none is added while it lasts.   *)

LongCooldowns ==
    \A c, d \in Configs : /\ c.flapCooldown > d.flapWindow + ClockLag
                          /\ c.flapThreshold > 0

Past(st) == \A m \in DOMAIN st.flapMarks : m <= now

Outlasts(st) ==
    st.state = "cooldown" =>
        /\ st.cooldownEnd > 0
        /\ \A m \in DOMAIN st.flapMarks : \A d \in Configs :
               m + d.flapWindow < st.cooldownEnd

Settled(st) == Past(st) /\ Outlasts(st)

CInv == LongCooldowns => \A h \in DOMAIN hosts : Settled(hosts[h])

LEMMA MarkTimes ==
    ASSUME NEW st \in Status
    PROVE  DOMAIN st.flapMarks \subseteq Nat
<1>1. st.flapMarks \in MarkBags
  BY DEF Status
<1>2. PICK D \in SUBSET (1..MaxTime) : st.flapMarks \in [D -> 1..MaxCount]
  BY <1>1 DEF MarkBags
<1>3. DOMAIN st.flapMarks = D
  BY <1>2
<1>4. 1..MaxTime \subseteq Nat
  BY BoundAssumption
<1> QED BY <1>3, <1>4

LEMMA KeepSettled ==
    ASSUME NEW st, Settled(st), NEW s, s.state = st.state,
           s.cooldownEnd = st.cooldownEnd, s.flapMarks = st.flapMarks
    PROVE  Settled(s)
BY DEF Settled, Past, Outlasts

\* A host whose marks are those of st and one at the reading t, and whose
\* cooldown, if it is in one, was entered at t.
LEMMA MarkedSettled ==
    ASSUME LongCooldowns, cfg \in Configs, now \in Nat,
           NEW st \in Status, Past(st), NEW t \in Readings,
           NEW r \in Status,
           DOMAIN r.flapMarks \subseteq DOMAIN st.flapMarks \cup {t},
           r.state = "cooldown" => r.cooldownEnd = t + cfg.flapCooldown
    PROVE  Settled(r)
<1>1. t \in Nat /\ 0 < t /\ t <= now /\ now <= t + ClockLag /\ ClockLag \in Nat
  BY BoundAssumption DEF Readings
<1>2. DOMAIN r.flapMarks \subseteq Nat
  BY MarkTimes
<1>3. Past(r)
  BY <1>1 DEF Past
<1>4. ASSUME r.state = "cooldown", NEW m \in DOMAIN r.flapMarks, NEW d \in Configs
      PROVE  m + d.flapWindow < r.cooldownEnd
  <2>1. m \in Nat /\ m <= now
    BY <1>2, <1>3 DEF Past
  <2>2. /\ cfg.flapCooldown \in Nat /\ d.flapWindow \in Nat
        /\ cfg.flapCooldown > d.flapWindow + ClockLag
    BY ConfigAssumption DEF HealthConfig, LongCooldowns
  <2> QED BY <1>1, <1>4, <2>1, <2>2
<1>5. r.state = "cooldown" => r.cooldownEnd > 0
  <2>1. cfg.flapCooldown \in Nat
    BY ConfigAssumption DEF HealthConfig
  <2> QED BY <1>1, <2>1
<1> QED BY <1>3, <1>4, <1>5 DEF Settled, Outlasts

LEMMA TransitionSettled ==
    ASSUME LongCooldowns, cfg \in Configs, now \in 1..MaxTime,
           NEW st \in Status, Past(st), NEW t \in Readings,
           NEW to \in States, to # "cooldown"
    PROVE  Settled(Transition(st, to, t))
<1>1. t \in 1..MaxTime /\ now \in Nat
  BY BoundAssumption DEF Readings
<1>2. Transition(st, to, t) \in Status
  BY <1>1, TransitionFacts
<1>3. /\ DOMAIN Transition(st, to, t).flapMarks \subseteq DOMAIN st.flapMarks \cup {t}
      /\ Transition(st, to, t).state = "cooldown" =>
             Transition(st, to, t).cooldownEnd = t + cfg.flapCooldown
  BY <1>1, TransitionCooldown
<1> QED BY <1>1, <1>2, <1>3, MarkedSettled

LEMMA SeenSettled ==
    ASSUME LongCooldowns, cfg \in Configs, now \in 1..MaxTime,
           NEW st \in Status, Settled(st), NEW up \in BOOLEAN, NEW t \in Readings
    PROVE  Settled(Seen(st, up, t))
<1> DEFINE s == [st EXCEPT !.present = TRUE, !.missingAt = 0]
<1>1. /\ s \in Status /\ s.state = st.state
      /\ s.cooldownEnd = st.cooldownEnd /\ s.flapMarks = st.flapMarks
  BY DEF Status
<1>2. Seen(st, up, t) \in {s, Transition(s, "ineligible", t),
                              Transition(s, "unknown", t)}
  BY DEF Seen
<1> HIDE DEF s
<1>3. Settled(s)
  BY <1>1, KeepSettled
<1> QED
  BY <1>1, <1>2, <1>3, TransitionSettled DEF Settled, States

LEMMA UnseenSettled ==
    ASSUME LongCooldowns, cfg \in Configs, now \in 1..MaxTime,
           NEW st \in Status, Settled(st), NEW t \in Readings
    PROVE  Settled(Unseen(st, t))
<1> DEFINE s == IF st.present
                THEN [st EXCEPT !.present = FALSE, !.missingAt = t] ELSE st
<1>1. /\ s \in Status /\ s.state = st.state
      /\ s.cooldownEnd = st.cooldownEnd /\ s.flapMarks = st.flapMarks
  <2>1. t \in Nat
    BY BoundAssumption DEF Readings
  <2> QED BY <2>1 DEF Status
<1>2. Unseen(st, t) \in {s, Transition(s, "ineligible", t)}
  BY DEF Unseen
<1> HIDE DEF s
<1>3. Settled(s)
  BY <1>1, KeepSettled
<1> QED
  BY <1>1, <1>2, <1>3, TransitionSettled DEF Settled, States

LEMMA ProbeOKSettled ==
    ASSUME LongCooldowns, cfg \in Configs, now \in 1..MaxTime,
           NEW st \in Status, Settled(st), NEW t \in Readings
    PROVE  Settled(ProbeOK(st, t))
<1> DEFINE s == [st EXCEPT !.okStreak = Saturated(@), !.failStreak = 0]
<1>1. /\ s \in Status /\ s.state = st.state
      /\ s.cooldownEnd = st.cooldownEnd /\ s.flapMarks = st.flapMarks
  <2>1. Saturated(st.okStreak) \in 0..MaxCount /\ 0 \in 0..MaxCount
    BY BoundAssumption DEF Saturated, Status
  <2> QED BY <2>1 DEF Status
<1>2. ProbeOK(st, t) \in {s, Transition(s, "healthy", t)}
  BY DEF ProbeOK
<1> HIDE DEF s
<1>3. Settled(s)
  BY <1>1, KeepSettled
<1> QED
  BY <1>1, <1>2, <1>3, TransitionSettled DEF Settled, States

LEMMA ProbeFailedSettled ==
    ASSUME LongCooldowns, cfg \in Configs, now \in 1..MaxTime,
           NEW st \in Status, Settled(st), NEW t \in Readings
    PROVE  Settled(ProbeFailed(st, t))
<1> DEFINE s == [st EXCEPT !.failStreak = Saturated(@), !.okStreak = 0]
           q == Transition(s, "pending", t)
           r == [q EXCEPT !.markedAt = t, !.releaseAt = t + cfg.releaseHold]
<1>1. /\ s \in Status /\ s.state = st.state
      /\ s.cooldownEnd = st.cooldownEnd /\ s.flapMarks = st.flapMarks
  <2>1. Saturated(st.failStreak) \in 0..MaxCount /\ 0 \in 0..MaxCount
    BY BoundAssumption DEF Saturated, Status
  <2> QED BY <2>1 DEF Status
<1>2. ProbeFailed(st, t) \in {s, Transition(s, "suspect", t), r}
  BY DEF ProbeFailed
<1> HIDE DEF s
<1>3. Settled(s)
  BY <1>1, KeepSettled
<1>4. Settled(r)
  <2>1. t \in 1..MaxTime
    BY BoundAssumption DEF Readings
  <2>2. q \in Status /\ Settled(q)
    BY <1>1, <1>3, <2>1, TransitionFacts, TransitionSettled DEF Settled, States
  <2> HIDE DEF q
  <2>3. /\ r.state = q.state /\ r.cooldownEnd = q.cooldownEnd
        /\ r.flapMarks = q.flapMarks
    BY <2>2 DEF Status
  <2> HIDE DEF r
  <2> QED BY <2>2, <2>3, KeepSettled
<1> HIDE DEF r
<1> QED
  BY <1>1, <1>2, <1>3, <1>4, TransitionSettled DEF Settled, States

LEMMA ResolveSettled ==
    ASSUME LongCooldowns, cfg \in Configs, now \in 1..MaxTime,
           NEW st \in Status, Settled(st), NEW t \in Readings
    PROVE  /\ Settled(ResolveFailed(st, t))
           /\ Settled([st EXCEPT !.resolveFail = 0])
<1>1. ASSUME NEW n
      PROVE  Settled([st EXCEPT !.resolveFail = n])
  <2> DEFINE s == [st EXCEPT !.resolveFail = n]
  <2>1. /\ s.state = st.state /\ s.flapMarks = st.flapMarks
        /\ s.cooldownEnd = st.cooldownEnd
    BY DEF Status
  <2> HIDE DEF s
  <2>2. Settled(s)
    BY <2>1, KeepSettled
  <2> QED BY <2>2 DEF s
<1>2. ResolveFailed(st, t) \in {st, [st EXCEPT !.resolveFail = t],
                                Transition(st, "unhealthy", t)}
  BY DEF ResolveFailed
<1>3. Settled(Transition(st, "unhealthy", t))
  BY TransitionSettled DEF Settled, States
<1> QED BY <1>1, <1>2, <1>3

LEMMA TickedSettled ==
    ASSUME LongCooldowns, cfg \in Configs, now \in 1..MaxTime,
           NEW st \in Status, Settled(st), NEW t \in Readings
    PROVE  Settled(Ticked(st, t))
<1> DEFINE s == Expired(st, t)
<1>1. t \in 1..MaxTime /\ now \in Nat
  BY BoundAssumption DEF Readings
<1>2. /\ s \in Status
      /\ DOMAIN s.flapMarks \subseteq DOMAIN st.flapMarks \cup {t}
      /\ s = st \/ (s.state = "cooldown" => s.cooldownEnd = t + cfg.flapCooldown)
  BY <1>1, ExpiredStatus
<1>3. Ticked(st, t) \in {s, Transition(s, "ineligible", t)}
  BY DEF Ticked
<1> HIDE DEF s
<1>4. Settled(s)
  BY <1>1, <1>2, MarkedSettled DEF Settled
<1> QED
  BY <1>2, <1>3, <1>4, TransitionSettled DEF Settled, States

LEMMA NewStatusSettled ==
    Settled(NewStatus)
BY DEF NewStatus, Settled, Past, Outlasts, EmptyBag, SetToBag

LEMMA PutSettled ==
    ASSUME CInv, LongCooldowns, NEW h, NEW st, Settled(st), Put(h, st),
           UNCHANGED <<now, cfg>>
    PROVE  CInv'
<1>1. \A g \in DOMAIN hosts' : Settled(hosts'[g])
  BY DEF Put, CInv
<1> QED BY <1>1 DEF CInv, Settled, Past, Outlasts

LEMMA StepSettled ==
    ASSUME TypeOK, CInv, [Next]_vars
    PROVE  CInv'
<1> SUFFICES ASSUME LongCooldowns
             PROVE  CInv'
  BY DEF CInv, LongCooldowns
<1>1. now \in 1..MaxTime /\ now \in Nat /\ cfg \in Configs
  BY BoundAssumption DEF TypeOK
<1>2. /\ \A h \in DOMAIN hosts : hosts[h] \in Status /\ Settled(hosts[h])
      /\ \A h : StatusOf(h) \in Status /\ Settled(StatusOf(h))
  BY NewStatusSettled, NewStatusGood DEF TypeOK, CInv, StatusOf, Good
<1>3. CASE Advance
  <2>1. \A h \in DOMAIN hosts : \A m \in DOMAIN hosts[h].flapMarks : m \in Nat
    BY <1>2, MarkTimes
  <2> QED
    BY <1>1, <1>2, <1>3, <2>1 DEF Advance, CInv, Settled, Past, Outlasts
<1>4. ASSUME NEW c \in Configs, SetConfig(c)
      PROVE  CInv'
  <2>1. ASSUME NEW h \in DOMAIN hosts
        PROVE  Settled(hosts'[h])
    <3>1. /\ hosts'[h].state = hosts[h].state
          /\ hosts'[h].cooldownEnd = hosts[h].cooldownEnd
          /\ hosts'[h].flapMarks = hosts[h].flapMarks
      BY <1>2, <1>4 DEF SetConfig, Rearmed, Status
    <3> QED BY <1>2, <3>1, KeepSettled
  <2> QED
    BY <1>4, <2>1 DEF SetConfig, CInv, Settled, Past, Outlasts
<1>5. ASSUME NEW t \in Readings, Tick(t)
      PROVE  CInv'
  <2>1. \A h \in DOMAIN hosts : Settled(hosts'[h])
    BY <1>1, <1>2, <1>5, TickedSettled DEF Tick
  <2> QED
    BY <1>5, <2>1 DEF Tick, CInv, Settled, Past, Outlasts
<1>6. ASSUME NEW t \in Readings, NEW snap \in Snapshots, Observe(snap, t)
      PROVE  CInv'
  <2>1. \A h \in DOMAIN snap : snap[h] \in BOOLEAN
    BY DEF Snapshots
  <2>2. ASSUME NEW h \in DOMAIN hosts'
        PROVE  Settled(hosts'[h])
    <3>1. CASE h \in DOMAIN snap
      <4>1. hosts'[h] = Seen(StatusOf(h), snap[h], t)
        BY <1>6, <3>1 DEF Observe
      <4> QED BY <1>1, <1>2, <2>1, <3>1, <4>1, SeenSettled
    <3>2. CASE h \notin DOMAIN snap
      <4>1. h \in DOMAIN hosts /\ hosts'[h] = Unseen(hosts[h], t)
        BY <1>6, <3>2 DEF Observe
      <4> QED BY <1>1, <1>2, <4>1, UnseenSettled
    <3> QED BY <3>1, <3>2
  <2> QED
    BY <1>6, <2>2 DEF Observe, CInv, Settled, Past, Outlasts
<1>7. ASSUME NEW t \in Readings, NEW h \in Host, NEW ok \in BOOLEAN,
             RecordProbe(h, ok, t)
      PROVE  CInv'
  <2>1. /\ Settled(ProbeOK(StatusOf(h), t))
        /\ Settled(ProbeFailed(StatusOf(h), t))
    BY <1>1, <1>2, ProbeOKSettled, ProbeFailedSettled
  <2> QED BY <1>7, <2>1, PutSettled DEF RecordProbe
<1>8. ASSUME NEW t \in Readings, NEW h \in Host, NEW ok \in BOOLEAN,
             RecordResolve(h, ok, t)
      PROVE  CInv'
  <2>1. h \in DOMAIN hosts
    BY <1>8 DEF RecordResolve
  <2>2. /\ Settled([hosts[h] EXCEPT !.resolveFail = 0])
        /\ Settled(ResolveFailed(hosts[h], t))
    BY <1>1, <1>2, <2>1, ResolveSettled
  <2> QED BY <1>8, <2>2, PutSettled DEF RecordResolve
<1>9. ASSUME NEW t \in Readings, NEW h \in Host, MarkAssigned(h, t)
      PROVE  CInv'
  <2> DEFINE s == [hosts[h] EXCEPT !.assignedAt = t]
  <2>1. h \in DOMAIN hosts /\ Put(h, s) /\ UNCHANGED <<now, cfg>>
    BY <1>9 DEF MarkAssigned
  <2>2. /\ s.state = hosts[h].state /\ s.flapMarks = hosts[h].flapMarks
        /\ s.cooldownEnd = hosts[h].cooldownEnd
    BY <1>2, <2>1 DEF Status
  <2> HIDE DEF s
  <2>3. Settled(s)
    BY <1>2, <2>1, <2>2, KeepSettled
  <2> QED BY <2>1, <2>3, PutSettled
<1>10. CASE UNCHANGED vars
  BY <1>10 DEF vars, CInv, Settled, Past, Outlasts
<1> QED
  BY <1>3, <1>4, <1>5, <1>6, <1>7, <1>8, <1>9, <1>10 DEF Next

LEMMA LoneMark ==
    ASSUME NEW m
    PROVE  BagCardinality([x \in {m} |-> 1]) = 1
<1> DEFINE b == [x \in {m} |-> 1]
           F(g) == [S \in SUBSET DOMAIN b |->
                       IF S = {} THEN 0
                       ELSE b[CHOOSE e \in S : TRUE]
                                + g[S \ {CHOOSE e \in S : TRUE}]]
           sum == CHOOSE g : g = F(g)
           w == [S \in SUBSET {m} |-> IF S = {} THEN 0 ELSE 1]
<1>1. BagCardinality(b) = sum[DOMAIN b]
  BY DEF BagCardinality
<1>2. DOMAIN b = {m} /\ b[m] = 1 /\ (CHOOSE e \in {m} : TRUE) = m
  OBVIOUS
<1>3. SUBSET {m} = {{}, {m}}
  OBVIOUS
<1> HIDE DEF b
<1>4. w = F(w)
  <2>1. w[{}] = F(w)[{}]
    BY <1>2, <1>3
  <2>2. w[{m}] = F(w)[{m}]
    BY <1>2, <1>3
  <2> QED BY <1>2, <1>3, <2>1, <2>2
<1>5. sum = F(sum)
  <2>1. \E g : g = F(g)
    BY <1>4
  <2> HIDE DEF F
  <2> QED BY <2>1
<1> HIDE DEF sum
<1>6. sum[{}] = 0
  <2>1. {} \in SUBSET DOMAIN b
    OBVIOUS
  <2>2. F(sum)[{}] = 0
    BY <2>1
  <2> QED BY <1>5, <2>2
<1>7. sum[{m}] = 1
  <2>1. F(sum)[{m}] = b[m] + sum[{m} \ {m}]
    BY <1>2
  <2>2. {m} \ {m} = {}
    OBVIOUS
  <2> QED BY <1>2, <1>5, <1>6, <2>1, <2>2
<1> QED BY <1>1, <1>2, <1>7 DEF b

\* At its end a cooldown finds no mark in the window but the one that the
\* return leaves, which no threshold counts as flapping.
LEMMA ReturnLasts ==
    ASSUME LongCooldowns, cfg \in Configs, now \in 1..MaxTime,
           NEW st \in Status, Settled(st),
           st.state = "cooldown", now >= st.cooldownEnd
    PROVE  Ticked(st, now).state # "cooldown"
<1> DEFINE q == Transition(st, "unknown", now)
           s == Expired(st, now)
<1>1. /\ cfg.flapThreshold \in Nat /\ cfg.flapThreshold > 0
      /\ cfg.flapWindow \in Nat /\ st.cooldownEnd \in Nat /\ now \in Nat
      /\ DOMAIN st.flapMarks \subseteq Nat
  BY ConfigAssumption, BoundAssumption, MarkTimes
     DEF HealthConfig, LongCooldowns, Status
<1>2. \A m \in DOMAIN st.flapMarks : m + cfg.flapWindow < now
  BY <1>1 DEF Settled, Outlasts
<1>3. BagCardinality(Recent(st.flapMarks, now)) = 1
  <2>1. {u \in DOMAIN st.flapMarks \cup {now} : now <= u + cfg.flapWindow} = {now}
    BY <1>1, <1>2
  <2>2. now \notin DOMAIN st.flapMarks
    BY <1>1, <1>2
  <2>3. Recent(st.flapMarks, now) = [x \in {now} |-> 1]
    BY <2>1, <2>2 DEF Recent
  <2> QED BY <2>3, LoneMark
<1>4. q.state = "unknown"
  <2> DEFINE moved == Moved(st, "unknown")
             marks == Recent(st.flapMarks, now)
  <2>1. moved \in Status /\ moved.state = "unknown"
    BY DEF Moved, Status, States
  <2>2. ~Eligible(st) /\ Eligible(moved)
    BY <2>1 DEF Eligible, EligibleStates
  <2>3. ~(cfg.flapThreshold > 0 /\ BagCardinality(marks) > cfg.flapThreshold)
    BY <1>1, <1>3
  <2> HIDE DEF moved, marks
  <2>4. q = [moved EXCEPT !.flapMarks = marks]
    BY <2>2, <2>3, Zenon DEF Transition, moved, marks
  <2> QED BY <2>1, <2>4 DEF Status
<1>5. s.state = "unknown" /\ s \in Status
  <2>1. s = [q EXCEPT !.okStreak = 0, !.failStreak = 0]
    BY <1>1 DEF Expired, Settled, Outlasts
  <2>2. q \in Status
    BY TransitionFacts DEF States
  <2> HIDE DEF q
  <2>3. s.state = "unknown"
    BY <1>4, <2>1, <2>2 DEF Status
  <2> QED BY <2>3, ExpiredStatus
<1>6. Ticked(st, now) \in {s, Transition(s, "ineligible", now)}
  BY DEF Ticked
<1> HIDE DEF s
<1>7. Transition(s, "ineligible", now).state = "ineligible"
  BY <1>5, TransitionFacts DEF States
<1> QED BY <1>5, <1>6, <1>7

\* The end of a cooldown lets the host back, whatever clock readings raced
\* and whatever was reloaded meanwhile, given cooldowns longer than windows.
THEOREM CooldownAlwaysEnds == Spec => []CooldownEnds
<1>1. Init => CInv
  BY DEF Init, CInv
<1>2. TypeOK /\ CInv /\ [Next]_vars => CInv'
  BY StepSettled
<1>3. Spec => []CInv
  BY <1>1, <1>2, TypeCorrect, PTL DEF Spec
<1>4. TypeOK /\ CInv => CooldownEnds
  <2> SUFFICES ASSUME TypeOK, CInv, LongCooldowns,
                      NEW h \in DOMAIN hosts, hosts[h].state = "cooldown",
                      now >= hosts[h].cooldownEnd
               PROVE  Ticked(hosts[h], now).state # "cooldown"
    BY DEF CooldownEnds, LongCooldowns
  <2> QED BY ReturnLasts DEF TypeOK, CInv
<1> QED BY <1>3, <1>4, TypeCorrect, PTL
=============================================================================
