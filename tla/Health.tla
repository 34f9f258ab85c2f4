------------------------------- MODULE Health -------------------------------
(***************************************************************************)
(* The health tracker of internal/health: one Status per host, driven by   *)
(* provider snapshots (Observe), probe cycles (RecordProbe), DNS outcomes  *)
(* (RecordResolve), slot assignment (MarkAssigned), timers (Tick) and      *)
(* configuration reloads (SetConfig).  A host that is not eligible loses   *)
(* its slot sides at the next reconcile, so every property is about when a *)
(* host may stop, or start again, being eligible.                          *)
(*                                                                         *)
(* Time is a Nat that Advance moves; the zero time.Time is 0.  Every       *)
(* operation reads the clock before it takes the tracker's lock, so it may *)
(* apply a reading up to ClockLag old, after operations with later ones.   *)
(***************************************************************************)
EXTENDS Naturals, FiniteSets, Bags

CONSTANTS
    Host,       \* host identifiers
    Configs,    \* the health sections that start-up or a reload may install
    MaxCount,   \* streaks and equal marks saturate here, past every threshold
    MaxTime,    \* bound: the clock stops here
    ClockLag    \* bound: age of the oldest clock reading still applied

States == {"unknown", "healthy", "suspect", "pending",
           "unhealthy", "cooldown", "ineligible"}

HealthConfig ==
    [unhealthyAfter : Nat \ {0}, healthyAfter : Nat \ {0},
     releaseHold : Nat, initialGrace : Nat, missingGrace : Nat,
     dnsGrace : Nat, flapThreshold : Nat, flapWindow : Nat,
     flapCooldown : Nat]

ASSUME ConfigAssumption ==
    /\ Configs \subseteq HealthConfig
    /\ \A c \in Configs : /\ c.unhealthyAfter <= MaxCount
                          /\ c.healthyAfter <= MaxCount
                          /\ c.flapThreshold < MaxCount

ASSUME BoundAssumption ==
    /\ MaxCount \in Nat \ {0}
    /\ MaxTime \in Nat \ {0}
    /\ ClockLag \in Nat

VARIABLES
    now,        \* the wall clock
    cfg,        \* Tracker.cfg
    hosts       \* Tracker.hosts: a Status for every host reported so far

vars == <<now, cfg, hosts>>

-----------------------------------------------------------------------------
(* Eligibility and the state change that every operation goes through.     *)

\* Status.Eligible: a host in "pending" keeps its slot sides.
EligibleStates == {"unknown", "healthy", "suspect", "pending"}
Eligible(st) == st.state \in EligibleStates

NewStatus ==
    [state |-> "unknown", failStreak |-> 0, okStreak |-> 0,
     markedAt |-> 0, releaseAt |-> 0, cooldownEnd |-> 0,
     present |-> FALSE, missingAt |-> 0, resolveFail |-> 0,
     flapMarks |-> EmptyBag, assignedAt |-> 0]

StatusOf(h) == IF h \in DOMAIN hosts THEN hosts[h] ELSE NewStatus

Saturated(n) == IF n < MaxCount THEN n + 1 ELSE n

\* Defect: old marks are never dropped.
RecentForEver(marks, t) == marks (+) SetToBag({t})

\* Status.flapMarks as a bag of times: one more mark at t, and those that
\* are no longer inside the flap window at t dropped.
Recent(marks, t) ==
    [m \in {u \in DOMAIN marks \cup {t} : t <= u + cfg.flapWindow} |->
        IF m \notin DOMAIN marks THEN 1
        ELSE IF m = t THEN Saturated(marks[m]) ELSE marks[m]]

\* The state change proper: reaching "healthy" clears the release timer.
Moved(st, to) ==
    IF to = "healthy"
    THEN [st EXCEPT !.state = to, !.markedAt = 0, !.releaseAt = 0]
    ELSE [st EXCEPT !.state = to]

\* Defect: an off-by-one in the comparison with the flap threshold.
TransitionLate(st, to, t) ==
    LET moved == Moved(st, to)
        marks == Recent(st.flapMarks, t)
    IN  CASE st.state = to                             -> st
          [] st.state # to /\ Eligible(st) = Eligible(moved) -> moved
          [] OTHER ->
                IF /\ cfg.flapThreshold > 0
                   /\ BagCardinality(marks) > cfg.flapThreshold + 1
                   /\ to \notin {"ineligible", "cooldown"}
                THEN [moved EXCEPT !.flapMarks = marks, !.state = "cooldown",
                                   !.cooldownEnd = t + cfg.flapCooldown]
                ELSE [moved EXCEPT !.flapMarks = marks]

\* Tracker.transition: a change of eligibility leaves a mark, and more
\* recent marks than the threshold send the host into cooldown instead.
Transition(st, to, t) ==
    LET moved   == Moved(st, to)
        marks   == Recent(st.flapMarks, t)
        marked  == [moved EXCEPT !.flapMarks = marks]
        flapped == /\ cfg.flapThreshold > 0
                   /\ BagCardinality(marks) > cfg.flapThreshold
                   /\ to \notin {"ineligible", "cooldown"}
    IN  CASE st.state = to                   -> st
          [] st.state # to /\ Eligible(st) = Eligible(moved) -> moved
          [] OTHER -> IF flapped
                      THEN [marked EXCEPT !.state = "cooldown",
                                          !.cooldownEnd = t + cfg.flapCooldown]
                      ELSE marked

-----------------------------------------------------------------------------
(* What each operation does to the Status of one host, at clock reading t. *)

\* A host of the snapshot; up is HostRecord.Healthy, the provider's verdict.
Seen(st, up, t) ==
    LET s == [st EXCEPT !.present = TRUE, !.missingAt = 0]
    IN  IF ~up THEN Transition(s, "ineligible", t)
        ELSE IF s.state = "ineligible" THEN Transition(s, "unknown", t)
        ELSE s

MissedTooLong(st, t) ==
    st.missingAt # 0 /\ t >= st.missingAt + cfg.missingGrace

\* A known host that the snapshot lacks.
Unseen(st, t) ==
    LET s == IF st.present
             THEN [st EXCEPT !.present = FALSE, !.missingAt = t]
             ELSE st
    IN  IF MissedTooLong(s, t) THEN Transition(s, "ineligible", t) ELSE s

\* A provider decision or a cooldown is not cleared, or entered, by a probe.
HeldOut(st) == st.state \in {"ineligible", "cooldown"}

ProbeOK(st, t) ==
    LET s == [st EXCEPT !.okStreak = Saturated(@), !.failStreak = 0]
    IN  IF HeldOut(s) \/ s.okStreak < cfg.healthyAfter
        THEN s ELSE Transition(s, "healthy", t)

\* Defect: the last failure releases the host with no release hold.
ProbeFailedAtOnce(st, t) ==
    LET s == [st EXCEPT !.failStreak = Saturated(@), !.okStreak = 0]
    IN  IF HeldOut(s) THEN s
        ELSE Transition(s, IF s.failStreak < cfg.unhealthyAfter
                           THEN "suspect" ELSE "unhealthy", t)

ProbeFailed(st, t) ==
    LET s == [st EXCEPT !.failStreak = Saturated(@), !.okStreak = 0]
    IN  CASE HeldOut(s) -> s
          [] ~HeldOut(s) /\ s.failStreak < cfg.unhealthyAfter ->
                Transition(s, "suspect", t)
          [] OTHER ->
                IF s.state \in {"pending", "unhealthy"} THEN s
                ELSE [Transition(s, "pending", t) EXCEPT
                         !.markedAt = t, !.releaseAt = t + cfg.releaseHold]

ResolveFailed(st, t) ==
    CASE st.resolveFail = 0 -> [st EXCEPT !.resolveFail = t]
      [] st.resolveFail # 0 /\ t >= st.resolveFail + cfg.dnsGrace
                            /\ Eligible(st) -> Transition(st, "unhealthy", t)
      [] OTHER -> st

\* The two timers that Tick switches on the state for.
Expired(st, t) ==
    CASE st.state = "pending" /\ st.releaseAt # 0 /\ t >= st.releaseAt ->
            Transition(st, "unhealthy", t)
      [] st.state = "cooldown" /\ st.cooldownEnd # 0 /\ t >= st.cooldownEnd ->
            [Transition(st, "unknown", t) EXCEPT
                !.okStreak = 0, !.failStreak = 0]
      [] OTHER -> st

Ticked(st, t) ==
    LET s == Expired(st, t)
    IN  IF s.state # "ineligible" /\ MissedTooLong(s, t)
        THEN Transition(s, "ineligible", t) ELSE s

\* Defect: NextDeadline forgets the absence of a host.
StatusDeadlinesPresent(st) ==
    (IF st.state = "pending" /\ st.releaseAt # 0
       THEN {st.releaseAt} ELSE {})
    \cup (IF st.state = "cooldown" THEN {st.cooldownEnd} ELSE {})

\* NextDeadline considers these times, and returns the earliest.
StatusDeadlines(st) ==
    (IF st.state = "pending" /\ st.releaseAt # 0
       THEN {st.releaseAt} ELSE {})
    \cup (IF st.state = "cooldown" /\ st.cooldownEnd # 0
            THEN {st.cooldownEnd} ELSE {})
    \cup (IF st.state # "ineligible" /\ st.missingAt # 0
            THEN {st.missingAt + cfg.missingGrace} ELSE {})

-----------------------------------------------------------------------------
(* The operations.                                                         *)

Init ==
    /\ now = 1
    /\ cfg \in Configs
    /\ hosts = [h \in {} |-> NewStatus]

\* A clock reading taken before the lock was granted.
Readings == {t \in 1..now : now <= t + ClockLag}

\* Only the Status of h changes; it is created when h was unknown.
Put(h, st) ==
    hosts' = [g \in DOMAIN hosts \cup {h} |-> IF g = h THEN st ELSE hosts[g]]

\* Defect: a reload leaves running release timers alone.
RearmedNever(st, c) == st

\* SetConfig: running release timers are recomputed against the new hold.
Rearmed(st, c) ==
    IF st.state = "pending" /\ st.markedAt # 0
    THEN [st EXCEPT !.releaseAt = st.markedAt + c.releaseHold]
    ELSE st

SetConfig(c) ==
    /\ c # cfg
    /\ cfg' = c
    /\ hosts' = [h \in DOMAIN hosts |-> Rearmed(hosts[h], c)]
    /\ UNCHANGED now

\* Observe: snap gives the provider's verdict on every host it lists.
Observe(snap, t) ==
    /\ hosts' = [h \in DOMAIN hosts \cup DOMAIN snap |->
                    IF h \in DOMAIN snap
                    THEN Seen(StatusOf(h), snap[h], t)
                    ELSE Unseen(hosts[h], t)]
    /\ UNCHANGED <<now, cfg>>

RecordProbe(h, ok, t) ==
    /\ Put(h, IF ok THEN ProbeOK(StatusOf(h), t) ELSE ProbeFailed(StatusOf(h), t))
    /\ UNCHANGED <<now, cfg>>

RecordResolve(h, ok, t) ==
    /\ h \in DOMAIN hosts
    /\ Put(h, IF ok THEN [hosts[h] EXCEPT !.resolveFail = 0]
                    ELSE ResolveFailed(hosts[h], t))
    /\ UNCHANGED <<now, cfg>>

MarkAssigned(h, t) ==
    /\ h \in DOMAIN hosts
    /\ hosts[h].assignedAt = 0
    /\ Put(h, [hosts[h] EXCEPT !.assignedAt = t])
    /\ UNCHANGED <<now, cfg>>

Tick(t) ==
    /\ hosts' = [h \in DOMAIN hosts |-> Ticked(hosts[h], t)]
    /\ UNCHANGED <<now, cfg>>

Advance ==
    /\ now < MaxTime
    /\ now' = now + 1
    /\ UNCHANGED <<cfg, hosts>>

Snapshots == UNION {[D -> BOOLEAN] : D \in SUBSET Host}

Next ==
    \/ Advance
    \/ \E c \in Configs : SetConfig(c)
    \/ \E t \in Readings :
        \/ Tick(t)
        \/ \E snap \in Snapshots : Observe(snap, t)
        \/ \E h \in Host : \/ \E ok \in BOOLEAN : RecordProbe(h, ok, t)
                           \/ \E ok \in BOOLEAN : RecordResolve(h, ok, t)
                           \/ MarkAssigned(h, t)

Spec == Init /\ [][Next]_vars

-----------------------------------------------------------------------------
(* Properties.                                                             *)

\* flapMarks: how many marks each recent time carries.
MarkBags == UNION {[D -> 1..MaxCount] : D \in SUBSET (1..MaxTime)}

Status ==
    [state : States, failStreak : 0..MaxCount, okStreak : 0..MaxCount,
     markedAt : Nat, releaseAt : Nat, cooldownEnd : Nat,
     present : BOOLEAN, missingAt : Nat, resolveFail : Nat,
     flapMarks : MarkBags, assignedAt : Nat]

\* The type of the tracker (Tracker and Status in health.go).
TypeOK ==
    /\ now \in 1..MaxTime
    /\ cfg \in Configs
    /\ DOMAIN hosts \subseteq Host
    /\ hosts \in [DOMAIN hosts -> Status]

\* A host in "pending" always carries a running release timer, exactly one
\* release_hold of the CURRENT configuration after it was marked: a reload
\* re-times every host and no sequence of probes, snapshots and ticks
\* leaves a host pending with the timer of an earlier failure.
Timed(st) ==
    st.state = "pending" => /\ st.markedAt # 0
                            /\ st.releaseAt = st.markedAt + cfg.releaseHold

PendingTimed == \A h \in DOMAIN hosts : Timed(hosts[h])

\* Flap detection: a host that may hold slot sides has no more recent
\* eligibility changes on record than some configured threshold allows, so
\* an unstable host cannot keep rewriting slot assignments.
Calm(st) ==
    Eligible(st) => \/ st.flapMarks = EmptyBag
                    \/ \E c \in Configs :
                          c.flapThreshold > 0 =>
                              ~(BagCardinality(st.flapMarks) > c.flapThreshold)

FlapBounded == \A h \in DOMAIN hosts : Calm(hosts[h])

\* The loop sleeps until NextDeadline: before it, Tick changes no host, and
\* right after a Tick every deadline lies in the future, so no timer is
\* missed and the loop does not spin (a zero cooldown would).
DeadlinesExact ==
    /\ \A h \in DOMAIN hosts : Ticked(hosts[h], now) # hosts[h] =>
            \E d \in StatusDeadlines(hosts[h]) : d <= now
    /\ cfg.flapCooldown > 0 =>
            \A h \in DOMAIN hosts :
                \A d \in StatusDeadlines(Ticked(hosts[h], now)) : d > now

\* When every cooldown outlasts the flap window, the end of a cooldown
\* really lets the host back: the marks that caused it have left the
\* window, so the mark that the return itself leaves cannot renew it.
CooldownEnds ==
    (\A c, d \in Configs : /\ c.flapCooldown > d.flapWindow + ClockLag
                           /\ c.flapThreshold > 0) =>
        \A h \in DOMAIN hosts :
            hosts[h].state = "cooldown" /\ now >= hosts[h].cooldownEnd =>
                Ticked(hosts[h], now).state # "cooldown"

\* A host stops being eligible only for a reason that has run its course:
\* the provider rejected it, its absence outlived missing_grace, its
\* release_hold expired, or its address failed to resolve for dns_grace.
Justified(old, new) ==
    Eligible(old) /\ ~Eligible(new) =>
        \/ new.state = "ineligible" /\ new.present
        \/ /\ new.state = "ineligible"
           /\ now >= new.missingAt + cfg.missingGrace
        \/ old.state = "pending" /\ now >= old.markedAt + cfg.releaseHold
        \/ old.resolveFail # 0 /\ now >= old.resolveFail + cfg.dnsGrace

ReleaseJustified ==
    [][\A h \in DOMAIN hosts : Justified(hosts[h], hosts'[h])]_vars
=============================================================================
