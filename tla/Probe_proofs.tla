----------------------------- MODULE Probe_proofs -----------------------------
(* Proofs about the cycles of a task and its window, for every number of    *)
(* packets, every timeout and window, and every behaviour of the network.   *)
EXTENDS Probe, FiniteSetTheorems, WellFoundedInduction, TLAPS

-----------------------------------------------------------------------------
(* Numbers.                                                                 *)

\* A nonempty set of natural numbers has a least element.
LEMMA LeastNat ==
    ASSUME NEW T \in SUBSET Nat, T # {}
    PROVE  \E n \in T : \A m \in T : n =< m
<1>1. IsWellFoundedOn(OpToRel(<, Nat), Nat)
  BY NatLessThanWellFounded
<1>2. PICK n \in T : \A m \in T : <<m, n>> \notin OpToRel(<, Nat)
  BY <1>1, WFMin
<1>3. \A m \in T : ~(m < n)
  BY <1>2 DEF OpToRel
<1> QED
  BY <1>3

\* A set with 0, and with every successor of its members, has every number.
LEMMA Induction ==
    ASSUME NEW T, 0 \in T, \A n \in Nat : n \in T => n + 1 \in T
    PROVE  Nat \subseteq T
<1> SUFFICES ASSUME Nat \ T # {}
             PROVE  FALSE
  OBVIOUS
<1>1. PICK n \in Nat \ T : \A m \in Nat \ T : n =< m
  BY LeastNat
<1>2. n # 0 /\ n - 1 \in Nat /\ n - 1 \in T
  BY <1>1
<1> QED
  BY <1>2

\* How many of S are not above x.
Rank(S, x) == Cardinality({t \in S : t =< x})

\* In a finite set of numbers there is one of every rank, and a higher rank is
\* a higher number.
LEMMA NthRank ==
    ASSUME NEW S \in SUBSET Nat, IsFiniteSet(S)
    PROVE  /\ Cardinality(S) \in Nat
           /\ \A n \in 1 .. Cardinality(S) : Nth(S, n) \in S /\ Rank(S, Nth(S, n)) = n
<1> DEFINE Below(x) == {t \in S : t =< x}
<1>1. \A x : Below(x) \subseteq S /\ IsFiniteSet(Below(x)) /\ Rank(S, x) = Cardinality(Below(x))
  BY FS_Subset DEF Rank
<1>2. \A x \in S : Rank(S, x) \in 1 .. Cardinality(S)
  <2> SUFFICES ASSUME NEW x \in S
               PROVE  Rank(S, x) \in 1 .. Cardinality(S)
    OBVIOUS
  <2>1. x \in Below(x)
    OBVIOUS
  <2>2. Cardinality(Below(x)) # 0
    BY <1>1, <2>1, FS_EmptySet
  <2>3. Cardinality(Below(x)) \in Nat /\ Cardinality(S) \in Nat
    BY <1>1, FS_CardinalityType
  <2>4. Cardinality(Below(x)) =< Cardinality(S)
    BY <1>1, FS_Subset
  <2> QED
    BY <1>1, <2>2, <2>3, <2>4
<1>3. \A x, y \in S : x # y => Rank(S, x) # Rank(S, y)
  <2>1. ASSUME NEW x \in S, NEW y \in S, x < y
        PROVE  Rank(S, x) # Rank(S, y)
    <3>1. \A t \in S : (t =< x => t =< y) /\ y =< y /\ ~(y =< x)
      BY <2>1
    <3>2. Below(x) \subseteq Below(y) /\ y \in Below(y) /\ y \notin Below(x)
      BY <3>1
    <3> QED
      BY <1>1, <3>2, FS_Subset
  <2> QED
    BY <2>1
<1> DEFINE f == [x \in S |-> Rank(S, x)]
<1>4. Cardinality(S) \in Nat
  BY FS_CardinalityType
<1>5. /\ IsFiniteSet(1 .. Cardinality(S))
      /\ Cardinality(1 .. Cardinality(S)) = Cardinality(S)
  <2>1. Cardinality(S) < 1 => Cardinality(S) = 0
    BY <1>4
  <2> QED
    BY <1>4, <2>1, FS_Interval
<1>6. f \in Injection(S, 1 .. Cardinality(S))
  BY <1>2, <1>3 DEF Injection, IsInjective
<1>7. f \in Surjection(S, 1 .. Cardinality(S))
  BY <1>5, <1>6, FS_Injection
<1>8. \A n \in 1 .. Cardinality(S) : \E x \in S : Rank(S, x) = n
  BY <1>7 DEF Surjection
<1> QED
  BY <1>4, <1>8 DEF Nth, Rank

-----------------------------------------------------------------------------
(* Types.                                                                   *)

\* What expire leaves: the first fresh entry and all that follow.
LEMMA ExpiredIs ==
    ASSUME NEW E, NEW s \in Seq(E)
    PROVE  \E n \in 1 .. Len(s) + 1 :
               /\ Expired(s) = SubSeq(s, n, Len(s))
               /\ n =< Len(s) => Fresh(s[n])
               /\ \A m \in 1 .. n - 1 : ~Fresh(s[m])
<1> DEFINE T == {n \in 1 .. Len(s) + 1 : n =< Len(s) => Fresh(s[n])}
           First(n) == /\ n =< Len(s) => Fresh(s[n])
                       /\ \A m \in 1 .. n - 1 : ~Fresh(s[m])
<1>1. Len(s) \in Nat
  OBVIOUS
<1>2. T \in SUBSET Nat /\ Len(s) + 1 \in T
  BY <1>1
<1>3. PICK n \in T : \A m \in T : n =< m
  BY <1>2, LeastNat
<1>4. First(n)
  <2> SUFFICES ASSUME NEW m \in 1 .. n - 1, Fresh(s[m])
               PROVE  FALSE
    BY <1>3
  <2>1. m \in T /\ ~(n =< m)
    BY <1>1, <1>3
  <2> QED
    BY <1>3, <2>1
<1>5. n \in 1 .. Len(s) + 1
  OBVIOUS
<1> DEFINE first == CHOOSE k \in 1 .. Len(s) + 1 : First(k)
<1>6. first \in 1 .. Len(s) + 1 /\ First(first)
  BY <1>4, <1>5
<1>7. Expired(s) = SubSeq(s, first, Len(s))
  BY DEF Expired
<1> QED
  BY <1>6, <1>7

\* It leaves a sequence of the same kind.
LEMMA ExpiredType ==
    ASSUME NEW E, NEW s \in Seq(E)
    PROVE  Expired(s) \in Seq(E)
<1>1. PICK n \in 1 .. Len(s) + 1 : Expired(s) = SubSeq(s, n, Len(s))
  BY ExpiredIs
<1> QED
  BY <1>1

LEMMA ExpiredWindowType ==
    ASSUME NEW w \in [samples : Seq(Entry), counters : Seq(CounterType)]
    PROVE  ExpiredWindow(w) \in [samples : Seq(Entry), counters : Seq(CounterType)]
<1>1. Expired(w.samples) \in Seq(Entry) /\ Expired(w.counters) \in Seq(CounterType)
  BY ExpiredType
<1> QED
  BY <1>1 DEF ExpiredWindow

LEMMA AddedType ==
    ASSUME TypeOK
    PROVE  Added(c) \in [samples : Seq(Entry), counters : Seq(CounterType)]
<1>1. c \in Cycle /\ window \in [samples : Seq(Entry), counters : Seq(CounterType)]
  BY DEF TypeOK, WindowOK
<1>2. Counter(c) \in CounterType
  BY <1>1 DEF Cycle, Counter, CounterType
<1>3. Samples(c) \in Seq(Entry)
  <2>1. c.rtt \in Seq(SampleType) /\ c.start \in Nat
    BY <1>1 DEF Cycle
  <2>2. \A n \in 1 .. Len(c.rtt) : [at |-> c.start, s |-> c.rtt[n]] \in Entry
    BY <2>1 DEF Entry
  <2>3. Len(c.rtt) \in Nat
    BY <2>1
  <2> QED
    BY <2>2, <2>3 DEF Samples
<1> QED
  BY <1>1, <1>2, <1>3 DEF Added

\* Sequences.
LEMMA SeqMore ==
    ASSUME NEW A, NEW B, A \subseteq B, NEW s \in Seq(A)
    PROVE  s \in Seq(B)
OBVIOUS

LEMMA HeadTail ==
    ASSUME NEW A, NEW s \in Seq(A), s # <<>>
    PROVE  /\ Head(s) = s[1] /\ Head(s) \in A /\ Tail(s) \in Seq(A)
           /\ Len(s) \in Nat \ {0} /\ Len(Tail(s)) = Len(s) - 1
           /\ \A n \in 1 .. Len(s) - 1 : Tail(s)[n] = s[n + 1]
OBVIOUS

\* The packets and the replies are finitely many.
LEMMA Finite ==
    ASSUME TypeOK
    PROVE  /\ IsFiniteSet(DOMAIN sent) /\ IsFiniteSet(DOMAIN got)
           /\ DOMAIN sent \in SUBSET Nat /\ DOMAIN got \in SUBSET Nat
<1>1. i \in Nat /\ DOMAIN sent \subseteq 1 .. i /\ DOMAIN got \subseteq DOMAIN sent
  BY DEF TypeOK, TaskOK, PacketsOK
<1>2. IsFiniteSet(1 .. i)
  BY <1>1, FS_Interval
<1> QED
  BY <1>1, <1>2, FS_Subset

\* One sample for every packet answered.
LEMMA CollectedIs ==
    ASSUME TypeOK
    PROVE  /\ Collected \in Seq(SampleType)
           /\ Len(Collected) = Cardinality(DOMAIN got) /\ Cardinality(DOMAIN got) \in Nat
<1> DEFINE N == Cardinality(DOMAIN got)
<1>1. N \in Nat /\ \A n \in 1 .. N : Nth(DOMAIN got, n) \in DOMAIN got
  BY Finite, NthRank
<1>2. got \in [DOMAIN got -> SampleType]
  BY DEF TypeOK, PacketsOK
<1>3. \A n \in 1 .. N : got[Nth(DOMAIN got, n)] \in SampleType
  BY <1>1, <1>2
<1>4. Collected = [n \in 1 .. N |-> got[Nth(DOMAIN got, n)]]
  BY DEF Collected
<1> HIDE DEF N
<1> QED
  BY <1>1, <1>3, <1>4 DEF N

LEMMA InitTypes ==
    Init => TypeOK
<1> SUFFICES ASSUME Init
             PROVE  TypeOK
  OBVIOUS
<1>1. NoCycle \in Cycle
  BY DEF NoCycle, Cycle
<1>2. /\ sent = <<>> /\ got = <<>> /\ buffer = <<>> /\ arrivals = <<>> /\ log = <<>>
      /\ DOMAIN sent = {} /\ DOMAIN got = {}
  BY DEF Init
<1>3. \A E : <<>> \in Seq(E)
  OBVIOUS
<1>4. \A E : <<>> \in [{} -> E]
  OBVIOUS
<1>5. window \in [samples : Seq(Entry), counters : Seq(CounterType)]
  BY <1>3 DEF Init
<1> QED
  BY <1>1, <1>2, <1>3, <1>4, <1>5 DEF Init, TypeOK, TaskOK, PacketsOK, ConnOK, WindowOK, BoundsOK, NoConn

\* The bounds count up, and what went wrong is one of a few things.
LEMMA FaultTypes ==
    ASSUME BoundsOK, NEW what \in {"dial", "send", "read", "tcp", "pieces"}, Fault(what)
    PROVE  BoundsOK'
<1>1. used' \in [faults : Nat, dups : Nat]
  BY DEF BoundsOK, Fault
<1>2. broken' \subseteq {"dial", "send", "read", "tcp", "pieces"}
  BY DEF BoundsOK, Fault
<1> QED
  BY <1>1, <1>2 DEF BoundsOK

\* Packets that are left alone.
LEMMA PacketsKept ==
    ASSUME TaskOK, PacketsOK, UNCHANGED <<sent, got, link>>, i' = i \/ i' = i + 1
    PROVE  PacketsOK'
<1>1. DOMAIN sent \subseteq 1 .. i'
  BY DEF TaskOK, PacketsOK
<1> QED
  BY <1>1 DEF PacketsOK, link

LEMMA BeginTypes ==
    ASSUME TypeOK, NEW k \in {"udp", "connect", "echo"}, Begin(k)
    PROVE  TypeOK'
<1>1. c' \in Cycle
  BY DEF TypeOK, TaskOK, Begin, Cycle
<1>2. TaskOK' /\ ConnOK' /\ WindowOK' /\ BoundsOK'
  BY DEF TypeOK, TaskOK, ConnOK, WindowOK, BoundsOK, Begin, clock
<1> QED
  BY <1>1, <1>2, PacketsKept DEF TypeOK, Begin

\* A pause ends later or now.
LEMMA PauseTypes ==
    ASSUME TaskOK, NEW n, Pause(n)
    PROVE  wake' \in Nat
<1>1. Interval \in Nat /\ now \in Nat
  BY ProbeAssumption DEF TaskOK
<1> QED
  BY <1>1 DEF Pause

LEMMA SendTypes ==
    ASSUME TypeOK, Send
    PROVE  TypeOK'
<1>1. i \in Nat /\ i' = i + 1 /\ now \in Nat
  BY DEF TypeOK, TaskOK, Send
<1>2. c' \in Cycle
  BY DEF TypeOK, Send, Cycle
<1>3. /\ sent' = [y \in DOMAIN sent \cup {i + 1} |-> IF y = i + 1 THEN now ELSE sent[y]]
      /\ DOMAIN sent' = DOMAIN sent \cup {i + 1}
  BY DEF Send, Put
<1>4. PacketsOK'
  <2>1. sent' \in [DOMAIN sent' -> Nat] /\ DOMAIN sent' \subseteq 1 .. i'
    BY <1>1, <1>3 DEF TypeOK, PacketsOK
  <2>2. got' \in [DOMAIN got' -> SampleType] /\ DOMAIN got' \subseteq DOMAIN sent'
    BY <1>3 DEF TypeOK, PacketsOK, Send
  <2>3. flying' \subseteq DOMAIN sent'
    BY <1>3 DEF TypeOK, PacketsOK, Send
  <2>4. buffer' \in Seq([seq : DOMAIN sent', at : Nat])
    <3> DEFINE A == [seq : DOMAIN sent, at : Nat]
               B == [seq : DOMAIN sent', at : Nat]
    <3>1. buffer \in Seq(A)
      BY DEF TypeOK, PacketsOK
    <3>2. A \subseteq B
      BY <1>3
    <3>3. buffer' = buffer
      BY DEF Send
    <3> HIDE DEF A
    <3>4. buffer' \in Seq(B)
      <4> HIDE DEF B
      <4> QED
        BY <3>1, <3>2, <3>3, SeqMore
    <3> QED
      BY <3>4
  <2>5. arrivals' \in Seq(DOMAIN sent')
    BY <1>3 DEF TypeOK, PacketsOK, Send
  <2> QED
    BY <2>1, <2>2, <2>3, <2>4, <2>5 DEF PacketsOK
<1>5. TaskOK'
  <2>1. wake' \in Nat
    BY PauseTypes DEF TypeOK, Send
  <2> QED
    BY <2>1 DEF TypeOK, TaskOK, Send, clock
<1> QED
  BY <1>2, <1>4, <1>5 DEF TypeOK, Send, ConnOK, WindowOK, BoundsOK

\* The reply at the head of the buffer answers a packet that was sent.
LEMMA HeadTypes ==
    ASSUME TypeOK, buffer # <<>>
    PROVE  /\ Head(buffer) \in [seq : DOMAIN sent, at : Nat]
           /\ Tail(buffer) \in Seq([seq : DOMAIN sent, at : Nat])
           /\ Head(buffer).seq \in DOMAIN sent /\ Head(buffer).seq \in Nat
           /\ sent[Head(buffer).seq] \in Nat /\ Head(buffer).at \in Nat
           /\ Sample(Head(buffer)) \in SampleType
<1>1. buffer \in Seq([seq : DOMAIN sent, at : Nat])
  BY DEF TypeOK, PacketsOK
<1>2. /\ Head(buffer) \in [seq : DOMAIN sent, at : Nat]
      /\ Tail(buffer) \in Seq([seq : DOMAIN sent, at : Nat])
  BY <1>1, HeadTail
<1>3. Head(buffer).seq \in DOMAIN sent /\ Head(buffer).at \in Nat
  BY <1>2
<1>4. Head(buffer).seq \in Nat /\ sent[Head(buffer).seq] \in Nat
  BY <1>3 DEF TypeOK, TaskOK, PacketsOK
<1>5. Sample(Head(buffer)) \in SampleType
  BY <1>3, <1>4 DEF TypeOK, TaskOK, Sample, SampleType
<1> QED
  BY <1>2, <1>3, <1>4, <1>5

LEMMA ReceiveTypes ==
    ASSUME TypeOK, Receive
    PROVE  TypeOK'
<1> DEFINE m == Head(buffer)
<1>1. /\ buffer # <<>> /\ buffer' = Tail(buffer)
      /\ IF m.seq \in DOMAIN got
         THEN UNCHANGED <<got, highest, c>>
         ELSE /\ got' = Put(got, m.seq, Sample(m))
              /\ highest' = IF m.seq < highest THEN highest ELSE m.seq
              /\ c' = IF m.seq < highest THEN [c EXCEPT !.reordered = @ + 1] ELSE c
  BY DEF Receive
<1>2. /\ m.seq \in DOMAIN sent /\ m.seq \in Nat /\ Sample(m) \in SampleType
      /\ buffer' \in Seq([seq : DOMAIN sent, at : Nat])
  BY <1>1, HeadTypes
<1> HIDE DEF m
<1>3. got' \in [DOMAIN got' -> SampleType] /\ DOMAIN got' \subseteq DOMAIN sent
  <2>1. CASE got' = got
    BY <2>1 DEF TypeOK, PacketsOK
  <2>2. CASE got' = Put(got, m.seq, Sample(m))
    <3>1. /\ got' = [y \in DOMAIN got \cup {m.seq} |-> IF y = m.seq THEN Sample(m) ELSE got[y]]
          /\ DOMAIN got' = DOMAIN got \cup {m.seq}
      BY <2>2 DEF Put
    <3> QED
      BY <1>2, <3>1 DEF TypeOK, PacketsOK
  <2> QED
    BY <1>1, <2>1, <2>2
<1>4. c' \in Cycle
  BY <1>1 DEF TypeOK, Cycle
<1>5. highest' \in Nat
  BY <1>1, <1>2 DEF TypeOK, TaskOK
<1>6. PacketsOK'
  BY <1>2, <1>3 DEF TypeOK, PacketsOK, Receive
<1> QED
  BY <1>4, <1>5, <1>6 DEF TypeOK, TaskOK, ConnOK, WindowOK, BoundsOK, Receive, clock

LEMMA CollectTypes ==
    ASSUME TypeOK, Collect, BoundsOK'
    PROVE  TypeOK'
<1>1. Cardinality(DOMAIN got) \in Nat /\ Collected \in Seq(SampleType)
  BY CollectedIs
<1>2. Cardinality(DOMAIN sent \ DOMAIN got) \in Nat
  BY Finite, FS_Subset, FS_CardinalityType
<1>3. c' \in Cycle
  BY <1>1, <1>2 DEF TypeOK, Collect, Cycle
<1>4. PacketsOK'
  BY PacketsKept DEF TypeOK, Collect
<1> QED
  BY <1>3, <1>4 DEF TypeOK, TaskOK, ConnOK, WindowOK, Collect, clock

LEMMA ArriveTypes ==
    ASSUME TypeOK, NEW s \in Seqs, Arrive(s)
    PROVE  TypeOK'
<1>1. s \in DOMAIN sent /\ now \in Nat
  BY DEF TypeOK, TaskOK, PacketsOK, Arrive
<1>2. [seq |-> s, at |-> now] \in [seq : DOMAIN sent, at : Nat]
  BY <1>1
<1>3. buffer' \in Seq([seq : DOMAIN sent, at : Nat])
  <2>1. buffer \in Seq([seq : DOMAIN sent, at : Nat])
    BY DEF TypeOK, PacketsOK
  <2>2. buffer' = Append(buffer, [seq |-> s, at |-> now])
    BY DEF Arrive
  <2> QED
    BY <1>2, <2>1, <2>2
<1>4. arrivals' \in Seq(DOMAIN sent)
  <2>1. arrivals \in Seq(DOMAIN sent)
    BY DEF TypeOK, PacketsOK
  <2>2. arrivals' = arrivals \/ arrivals' = Append(arrivals, s)
    BY DEF Arrive
  <2> QED
    BY <1>1, <2>1, <2>2
<1>5. flying' \subseteq DOMAIN sent
  BY DEF TypeOK, PacketsOK, Arrive
<1>6. BoundsOK'
  BY DEF TypeOK, BoundsOK, Arrive
<1> QED
  BY <1>3, <1>4, <1>5, <1>6
  DEF TypeOK, TaskOK, PacketsOK, ConnOK, WindowOK, Arrive, clock, cycle

LEMMA FinishTypes ==
    ASSUME TypeOK, Finish
    PROVE  TypeOK'
<1>1. WindowOK'
  <2>1. window' \in [samples : Seq(Entry), counters : Seq(CounterType)]
    BY AddedType, ExpiredWindowType DEF Finish
  <2>2. log' \in Seq(Cycle)
    BY DEF TypeOK, WindowOK, Finish
  <2> QED
    BY <2>1, <2>2 DEF WindowOK
<1>2. c' \in Cycle
  BY DEF NoCycle, Cycle, Finish, NewCycle
<1>3. \A E : <<>> \in Seq(E)
  OBVIOUS
<1>4. /\ sent' = <<>> /\ got' = <<>> /\ buffer' = <<>> /\ arrivals' = <<>>
      /\ DOMAIN sent' = {} /\ DOMAIN got' = {} /\ flying' = {}
  BY DEF Finish, NewCycle
<1>5. \A E : <<>> \in [{} -> E]
  OBVIOUS
<1>6. PacketsOK'
  BY <1>3, <1>4, <1>5 DEF PacketsOK
<1>7. TaskOK' /\ ConnOK' /\ BoundsOK'
  BY DEF TypeOK, TaskOK, ConnOK, BoundsOK, Finish, NewCycle, clock
<1> QED
  BY <1>1, <1>2, <1>6, <1>7 DEF TypeOK

\* The steps of a TCP attempt.
LEMMA DialTypes ==
    ASSUME TypeOK, Dial
    PROVE  TypeOK'
<1>1. c' \in Cycle
  BY DEF TypeOK, Dial, Cycle
<1>2. ConnOK'
  <2>1. now \in Nat /\ Pieces \in Nat
    BY ProbeAssumption DEF TypeOK, TaskOK
  <2> QED
    BY <2>1 DEF ConnOK, Dial
<1>3. TaskOK'
  BY ProbeAssumption DEF TypeOK, TaskOK, Dial, clock
<1> QED
  BY <1>1, <1>2, <1>3, PacketsKept DEF TypeOK, WindowOK, BoundsOK, Dial

LEMMA ReadTypes ==
    ASSUME TypeOK, Read
    PROVE  TypeOK'
<1>1. ConnOK'
  <2>1. conn \in [open : BOOLEAN, unread : Nat, echoed : Nat, since : Nat]
    BY DEF TypeOK, ConnOK
  <2>2. ASSUME NEW n \in 1 .. conn.unread, conn' = [conn EXCEPT !.unread = @ - n, !.echoed = n]
        PROVE  ConnOK'
    <3>1. conn.unread - n \in Nat /\ n \in Nat
      BY <2>1
    <3> QED
      BY <2>1, <2>2, <3>1 DEF ConnOK
  <2>3. CASE conn' = [conn EXCEPT !.open = FALSE]
    BY <2>1, <2>3 DEF ConnOK
  <2> QED
    BY <2>2, <2>3 DEF Read
<1>2. BoundsOK'
  BY DEF TypeOK, BoundsOK, Read
<1> QED
  BY <1>1, <1>2, PacketsKept DEF TypeOK, TaskOK, WindowOK, Read, clock, cycle

\* The end of an attempt.
LEMMA AttemptTypes ==
    ASSUME TypeOK, AttemptEnds, c' \in Cycle, BoundsOK'
    PROVE  TypeOK'
<1>1. TaskOK'
  <2>1. wake' \in Nat
    BY PauseTypes DEF TypeOK, AttemptEnds
  <2> QED
    BY <2>1 DEF TypeOK, TaskOK, AttemptEnds, clock
<1>2. ConnOK'
  BY DEF AttemptEnds, ConnOK, NoConn
<1> QED
  BY <1>1, <1>2, PacketsKept DEF TypeOK, WindowOK, AttemptEnds

LEMMA SucceedsTypes ==
    ASSUME TypeOK, Succeeds
    PROVE  TypeOK'
<1> DEFINE m == [seq |-> i, rtt |-> now - conn.since, wire |-> now - conn.since]
<1>1. m \in SampleType
  BY DEF TypeOK, TaskOK, ConnOK, SampleType
<1>2. c' = [c EXCEPT !.received = @ + 1, !.rtt = Append(@, m)]
  BY DEF Succeeds
<1> HIDE DEF m
<1>3. c \in Cycle /\ c.rtt \in Seq(SampleType)
  BY DEF TypeOK, Cycle
<1>4. Append(c.rtt, m) \in Seq(SampleType)
  BY <1>1, <1>3
<1>5. c' \in Cycle
  <2>1. c' = [c EXCEPT !.received = c.received + 1, !.rtt = Append(c.rtt, m)]
    BY <1>2, <1>3 DEF Cycle
  <2>2. c.received + 1 \in Nat
    BY <1>3 DEF Cycle
  <2> QED
    BY <1>3, <1>4, <2>1, <2>2 DEF Cycle
<1> QED
  BY <1>5, AttemptTypes DEF TypeOK, BoundsOK, Succeeds

LEMMA FailsTypes ==
    ASSUME TypeOK, Fails
    PROVE  TypeOK'
<1>1. c' \in Cycle
  BY DEF TypeOK, Fails, Cycle
<1>2. BoundsOK'
  BY FaultTypes DEF TypeOK, BoundsOK, Fails
<1> QED
  BY <1>1, <1>2, AttemptTypes DEF Fails

LEMMA TypesPreserved ==
    ASSUME TypeOK, [Next]_vars
    PROVE  TypeOK'
<1>1. ASSUME NEW k \in Kind, Begin(k)
      PROVE  TypeOK'
  BY <1>1, BeginTypes, ProbeAssumption
<1>2. CASE DialFails
  <2>1. BoundsOK'
    BY <1>2, FaultTypes DEF TypeOK, DialFails
  <2> QED
    BY <1>2, <2>1, PacketsKept DEF TypeOK, TaskOK, ConnOK, WindowOK, DialFails, clock, cycle
<1>3. CASE SendFails
  <2>1. BoundsOK'
    BY <1>3, FaultTypes DEF TypeOK, SendFails
  <2> QED
    BY <1>3, <2>1, PacketsKept DEF TypeOK, TaskOK, ConnOK, WindowOK, SendFails, clock
<1>4. CASE SendingEnds
  <2>1. deadline' \in Nat
    BY <1>4, ProbeAssumption DEF TypeOK, TaskOK, SendingEnds
  <2> QED
    BY <1>4, <2>1, PacketsKept
    DEF TypeOK, TaskOK, ConnOK, WindowOK, BoundsOK, SendingEnds, clock
<1>5. CASE ReceivingEnds
  BY <1>5, CollectTypes DEF TypeOK, BoundsOK, ReceivingEnds
<1>6. CASE ReadFails
  BY <1>6, CollectTypes, FaultTypes DEF TypeOK, ReadFails
<1>7. CASE ReadStats
  <2>1. window' \in [samples : Seq(Entry), counters : Seq(CounterType)]
    BY <1>7, ExpiredWindowType DEF TypeOK, WindowOK, ReadStats
  <2> QED
    BY <1>7, <2>1, PacketsKept
    DEF TypeOK, TaskOK, ConnOK, WindowOK, BoundsOK, ReadStats, clock, cycle
<1>8. CASE Tick \/ Cancel \/ UNCHANGED vars
  <2>1. TaskOK'
    <3>1. /\ UNCHANGED <<at, kind, i, wake, deadline, highest>>
          /\ now' = now \/ now' = now + 1
          /\ cancelled' = cancelled \/ cancelled' = TRUE
      BY <1>8 DEF Tick, Cancel, vars, cycle
    <3>2. now' \in Nat
      BY <3>1 DEF TypeOK, TaskOK
    <3>3. cancelled' \in BOOLEAN
      BY <3>1 DEF TypeOK, TaskOK
    <3> QED
      BY <3>1, <3>2, <3>3 DEF TypeOK, TaskOK
  <2>2. UNCHANGED <<c, sent, got, i, link, conn, window, used, broken, log>>
    BY <1>8 DEF Tick, Cancel, vars, cycle, link
  <2> QED
    BY <2>1, <2>2, PacketsKept DEF TypeOK, ConnOK, WindowOK, BoundsOK
<1> QED
  BY <1>1, <1>2, <1>3, <1>4, <1>5, <1>6, <1>7, <1>8, SendTypes, ReceiveTypes,
     FinishTypes, ArriveTypes, DialTypes, ReadTypes, SucceedsTypes, FailsTypes DEF Next

\* The task, its packets, its replies and its window are well typed in every
\* reachable state.
THEOREM TypeCorrect == Spec => []TypeOK
<1>1. TypeOK /\ [Next]_vars => TypeOK'
  BY TypesPreserved
<1> QED
  BY <1>1, InitTypes, PTL DEF Spec

-----------------------------------------------------------------------------
(* What is counted.                                                         *)

\* Every packet or connection begun is counted as sent, and once its attempt is
\* over, or the cycle, as received or lost, with a sample for each one received.
Sums ==
    /\ at = "idle" => kind = "udp" /\ c = NoCycle /\ DOMAIN sent = {}
    /\ at = "receiving" => kind = "udp"
    /\ at = "connected" => kind # "udp"
    /\ kind = "udp" => c.sent = Cardinality(DOMAIN sent)
    /\ kind = "udp" /\ at # "done" => c.received = 0 /\ c.lost = 0 /\ c.rtt = <<>>
    /\ kind # "udp" => /\ DOMAIN sent = {}
                       /\ c.sent = c.received + c.lost + (IF at = "connected" THEN 1 ELSE 0)
    /\ c.received = Len(c.rtt)
    /\ at = "done" => c.sent = c.received + c.lost
    /\ at = "done" /\ kind = "udp" => c.received = Cardinality(DOMAIN got)

LEMMA InitSums == Init => Sums
<1> SUFFICES ASSUME Init
             PROVE  Sums
  OBVIOUS
<1>1. DOMAIN sent = {} /\ c = NoCycle /\ at = "idle" /\ kind = "udp"
  BY DEF Init
<1>2. Cardinality(DOMAIN sent) = 0
  BY <1>1, FS_EmptySet
<1>3. c.sent = 0 /\ c.received = 0 /\ c.lost = 0 /\ c.rtt = <<>> /\ Len(c.rtt) = 0
  BY <1>1 DEF NoCycle
<1> QED
  BY <1>1, <1>2, <1>3 DEF Sums

LEMMA BeginSums ==
    ASSUME TypeOK, Sums, NEW k \in Kind, Begin(k)
    PROVE  Sums'
<1>1. DOMAIN sent = {} /\ c = NoCycle /\ at = "idle"
  BY DEF Sums, Begin
<1>2. Cardinality(DOMAIN sent) = 0
  BY <1>1, FS_EmptySet
<1>3. c'.sent = 0 /\ c'.received = 0 /\ c'.lost = 0 /\ c'.rtt = <<>> /\ Len(c'.rtt) = 0
  BY <1>1 DEF NoCycle, Begin
<1>4. kind' = k /\ at' = "sending" /\ sent' = sent
  BY DEF Begin
<1> QED
  BY <1>1, <1>2, <1>3, <1>4 DEF Sums

LEMMA SendSums ==
    ASSUME TypeOK, Sums, Send
    PROVE  Sums'
<1>1. i \in Nat /\ DOMAIN sent \subseteq 1 .. i /\ c \in Cycle
  BY DEF TypeOK, TaskOK, PacketsOK
<1>2. DOMAIN sent' = DOMAIN sent \cup {i + 1} /\ i + 1 \notin DOMAIN sent
  BY <1>1 DEF Send, Put
<1>3. Cardinality(DOMAIN sent') = Cardinality(DOMAIN sent) + 1
  BY <1>2, Finite, FS_AddElement
<1>4. /\ c'.sent = c.sent + 1 /\ c'.received = c.received
      /\ c'.lost = c.lost /\ c'.rtt = c.rtt
  BY <1>1 DEF Send, Cycle
<1>5. at = "sending" /\ kind = "udp" /\ at' = at /\ kind' = kind
  BY DEF Send, Going
<1> QED
  BY <1>3, <1>4, <1>5 DEF Sums

LEMMA ReceiveSums ==
    ASSUME TypeOK, Sums, Receive
    PROVE  Sums'
<1>1. c \in Cycle
  BY DEF TypeOK
<1>2. /\ c'.sent = c.sent /\ c'.received = c.received
      /\ c'.lost = c.lost /\ c'.rtt = c.rtt
  BY <1>1 DEF Receive, Cycle
<1>3. at = "receiving" /\ UNCHANGED <<at, kind, sent>>
  BY DEF Receive
<1> QED
  BY <1>2, <1>3 DEF Sums

LEMMA CollectSums ==
    ASSUME TypeOK, Sums, at = "receiving", Collect
    PROVE  Sums'
<1>1. c \in Cycle
  BY DEF TypeOK
<1>2. /\ c'.sent = c.sent /\ c'.received = Cardinality(DOMAIN got)
      /\ c'.lost = Cardinality(DOMAIN sent \ DOMAIN got) /\ c'.rtt = Collected
  BY <1>1 DEF Collect, Cycle
<1>3. DOMAIN got \subseteq DOMAIN sent
  BY DEF TypeOK, PacketsOK
<1>4. DOMAIN sent \cap DOMAIN got = DOMAIN got
  BY <1>3
<1>5. Cardinality(DOMAIN sent \ DOMAIN got) = Cardinality(DOMAIN sent) - Cardinality(DOMAIN got)
  BY <1>4, Finite, FS_Difference
<1>6. Cardinality(DOMAIN sent) \in Nat /\ Cardinality(DOMAIN got) \in Nat
  BY Finite, FS_CardinalityType
<1>7. Len(Collected) = Cardinality(DOMAIN got)
  BY CollectedIs
<1>8. kind = "udp" /\ at' = "done" /\ UNCHANGED <<kind, sent, got>>
  BY DEF Sums, Collect
<1> QED
  BY <1>2, <1>5, <1>6, <1>7, <1>8 DEF Sums

LEMMA EndSums ==
    ASSUME TypeOK, Sums, DialFails \/ SendingEnds
    PROVE  Sums'
<1>1. at = "sending" /\ UNCHANGED <<kind, c, sent, got>>
  BY DEF DialFails, SendingEnds, cycle
<1>2. at' \in {"receiving", "done"} /\ (at' = "receiving" => kind = "udp")
  BY DEF DialFails, SendingEnds
<1>3. at' = "done" /\ kind = "udp" => c.sent = 0
  <2>1. CASE DialFails
    <3>1. DOMAIN sent = {}
      BY <2>1 DEF TypeOK, PacketsOK, DialFails
    <3> QED
      BY <2>1, <3>1, FS_EmptySet DEF Sums, DialFails
  <2>2. CASE SendingEnds
    <3>1. c.sent \in Nat
      BY DEF TypeOK, Cycle
    <3> QED
      BY <2>2, <3>1 DEF SendingEnds
  <2> QED
    BY <2>1, <2>2
<1>4. c.sent \in Nat /\ c.received \in Nat /\ c.lost \in Nat
  BY DEF TypeOK, Cycle
<1>5. at' = "done" => c.sent = c.received + c.lost
  BY <1>1, <1>3, <1>4 DEF Sums
<1>6. at' = "done" /\ kind = "udp" => c.received = 0 /\ Cardinality(DOMAIN got) = 0
  <2> SUFFICES ASSUME at' = "done", kind = "udp"
               PROVE  c.received = 0 /\ Cardinality(DOMAIN got) = 0
    OBVIOUS
  <2>1. c.received = 0 /\ Cardinality(DOMAIN sent) = 0
    BY <1>1, <1>3 DEF Sums
  <2>2. DOMAIN sent = {}
    BY <2>1, Finite, FS_EmptySet
  <2>3. DOMAIN got = {}
    BY <2>2 DEF TypeOK, PacketsOK
  <2> QED
    BY <2>1, <2>3, FS_EmptySet
<1> QED
  BY <1>1, <1>2, <1>5, <1>6 DEF Sums

LEMMA DialSums ==
    ASSUME TypeOK, Sums, Dial
    PROVE  Sums'
<1>1. c \in Cycle
  BY DEF TypeOK
<1>2. /\ c'.sent = c.sent + 1 /\ c'.received = c.received
      /\ c'.lost = c.lost /\ c'.rtt = c.rtt
  BY <1>1 DEF Dial, Cycle
<1>3. c.sent \in Nat /\ c.received \in Nat /\ c.lost \in Nat
  BY <1>1 DEF Cycle
<1>4. at = "sending" /\ kind # "udp" /\ UNCHANGED <<kind, sent>> /\ at' = "connected"
  BY DEF Dial, Going
<1> QED
  BY <1>2, <1>3, <1>4 DEF Sums

LEMMA AttemptSums ==
    ASSUME TypeOK, Sums, Succeeds \/ Fails
    PROVE  Sums'
<1>1. c \in Cycle /\ c.rtt \in Seq(SampleType)
  BY DEF TypeOK, Cycle
<1>2. c.sent \in Nat /\ c.received \in Nat /\ c.lost \in Nat
  BY <1>1 DEF Cycle
<1>3. at = "connected" /\ at' = "sending" /\ UNCHANGED <<kind, sent>>
  BY DEF Succeeds, Fails, AttemptEnds
<1>4. CASE Succeeds
  <2> DEFINE m == [seq |-> i, rtt |-> now - conn.since, wire |-> now - conn.since]
  <2>1. c' = [c EXCEPT !.received = @ + 1, !.rtt = Append(@, m)]
    BY <1>4 DEF Succeeds
  <2>2. m \in SampleType
    BY DEF TypeOK, TaskOK, ConnOK, SampleType
  <2> HIDE DEF m
  <2>3. /\ c'.sent = c.sent /\ c'.received = c.received + 1
        /\ c'.lost = c.lost /\ c'.rtt = Append(c.rtt, m)
    BY <1>1, <2>1 DEF Cycle
  <2>4. Len(c'.rtt) = Len(c.rtt) + 1
    BY <1>1, <2>2, <2>3
  <2>5. kind # "udp" /\ c.sent = c.received + c.lost + 1 /\ c.received = Len(c.rtt)
    BY <1>3 DEF Sums
  <2> QED
    BY <1>2, <1>3, <2>3, <2>4, <2>5 DEF Sums
<1>5. CASE Fails
  <2>1. c' = [c EXCEPT !.lost = @ + 1]
    BY <1>5 DEF Fails
  <2>2. /\ c'.sent = c.sent /\ c'.received = c.received
        /\ c'.lost = c.lost + 1 /\ c'.rtt = c.rtt
    BY <1>1, <2>1 DEF Cycle
  <2> QED
    BY <1>2, <1>3, <2>2 DEF Sums
<1> QED
  BY <1>4, <1>5

LEMMA FinishSums ==
    ASSUME Finish
    PROVE  Sums'
<1>1. DOMAIN sent' = {} /\ c' = NoCycle /\ at' = "idle" /\ kind' = "udp"
  BY DEF Finish, NewCycle
<1>2. Cardinality(DOMAIN sent') = 0
  BY <1>1, FS_EmptySet
<1>3. /\ c'.sent = 0 /\ c'.received = 0 /\ c'.lost = 0
      /\ c'.rtt = <<>> /\ Len(c'.rtt) = 0
  BY <1>1 DEF NoCycle
<1> QED
  BY <1>1, <1>2, <1>3 DEF Sums

LEMMA SumsPreserved ==
    ASSUME TypeOK, Sums, [Next]_vars
    PROVE  Sums'
<1>1. CASE \/ SendFails \/ Read \/ ReadStats \/ Tick \/ Cancel \/ UNCHANGED vars
           \/ \E s \in Seqs : Arrive(s)
  <2>1. UNCHANGED <<at, kind, c, sent, got>>
    BY <1>1 DEF SendFails, Read, ReadStats, Tick, Cancel, Arrive, vars, cycle
  <2> QED
    BY <2>1 DEF Sums
<1>2. CASE ReceivingEnds \/ ReadFails
  BY <1>2, CollectSums DEF ReceivingEnds, ReadFails
<1> QED
  BY <1>1, <1>2, BeginSums, SendSums, ReceiveSums, EndSums, DialSums, AttemptSums,
     FinishSums DEF Next

-----------------------------------------------------------------------------
(* What arrives, and what is read.  The first copies are read in the order  *)
(* in which they arrived: those that are still in the buffer are the last   *)
(* ones of arrivals, and each of them lies before the first copy of a later *)
(* one.                                                                     *)

Places == 1 .. Len(arrivals)
Held == 1 .. Len(buffer)

Distinct == \A m, n \in Places : arrivals[m] = arrivals[n] => m = n

ReadFirst == \A m, n \in Places :
    m < n /\ arrivals[n] \in DOMAIN got => arrivals[m] \in DOMAIN got

Behind == at \in {"sending", "receiving"} =>
    \A m, n \in Places : \A l \in Held :
        m < n /\ arrivals[m] \notin DOMAIN got /\ buffer[l].seq = arrivals[n] =>
            \E k \in Held : k < l /\ buffer[k].seq = arrivals[m]

\* Until the deadline an arrival is recorded, and lies in the buffer until it is
\* read; the deadline passes only with an empty buffer.
Open == at = "sending" \/ (at = "receiving" /\ now < deadline)

Recorded ==
    /\ \A s \in DOMAIN got : \E n \in Places : arrivals[n] = s
    /\ Open => \A k \in Held : \E n \in Places : arrivals[n] = buffer[k].seq

Kept ==
    /\ Open => \A n \in Places :
           arrivals[n] \in DOMAIN got \/ \E k \in Held : buffer[k].seq = arrivals[n]
    /\ \/ at = "receiving" /\ now >= deadline
       \/ at = "done" /\ kind = "udp" /\ "read" \notin broken
       => \A n \in Places : arrivals[n] \in DOMAIN got

\* highest is the highest number read, or 0.
Top ==
    /\ \A s \in DOMAIN got : s =< highest
    /\ highest # 0 => highest \in DOMAIN got
    /\ at \notin {"receiving", "done"} => DOMAIN got = {}

Line == Distinct /\ ReadFirst /\ Behind /\ Recorded /\ Kept /\ Top

\* Those that were read after a higher one.
Overtaken == {n \in Places : /\ arrivals[n] \in DOMAIN got
                             /\ \E m \in Places : m < n /\ arrivals[m] > arrivals[n]}

Tally == kind = "udp" => c.reordered = Cardinality(Overtaken)

\* Without packets there is nothing to be in order.
LEMMA NoPackets ==
    ASSUME TypeOK, DOMAIN sent = {}
    PROVE  /\ Len(arrivals) = 0 /\ Len(buffer) = 0 /\ Places = {} /\ Held = {}
           /\ DOMAIN got = {} /\ Overtaken = {} /\ Cardinality(Overtaken) = 0
<1>1. DOMAIN got = {} /\ arrivals \in Seq({})
  BY DEF TypeOK, PacketsOK
<1>2. Len(arrivals) = 0
  BY <1>1
<1>3. Len(buffer) = 0
  <2> DEFINE A == [seq : DOMAIN sent, at : Nat]
  <2>1. A = {}
    OBVIOUS
  <2>2. buffer \in Seq(A)
    BY DEF TypeOK, PacketsOK
  <2> HIDE DEF A
  <2> QED
    BY <2>1, <2>2
<1>4. Places = {} /\ Held = {}
  BY <1>2, <1>3 DEF Places, Held
<1>5. Overtaken = {}
  BY <1>4 DEF Overtaken
<1> QED
  BY <1>1, <1>2, <1>3, <1>4, <1>5, FS_EmptySet

LEMMA EmptyLine ==
    ASSUME TypeOK, DOMAIN sent = {}, highest = 0
    PROVE  Line
BY NoPackets DEF Line, Distinct, ReadFirst, Behind, Recorded, Kept, Top

\* A step that reads nothing and lets nothing arrive.
LEMMA QuietLine ==
    ASSUME Line, UNCHANGED <<buffer, arrivals, got, highest>>,
           Open' => Open, Behind',
           \/ at' = "receiving" /\ now' >= deadline'
           \/ at' = "done" /\ kind' = "udp" /\ "read" \notin broken'
           => \A n \in Places : arrivals[n] \in DOMAIN got,
           at' \notin {"receiving", "done"} => at \notin {"receiving", "done"}
    PROVE  Line'
<1>1. Distinct' /\ ReadFirst'
  BY DEF Line, Distinct, ReadFirst, Places
<1>2. Recorded'
  BY DEF Line, Recorded, Places, Held
<1>3. Kept'
  BY DEF Line, Kept, Places, Held
<1>4. Top'
  BY DEF Line, Top
<1> QED
  BY <1>1, <1>2, <1>3, <1>4 DEF Line

LEMMA QuietTally ==
    ASSUME Tally, UNCHANGED <<kind, arrivals, got>>, c'.reordered = c.reordered
    PROVE  Tally'
BY DEF Tally, Overtaken, Places

LEMMA InitLine == Init => Line /\ Tally
<1> SUFFICES ASSUME Init
             PROVE  Line /\ Tally
  OBVIOUS
<1>1. TypeOK /\ DOMAIN sent = {} /\ highest = 0 /\ c.reordered = 0
  BY InitTypes DEF Init, NoCycle
<1> QED
  BY <1>1, EmptyLine, NoPackets DEF Tally

\* The same of the next state.
LEMMA EmptyLineNext == (TypeOK /\ DOMAIN sent = {} /\ highest = 0 => Line)'
<1>1. TypeOK /\ DOMAIN sent = {} /\ highest = 0 => Line
  BY EmptyLine
<1> QED
  BY <1>1, PTL

LEMMA NoPacketsNext == (TypeOK /\ DOMAIN sent = {} => Cardinality(Overtaken) = 0)'
<1>1. TypeOK /\ DOMAIN sent = {} => Cardinality(Overtaken) = 0
  BY NoPackets
<1> QED
  BY <1>1, PTL

\* The steps of a cycle without packets: its begin and end, and those of TCP.
LEMMA EmptySteps ==
    ASSUME TypeOK, TypeOK', Sums, Line, Tally,
           Finish \/ Dial \/ Succeeds \/ Fails \/ \E k \in Kind : Begin(k)
    PROVE  Line' /\ Tally'
<1>1. DOMAIN sent' = {} /\ highest' = 0
  <2>1. CASE Finish
    BY <2>1 DEF Finish, NewCycle
  <2>2. CASE Dial \/ Succeeds \/ Fails \/ \E k \in Kind : Begin(k)
    <3>1. DOMAIN sent = {} /\ UNCHANGED <<sent, highest>>
      BY <2>2 DEF Sums, Dial, Succeeds, Fails, AttemptEnds, Going, Begin
    <3>2. at \notin {"receiving", "done"}
      BY <2>2 DEF Dial, Succeeds, Fails, AttemptEnds, Going, Begin
    <3> QED
      BY <3>1, <3>2 DEF Line, Top
  <2> QED
    BY <2>1, <2>2
<1>2. kind' = "udp" => c'.reordered = 0
  <2>1. CASE Finish
    BY <2>1 DEF Finish, NewCycle, NoCycle
  <2>2. CASE \E k \in Kind : Begin(k)
    BY <2>2 DEF Sums, Begin, NoCycle
  <2>3. CASE Dial \/ Succeeds \/ Fails
    BY <2>3 DEF Sums, Dial, Succeeds, Fails, AttemptEnds
  <2> QED
    BY <2>1, <2>2, <2>3
<1> QED
  BY <1>1, <1>2, EmptyLineNext, NoPacketsNext DEF Tally

\* The end of the sending loop.
LEMMA EndLine ==
    ASSUME TypeOK, TypeOK', Sums, Line, Tally, DialFails \/ SendingEnds
    PROVE  Line' /\ Tally'
<1>1. /\ at = "sending" /\ UNCHANGED <<kind, c, sent, got, highest, buffer, arrivals, now>>
      /\ highest = 0 /\ Tally'
  BY QuietTally DEF Line, Top, DialFails, SendingEnds, clock, cycle, link
<1>2. CASE DOMAIN sent = {}
  BY <1>1, <1>2, EmptyLineNext
<1>3. CASE DOMAIN sent # {}
  <2>1. SendingEnds
    BY <1>3 DEF DialFails, TypeOK, PacketsOK
  <2>2. kind = "udp" /\ c.sent > 0
    <3>1. Cardinality(DOMAIN sent) # 0 /\ Cardinality(DOMAIN sent) \in Nat
      BY <1>3, Finite, FS_EmptySet, FS_CardinalityType
    <3> QED
      BY <1>3, <3>1 DEF Sums
  <2>3. at' = "receiving" /\ deadline' = now + Timeout
    BY <2>1, <2>2 DEF SendingEnds
  <2>4. now' < deadline'
    BY <1>1, <2>3, ProbeAssumption DEF TypeOK, TaskOK
  <2>5. Behind'
    BY <1>1, <2>3 DEF Line, Behind, Places, Held
  <2>6. Open /\ ~(now' >= deadline')
    BY <1>1, <2>4 DEF Open, TypeOK, TaskOK
  <2> QED
    BY <1>1, <2>3, <2>5, <2>6, QuietLine
<1> QED
  BY <1>2, <1>3

\* The end of the cycle.
LEMMA CollectLine ==
    ASSUME TypeOK, Sums, Line, Tally, ReceivingEnds \/ ReadFails
    PROVE  Line' /\ Tally'
<1>1. /\ at = "receiving" /\ at' = "done"
      /\ UNCHANGED <<kind, sent, got, highest, buffer, arrivals, now, deadline>>
  BY DEF ReceivingEnds, ReadFails, Collect, clock, link
<1>2. Behind' /\ ~Open' /\ ~(at' = "receiving")
  BY <1>1 DEF Behind, Open
<1>3. "read" \notin broken' => \A n \in Places : arrivals[n] \in DOMAIN got
  <2>1. CASE ReadFails
    BY <2>1 DEF ReadFails, Fault
  <2>2. CASE ReceivingEnds /\ now >= deadline
    BY <1>1, <2>2 DEF Line, Kept
  <2>3. CASE DOMAIN got = DOMAIN sent
    BY <2>3 DEF TypeOK, PacketsOK, Places
  <2> QED
    BY <2>1, <2>2, <2>3 DEF ReceivingEnds
<1>4. c'.reordered = c.reordered
  BY DEF TypeOK, Cycle, ReceivingEnds, ReadFails, Collect
<1> QED
  BY <1>1, <1>2, <1>3, <1>4, QuietLine, QuietTally

\* Time passes only when the buffer is empty, so nothing that arrived in time is
\* left behind at the deadline.
LEMMA TickLine ==
    ASSUME TypeOK, Line, Tally, Tick
    PROVE  Line' /\ Tally'
<1>1. /\ UNCHANGED <<at, kind, c, sent, got, highest, buffer, arrivals, deadline, broken>>
      /\ now' = now + 1 /\ ~Ready
  BY DEF Tick, cycle, link
<1>2. Behind'
  BY <1>1 DEF Line, Behind, Places, Held
<1>3. Open' => Open
  BY <1>1 DEF Open, TypeOK, TaskOK
<1>4. at' = "receiving" => \A n \in Places : arrivals[n] \in DOMAIN got
  <2> SUFFICES ASSUME at = "receiving"
               PROVE  \A n \in Places : arrivals[n] \in DOMAIN got
    BY <1>1
  <2>1. buffer = <<>> /\ now < deadline
    BY <1>1 DEF Ready, TypeOK, TaskOK
  <2>2. Held = {} /\ Open
    BY <2>1 DEF Held, Open
  <2> QED
    BY <2>2 DEF Line, Kept
<1>5. at' # "done"
  BY <1>1 DEF Ready
<1> QED
  BY <1>1, <1>2, <1>3, <1>4, <1>5, QuietLine, QuietTally

\* The steps that have nothing to do with replies.
LEMMA OtherLine ==
    ASSUME TypeOK, Line, Tally,
           Send \/ SendFails \/ Read \/ ReadStats \/ Cancel \/ UNCHANGED vars
    PROVE  Line' /\ Tally'
<1>1. /\ UNCHANGED <<at, kind, got, highest, buffer, arrivals, now, deadline>>
      /\ c'.reordered = c.reordered
  <2>1. CASE Send
    BY <2>1 DEF Send, clock, TypeOK, Cycle
  <2>2. CASE SendFails \/ Read \/ ReadStats \/ Cancel \/ UNCHANGED vars
    BY <2>2 DEF SendFails, Read, ReadStats, Cancel, vars, clock, cycle, link
  <2> QED
    BY <2>1, <2>2
<1>2. "read" \notin broken' => "read" \notin broken
  BY DEF Send, SendFails, Fault, Read, ReadStats, Cancel, vars
<1>3. Behind'
  BY <1>1 DEF Line, Behind, Places, Held
<1>4. Open' = Open
  BY <1>1 DEF Open
<1>5. \/ at' = "receiving" /\ now' >= deadline'
      \/ at' = "done" /\ kind' = "udp" /\ "read" \notin broken'
      => \A n \in Places : arrivals[n] \in DOMAIN got
  BY <1>1, <1>2 DEF Line, Kept
<1> QED
  BY <1>1, <1>3, <1>4, <1>5, QuietLine, QuietTally

\* A duplicate is dropped.
LEMMA DuplicateLine ==
    ASSUME TypeOK, Line, Receive, Head(buffer).seq \in DOMAIN got
    PROVE  Line'
<1>1. /\ at = "receiving" /\ now < deadline /\ buffer # <<>> /\ buffer' = Tail(buffer)
      /\ UNCHANGED <<at, now, deadline, got, highest, arrivals, broken, kind>>
  BY DEF Receive, clock
<1>2. /\ Head(buffer) = buffer[1] /\ Len(buffer) \in Nat \ {0}
      /\ Len(buffer') = Len(buffer) - 1
      /\ \A k \in 1 .. Len(buffer) - 1 : buffer'[k] = buffer[k + 1]
  BY <1>1, HeadTail DEF TypeOK, PacketsOK
<1>3. Distinct' /\ ReadFirst' /\ Top'
  BY <1>1 DEF Line, Distinct, ReadFirst, Top, Places
<1>4. Open /\ Open'
  BY <1>1 DEF Open
<1>5. Recorded'
  BY <1>1, <1>2, <1>4 DEF Line, Recorded, Places, Held
<1>6. Kept'
  <2>1. ASSUME NEW n \in Places, arrivals[n] \notin DOMAIN got
        PROVE  \E k \in Held' : buffer'[k].seq = arrivals[n]
    <3>1. PICK k \in Held : buffer[k].seq = arrivals[n]
      BY <1>4, <2>1 DEF Line, Kept
    <3>2. k # 1
      BY <1>2, <2>1, <3>1
    <3>3. k - 1 \in Held' /\ buffer'[k - 1] = buffer[k]
      BY <1>2, <3>2 DEF Held
    <3> QED
      BY <3>1, <3>3
  <2>2. ~(now' >= deadline') /\ at' # "done"
    BY <1>1 DEF TypeOK, TaskOK
  <2> QED
    BY <1>1, <2>1, <2>2 DEF Kept, Places, Held
<1>7. Behind'
  <2> SUFFICES ASSUME NEW m \in Places', NEW n \in Places', NEW l \in Held', m < n,
                      arrivals'[m] \notin DOMAIN got', buffer'[l].seq = arrivals'[n]
               PROVE  \E k \in Held' : k < l /\ buffer'[k].seq = arrivals'[m]
    BY DEF Behind
  <2>0. /\ m \in Places /\ n \in Places /\ arrivals' = arrivals
        /\ arrivals[m] \notin DOMAIN got /\ buffer'[l].seq = arrivals[n]
    BY <1>1 DEF Places
  <2>1. l + 1 \in Held /\ buffer[l + 1].seq = arrivals[n]
    BY <1>2, <2>0 DEF Held
  <2>2. PICK k \in Held : k < l + 1 /\ buffer[k].seq = arrivals[m]
    BY <1>1, <2>0, <2>1 DEF Line, Behind
  <2>3. k # 1
    BY <1>2, <2>0, <2>2
  <2>4. k - 1 \in Held' /\ buffer'[k - 1] = buffer[k] /\ k - 1 < l
    BY <1>2, <2>2, <2>3 DEF Held
  <2> QED
    BY <2>0, <2>2, <2>4
<1> QED
  BY <1>3, <1>5, <1>6, <1>7 DEF Line

\* The reply at the head of the buffer is the earliest arrival not yet read.
LEMMA NextArrival ==
    ASSUME TypeOK, Line, at = "receiving", now < deadline, buffer # <<>>,
           Head(buffer).seq \notin DOMAIN got
    PROVE  \E n \in Places : /\ arrivals[n] = Head(buffer).seq
                             /\ \A m \in Places : m < n => arrivals[m] \in DOMAIN got
<1>1. Head(buffer) = buffer[1] /\ Len(buffer) \in Nat \ {0}
  BY HeadTail DEF TypeOK, PacketsOK
<1>2. 1 \in Held /\ Open
  BY <1>1 DEF Held, Open
<1>3. PICK n \in Places : arrivals[n] = Head(buffer).seq
  BY <1>1, <1>2 DEF Line, Recorded
<1>4. ASSUME NEW m \in Places, m < n, arrivals[m] \notin DOMAIN got
      PROVE  FALSE
  <2>1. PICK k \in Held : k < 1 /\ buffer[k].seq = arrivals[m]
    BY <1>1, <1>2, <1>3, <1>4 DEF Line, Behind
  <2> QED
    BY <2>1 DEF Held
<1> QED
  BY <1>3, <1>4

\* A first copy is read.
LEMMA FirstLine ==
    ASSUME TypeOK, Line, Receive, Head(buffer).seq \notin DOMAIN got
    PROVE  Line'
<1> DEFINE s == Head(buffer).seq
<1>1. /\ at = "receiving" /\ now < deadline /\ buffer # <<>> /\ buffer' = Tail(buffer)
      /\ UNCHANGED <<at, now, deadline, arrivals, broken, kind>>
      /\ highest' = IF s < highest THEN highest ELSE s
  BY DEF Receive, clock
<1>2. DOMAIN got' = DOMAIN got \cup {s}
  BY DEF Receive, Put
<1>3. /\ Head(buffer) = buffer[1] /\ Len(buffer) \in Nat \ {0}
      /\ Len(buffer') = Len(buffer) - 1
      /\ \A k \in 1 .. Len(buffer) - 1 : buffer'[k] = buffer[k + 1]
  BY <1>1, HeadTail DEF TypeOK, PacketsOK
<1>4. PICK e \in Places : /\ arrivals[e] = s
                          /\ \A m \in Places : m < e => arrivals[m] \in DOMAIN got
  BY <1>1, NextArrival
<1>5. s \in Nat /\ highest \in Nat /\ DOMAIN got \subseteq Nat
  BY <1>1, HeadTypes, Finite DEF TypeOK, TaskOK
<1>6. s = buffer[1].seq
  BY <1>3
<1> HIDE DEF s
<1>7. Distinct'
  BY <1>1 DEF Line, Distinct, Places
<1>8. ReadFirst'
  BY <1>1, <1>2, <1>4 DEF Line, Distinct, ReadFirst, Places
<1>9. Top'
  BY <1>1, <1>2, <1>5 DEF Line, Top
<1>10. Open /\ Open'
  BY <1>1 DEF Open
<1>11. Recorded'
  BY <1>1, <1>2, <1>3, <1>4, <1>10 DEF Line, Recorded, Places, Held
<1>12. Kept'
  <2>1. ASSUME NEW n \in Places, arrivals[n] \notin DOMAIN got'
        PROVE  \E k \in Held' : buffer'[k].seq = arrivals[n]
    <3>1. arrivals[n] \notin DOMAIN got /\ arrivals[n] # s
      BY <1>2, <2>1
    <3>2. PICK k \in Held : buffer[k].seq = arrivals[n]
      BY <1>10, <3>1 DEF Line, Kept
    <3>3. k # 1
      BY <1>6, <3>1, <3>2
    <3>4. k - 1 \in Held' /\ buffer'[k - 1] = buffer[k]
      BY <1>3, <3>3 DEF Held
    <3> QED
      BY <3>2, <3>4
  <2>2. ~(now' >= deadline') /\ at' # "done"
    BY <1>1 DEF TypeOK, TaskOK
  <2> QED
    BY <1>1, <2>1, <2>2 DEF Kept, Places, Held
<1>13. Behind'
  <2> SUFFICES ASSUME NEW m \in Places', NEW n \in Places', NEW l \in Held', m < n,
                      arrivals'[m] \notin DOMAIN got', buffer'[l].seq = arrivals'[n]
               PROVE  \E k \in Held' : k < l /\ buffer'[k].seq = arrivals'[m]
    BY DEF Behind
  <2>0. m \in Places /\ n \in Places /\ arrivals' = arrivals
    BY <1>1 DEF Places
  <2>1. arrivals[m] \notin DOMAIN got /\ arrivals[m] # s
    BY <1>2, <2>0
  <2>2. l + 1 \in Held /\ buffer[l + 1].seq = arrivals[n]
    BY <1>3, <2>0 DEF Held
  <2>3. PICK k \in Held : k < l + 1 /\ buffer[k].seq = arrivals[m]
    BY <1>1, <2>0, <2>1, <2>2 DEF Line, Behind
  <2>4. k # 1
    BY <1>6, <2>1, <2>3
  <2>5. k - 1 \in Held' /\ buffer'[k - 1] = buffer[k] /\ k - 1 < l
    BY <1>3, <2>3, <2>4 DEF Held
  <2> QED
    BY <2>0, <2>3, <2>5
<1> QED
  BY <1>7, <1>8, <1>9, <1>11, <1>12, <1>13 DEF Line

LEMMA ReceiveTally ==
    ASSUME TypeOK, Line, Tally, Receive
    PROVE  Tally'
<1> DEFINE s == Head(buffer).seq
<1>1. /\ at = "receiving" /\ now < deadline /\ buffer # <<>>
      /\ UNCHANGED <<arrivals, kind>>
      /\ s \in DOMAIN got => UNCHANGED <<got, c>>
      /\ s \notin DOMAIN got =>
            /\ got' = Put(got, s, Sample(Head(buffer)))
            /\ c' = IF s < highest THEN [c EXCEPT !.reordered = @ + 1] ELSE c
  BY DEF Receive
<1>2. CASE s \in DOMAIN got
  BY <1>1, <1>2, QuietTally
<1>3. CASE s \notin DOMAIN got
  <2>1. PICK e \in Places : /\ arrivals[e] = s
                            /\ \A m \in Places : m < e => arrivals[m] \in DOMAIN got
    BY <1>1, <1>3, NextArrival
  <2>2. s \in Nat /\ highest \in Nat /\ DOMAIN got \subseteq Nat
    BY <1>1, HeadTypes, Finite DEF TypeOK, TaskOK
  <2>3. DOMAIN got' = DOMAIN got \cup {s}
    BY <1>1, <1>3 DEF Put
  <2> HIDE DEF s
  <2>4. s < highest <=> \E m \in Places : m < e /\ arrivals[m] > arrivals[e]
    <3>1. ASSUME s < highest
          PROVE  \E m \in Places : m < e /\ arrivals[m] > arrivals[e]
      <4>1. highest \in DOMAIN got
        BY <2>2, <3>1 DEF Line, Top
      <4>2. PICK m \in Places : arrivals[m] = highest
        BY <4>1 DEF Line, Recorded
      <4>3. m < e
        <5>1. m # e
          BY <2>1, <2>2, <3>1, <4>2
        <5>2. ~(e < m)
          BY <1>3, <2>1, <4>1, <4>2 DEF Line, ReadFirst
        <5> QED
          BY <5>1, <5>2 DEF Places
      <4> QED
        BY <2>1, <2>2, <3>1, <4>2, <4>3
    <3>2. ASSUME NEW m \in Places, m < e, arrivals[m] > arrivals[e]
          PROVE  s < highest
      <4>1. arrivals[m] \in DOMAIN got /\ arrivals[m] =< highest
        BY <2>1, <3>2 DEF Line, Top
      <4> QED
        BY <2>1, <2>2, <3>2, <4>1
    <3> QED
      BY <3>1, <3>2
  <2>5. e \notin Overtaken
    BY <1>3, <2>1 DEF Overtaken
  <2>6. Overtaken' = Overtaken \cup (IF s < highest THEN {e} ELSE {})
    <3>1. \A n \in Places : arrivals[n] = s => n = e
      BY <2>1 DEF Line, Distinct
    <3>2. Places' = Places /\ arrivals' = arrivals
      BY <1>1 DEF Places
    <3> QED
      BY <2>1, <2>3, <2>4, <3>1, <3>2 DEF Overtaken
  <2>7. IsFiniteSet(Overtaken)
    <3>1. Len(arrivals) \in Nat /\ Overtaken \subseteq 1 .. Len(arrivals)
      BY DEF Overtaken, Places, TypeOK, PacketsOK
    <3>2. IsFiniteSet(1 .. Len(arrivals))
      BY <3>1, FS_Interval
    <3> QED
      BY <3>1, <3>2, FS_Subset
  <2>8. c'.reordered = IF s < highest THEN c.reordered + 1 ELSE c.reordered
    BY <1>1, <1>3 DEF TypeOK, Cycle
  <2>9. CASE s < highest
    <3>1. Cardinality(Overtaken \cup {e}) = Cardinality(Overtaken) + 1
      BY <2>5, <2>7, FS_AddElement
    <3> QED
      BY <1>1, <2>6, <2>8, <2>9, <3>1 DEF Tally
  <2>10. CASE ~(s < highest)
    BY <1>1, <2>6, <2>8, <2>10 DEF Tally
  <2> QED
    BY <2>9, <2>10
<1> QED
  BY <1>2, <1>3

\* An arrival lies at the end of the buffer, and, if it is a first copy in time,
\* at the end of arrivals.
LEMMA ArriveIs ==
    ASSUME TypeOK, NEW s \in Seqs, Arrive(s)
    PROVE  /\ at \in {"sending", "receiving"} /\ s \in DOMAIN sent
           /\ UNCHANGED <<at, now, deadline, kind, c, got, highest, broken>>
           /\ Len(buffer) \in Nat /\ Held' = Held \cup {Len(buffer) + 1}
           /\ \A k \in Held : buffer'[k] = buffer[k]
           /\ buffer'[Len(buffer) + 1].seq = s
           /\ \/ /\ arrivals' = arrivals
                 /\ Open => \E n \in Places : arrivals[n] = s
              \/ /\ Open /\ ~ \E n \in Places : arrivals[n] = s
                 /\ Len(arrivals) \in Nat /\ Places' = Places \cup {Len(arrivals) + 1}
                 /\ \A n \in Places : arrivals'[n] = arrivals[n]
                 /\ arrivals'[Len(arrivals) + 1] = s
<1>1. /\ at \in {"sending", "receiving"}
      /\ UNCHANGED <<at, now, deadline, kind, c, got, highest, broken>>
      /\ s \in DOMAIN sent
  BY DEF Arrive, clock, cycle, TypeOK, PacketsOK
<1> DEFINE A == [seq : DOMAIN sent, at : Nat]
           m == [seq |-> s, at |-> now]
<1>2. m \in A /\ m.seq = s
  BY <1>1 DEF TypeOK, TaskOK
<1>3. buffer \in Seq(A) /\ buffer' = Append(buffer, m)
  BY DEF Arrive, TypeOK, PacketsOK
<1> HIDE DEF A, m
<1>4. /\ Len(buffer) \in Nat /\ Held' = Held \cup {Len(buffer) + 1}
      /\ \A k \in Held : buffer'[k] = buffer[k]
      /\ buffer'[Len(buffer) + 1].seq = s
  BY <1>2, <1>3 DEF Held
<1>5. s \in Range(arrivals) <=> \E n \in Places : arrivals[n] = s
  <2>1. Len(arrivals) \in Nat /\ DOMAIN arrivals = Places
    BY DEF TypeOK, PacketsOK, Places
  <2> QED
    BY <2>1 DEF Range
<1>6. Open <=> ~(at = "receiving" /\ now >= deadline)
  BY <1>1 DEF Open, TypeOK, TaskOK
<1>7. CASE s \in Range(arrivals) \/ (at = "receiving" /\ now >= deadline)
  BY <1>1, <1>4, <1>5, <1>6, <1>7 DEF Arrive
<1>8. CASE ~(s \in Range(arrivals) \/ (at = "receiving" /\ now >= deadline))
  <2>1. arrivals' = Append(arrivals, s) /\ arrivals \in Seq(DOMAIN sent)
    BY <1>8 DEF Arrive, TypeOK, PacketsOK
  <2>2. /\ Len(arrivals) \in Nat /\ Places' = Places \cup {Len(arrivals) + 1}
        /\ \A n \in Places : arrivals'[n] = arrivals[n]
        /\ arrivals'[Len(arrivals) + 1] = s
    BY <1>1, <2>1 DEF Places
  <2> QED
    BY <1>1, <1>4, <1>5, <1>6, <1>8, <2>2
<1> QED
  BY <1>7, <1>8

\* What is not read yet lies in the buffer, before any new arrival.
LEMMA Waiting ==
    ASSUME TypeOK, Line, at \in {"sending", "receiving"}, NEW m \in Places,
           arrivals[m] \notin DOMAIN got
    PROVE  Open /\ \E k \in Held : buffer[k].seq = arrivals[m]
BY DEF Line, Kept, Open, TypeOK, TaskOK

\* A duplicate, or a reply after the deadline.
LEMMA LateLine ==
    ASSUME TypeOK, Line, Tally, NEW s \in Seqs, Arrive(s), arrivals' = arrivals
    PROVE  Line' /\ Tally'
<1> DEFINE L == Len(buffer) + 1
<1>1. /\ at \in {"sending", "receiving"}
      /\ UNCHANGED <<at, now, deadline, kind, c, got, highest, broken>>
      /\ L \in Nat /\ L \notin Held /\ Held' = Held \cup {L} /\ \A k \in Held : k < L
      /\ \A k \in Held : buffer'[k] = buffer[k]
      /\ buffer'[L].seq = s
      /\ Open => \E n \in Places : arrivals[n] = s
  BY ArriveIs DEF Held, Places
<1> HIDE DEF L
<1>2. Places' = Places /\ Open' = Open /\ Tally'
  BY <1>1, QuietTally DEF Places, Open
<1>3. Distinct' /\ ReadFirst' /\ Top'
  BY <1>1, <1>2 DEF Line, Distinct, ReadFirst, Top
<1>4. Recorded'
  BY <1>1, <1>2 DEF Line, Recorded
<1>5. Kept'
  BY <1>1, <1>2 DEF Line, Kept
<1>6. Behind'
  <2> SUFFICES ASSUME NEW m \in Places', NEW n \in Places', NEW l \in Held', m < n,
                      arrivals'[m] \notin DOMAIN got', buffer'[l].seq = arrivals'[n]
               PROVE  \E k \in Held' : k < l /\ buffer'[k].seq = arrivals'[m]
    BY DEF Behind
  <2>1. m \in Places /\ n \in Places /\ arrivals[m] \notin DOMAIN got
    BY <1>1, <1>2
  <2>2. CASE l \in Held
    <3>1. buffer[l].seq = arrivals[n]
      BY <1>1, <2>2
    <3>2. PICK k \in Held : k < l /\ buffer[k].seq = arrivals[m]
      BY <1>1, <2>1, <2>2, <3>1 DEF Line, Behind
    <3> QED
      BY <1>1, <3>2
  <2>3. CASE l = L
    <3>1. PICK k \in Held : buffer[k].seq = arrivals[m]
      BY <1>1, <2>1, Waiting
    <3> QED
      BY <1>1, <2>3, <3>1
  <2> QED
    BY <1>1, <2>2, <2>3
<1> QED
  BY <1>2, <1>3, <1>4, <1>5, <1>6 DEF Line

\* A first copy, in time.
LEMMA TimelyLine ==
    ASSUME TypeOK, Line, Tally, NEW s \in Seqs, Arrive(s), arrivals' # arrivals
    PROVE  Line' /\ Tally'
<1> DEFINE L == Len(buffer) + 1
           N == Len(arrivals) + 1
<1>1. /\ at \in {"sending", "receiving"}
      /\ UNCHANGED <<at, now, deadline, kind, c, got, highest, broken>>
      /\ L \in Nat /\ L \notin Held /\ Held' = Held \cup {L} /\ \A k \in Held : k < L
      /\ \A k \in Held : buffer'[k] = buffer[k]
      /\ buffer'[L].seq = s
  BY ArriveIs DEF Held
<1>2. /\ Open /\ ~ \E n \in Places : arrivals[n] = s
      /\ N \in Nat /\ N \notin Places /\ Places' = Places \cup {N}
      /\ \A n \in Places : n < N /\ n \in Nat
      /\ \A n \in Places : arrivals'[n] = arrivals[n]
      /\ arrivals'[N] = s
  BY ArriveIs DEF Places
<1> HIDE DEF L, N
<1>3. s \notin DOMAIN got /\ \A k \in Held : buffer[k].seq # s
  BY <1>2 DEF Line, Recorded
<1>4. Open' = Open
  BY <1>1 DEF Open
<1>5. Distinct'
  BY <1>2 DEF Line, Distinct
<1>6. ReadFirst'
  BY <1>1, <1>2, <1>3 DEF Line, ReadFirst
<1>7. Top'
  BY <1>1 DEF Line, Top
<1>8. Recorded'
  <2>1. \A t \in DOMAIN got' : \E n \in Places' : arrivals'[n] = t
    BY <1>1, <1>2 DEF Line, Recorded
  <2>2. \A k \in Held' : \E n \in Places' : arrivals'[n] = buffer'[k].seq
    BY <1>1, <1>2 DEF Line, Recorded
  <2> QED
    BY <2>1, <2>2 DEF Recorded
<1>9. Kept'
  <2>1. \A n \in Places' : arrivals'[n] \in DOMAIN got' \/ \E k \in Held' : buffer'[k].seq = arrivals'[n]
    BY <1>1, <1>2 DEF Line, Kept
  <2>2. ~(at' = "receiving" /\ now' >= deadline') /\ at' # "done"
    BY <1>1, <1>2 DEF Open, TypeOK, TaskOK
  <2> QED
    BY <2>1, <2>2 DEF Kept
<1>10. Behind'
  <2> SUFFICES ASSUME NEW m \in Places', NEW n \in Places', NEW l \in Held', m < n,
                      arrivals'[m] \notin DOMAIN got', buffer'[l].seq = arrivals'[n]
               PROVE  \E k \in Held' : k < l /\ buffer'[k].seq = arrivals'[m]
    BY DEF Behind
  <2>1. m \in Places /\ arrivals'[m] = arrivals[m] /\ arrivals[m] \notin DOMAIN got
    <3>1. \A x \in Places' : ~(N < x)
      BY <1>2
    <3> QED
      BY <1>1, <1>2, <3>1
  <2>2. CASE l = L
    <3>1. PICK k \in Held : buffer[k].seq = arrivals[m]
      BY <1>1, <2>1, Waiting
    <3> QED
      BY <1>1, <2>1, <2>2, <3>1
  <2>3. CASE l \in Held
    <3>1. buffer[l].seq = arrivals'[n] /\ arrivals'[n] # s
      BY <1>1, <1>3, <2>3
    <3>2. n \in Places /\ buffer[l].seq = arrivals[n]
      BY <1>2, <3>1
    <3>3. PICK k \in Held : k < l /\ buffer[k].seq = arrivals[m]
      BY <1>1, <2>1, <2>3, <3>2 DEF Line, Behind
    <3> QED
      BY <1>1, <2>1, <3>3
  <2> QED
    BY <1>1, <2>2, <2>3
<1>11. Tally'
  <2>1. Overtaken' = Overtaken
    <3>1. \A n \in Places' : n \in Overtaken' <=> n \in Overtaken
      <4> SUFFICES ASSUME NEW n \in Places'
                   PROVE  n \in Overtaken' <=> n \in Overtaken
        OBVIOUS
      <4>1. CASE n = N
        BY <1>1, <1>2, <1>3, <4>1 DEF Overtaken
      <4>2. CASE n \in Places
        <5>1. \A m \in Places' : m < n => m \in Places
          BY <1>2, <4>2
        <5> QED
          BY <1>1, <1>2, <4>2, <5>1 DEF Overtaken
      <4> QED
        BY <1>2, <4>1, <4>2
    <3> QED
      BY <1>2, <3>1 DEF Overtaken
  <2> QED
    BY <1>1, <2>1 DEF Tally
<1> QED
  BY <1>5, <1>6, <1>7, <1>8, <1>9, <1>10, <1>11 DEF Line

LEMMA LinePreserved ==
    ASSUME TypeOK, Sums, Line, Tally, [Next]_vars
    PROVE  Line' /\ Tally'
<1>1. TypeOK'
  BY TypesPreserved
<1>2. CASE Receive
  BY <1>2, DuplicateLine, FirstLine, ReceiveTally
<1>3. ASSUME NEW s \in Seqs, Arrive(s)
      PROVE  Line' /\ Tally'
  BY <1>3, LateLine, TimelyLine
<1> QED
  BY <1>1, <1>2, <1>3, EmptySteps, EndLine, CollectLine, TickLine, OtherLine DEF Next

\* What is counted, and what is read, in every reachable state.
Counted == TypeOK /\ Sums /\ Line /\ Tally

THEOREM AlwaysCounted == Spec => []Counted
<1>1. Init => Counted
  BY InitTypes, InitSums, InitLine DEF Counted
<1>2. Counted /\ [Next]_vars => Counted'
  BY TypesPreserved, SumsPreserved, LinePreserved DEF Counted
<1> QED
  BY <1>1, <1>2, PTL DEF Spec

\* A cycle lost exactly the packets no reply of which reached the socket before
\* the deadline, and reordered those whose first reply arrived after that of a
\* later packet, whatever the network duplicates, loses and reorders.
THEOREM CycleAlwaysExact == Spec => []CycleExact
<1>1. ASSUME Counted
      PROVE  CycleExact
  <2> SUFFICES ASSUME at = "done"
               PROVE  /\ c.sent = c.received + c.lost
                      /\ c.received = Len(c.rtt)
                      /\ kind = "udp" /\ "read" \notin broken =>
                             /\ c.lost = Cardinality(DOMAIN sent \ Range(arrivals))
                             /\ c.reordered = Cardinality({n \in 1 .. Len(arrivals) :
                                    \E m \in 1 .. n - 1 : arrivals[m] > arrivals[n]})
    BY DEF CycleExact
  <2>1. c.sent = c.received + c.lost /\ c.received = Len(c.rtt)
    BY <1>1 DEF Counted, Sums
  <2>2. ASSUME kind = "udp", "read" \notin broken
        PROVE  c.lost = Cardinality(DOMAIN sent \ Range(arrivals))
    <3>1. Range(arrivals) = DOMAIN got
      <4>1. DOMAIN arrivals = Places
        BY <1>1 DEF Counted, TypeOK, PacketsOK, Places
      <4>2. \A n \in Places : arrivals[n] \in DOMAIN got
        BY <1>1, <2>2 DEF Counted, Line, Kept
      <4>3. \A s \in DOMAIN got : \E n \in Places : arrivals[n] = s
        BY <1>1 DEF Counted, Line, Recorded
      <4> QED
        BY <4>1, <4>2, <4>3 DEF Range
    <3>2. DOMAIN sent \cap DOMAIN got = DOMAIN got
      BY <1>1 DEF Counted, TypeOK, PacketsOK
    <3>3. /\ Cardinality(DOMAIN sent \ DOMAIN got)
                = Cardinality(DOMAIN sent) - Cardinality(DOMAIN got)
          /\ Cardinality(DOMAIN sent) \in Nat /\ Cardinality(DOMAIN got) \in Nat
      BY <1>1, <3>2, Finite, FS_Difference, FS_CardinalityType DEF Counted
    <3>4. /\ c.sent = Cardinality(DOMAIN sent) /\ c.received = Cardinality(DOMAIN got)
          /\ c.sent = c.received + c.lost /\ c.lost \in Nat
      BY <1>1, <2>2 DEF Counted, TypeOK, Cycle, Sums
    <3> QED
      BY <3>1, <3>3, <3>4
  <2>3. ASSUME kind = "udp", "read" \notin broken
        PROVE  c.reordered = Cardinality({n \in 1 .. Len(arrivals) :
                                    \E m \in 1 .. n - 1 : arrivals[m] > arrivals[n]})
    <3>1. \A n \in Places : arrivals[n] \in DOMAIN got
      BY <1>1, <2>3 DEF Counted, Line, Kept
    <3>2. Len(arrivals) \in Nat
      BY <1>1 DEF Counted, TypeOK, PacketsOK
    <3>3. \A n \in Places : \A m : m \in 1 .. n - 1 <=> m \in Places /\ m < n
      BY <3>2 DEF Places
    <3>4. Overtaken = {n \in 1 .. Len(arrivals) :
                            \E m \in 1 .. n - 1 : arrivals[m] > arrivals[n]}
      BY <3>1, <3>3 DEF Overtaken, Places
    <3> QED
      BY <1>1, <2>3, <3>4 DEF Counted, Tally
  <2> QED
    BY <2>1, <2>2, <2>3
<1> QED
  BY <1>1, AlwaysCounted, PTL

-----------------------------------------------------------------------------
(* Round trips.                                                             *)

\* A reply is read at the time it arrives, or when the sending ends: time does
\* not pass while one lies in the buffer and the task is receiving.
Timed ==
    /\ \A k \in Held : buffer[k].at =< now
    /\ at = "receiving" =>
           /\ deadline - Timeout =< now
           /\ \A k \in Held : buffer[k].at = now \/ now = deadline - Timeout

LEMMA MaxOfTwo ==
    ASSUME NEW a \in Int, NEW b \in Int
    PROVE  Max({a, b}) = IF a >= b THEN a ELSE b
<1> DEFINE m == IF a >= b THEN a ELSE b
<1>1. m \in {a, b} /\ \A y \in {a, b} : m >= y
  OBVIOUS
<1>2. \A x \in {a, b} : (\A y \in {a, b} : x >= y) => x = m
  OBVIOUS
<1> QED
  BY <1>1, <1>2 DEF Max

LEMMA ReceiveTimed ==
    ASSUME TypeOK, Timed, RttFromRead, Receive
    PROVE  Timed' /\ RttFromRead'
<1> DEFINE m == Head(buffer)
<1>1. /\ at = "receiving" /\ buffer # <<>> /\ buffer' = Tail(buffer)
      /\ UNCHANGED <<at, now, deadline, sent, kind>>
      /\ got' = got \/ got' = Put(got, m.seq, Sample(m))
  BY DEF Receive, clock
<1>2. /\ m = buffer[1] /\ Len(buffer) \in Nat \ {0}
      /\ Len(buffer') = Len(buffer) - 1
      /\ \A k \in 1 .. Len(buffer) - 1 : buffer'[k] = buffer[k + 1]
  BY <1>1, HeadTail DEF TypeOK, PacketsOK
<1>3. Timed'
  BY <1>1, <1>2 DEF Timed, Held
<1>4. /\ now \in Nat /\ deadline \in Nat /\ Timeout \in Nat
      /\ m.at \in Nat /\ sent[m.seq] \in Nat
  BY <1>1, HeadTypes, ProbeAssumption DEF TypeOK, TaskOK
<1>5. m.at =< now /\ deadline - Timeout =< now /\ (m.at = now \/ now = deadline - Timeout)
  BY <1>1, <1>2 DEF Timed, Held
<1>6. Max({m.at - sent[m.seq], deadline - Timeout - sent[m.seq]}) = now - sent[m.seq]
  BY <1>4, <1>5, MaxOfTwo
<1>7. /\ Sample(m).rtt = now - sent[m.seq]
      /\ Sample(m).wire = m.at - sent[m.seq]
  BY DEF Sample
<1> HIDE DEF m
<1>8. CASE got' = Put(got, m.seq, Sample(m)) /\ kind = "udp"
  <2>1. \A s \in DOMAIN got' : got'[s] = IF s = m.seq THEN Sample(m) ELSE got[s]
    BY <1>8 DEF Put
  <2>2. DOMAIN got' = DOMAIN got \cup {m.seq}
    BY <1>8 DEF Put
  <2>3. ASSUME NEW s \in DOMAIN got'
        PROVE  got'[s].rtt = Max({got'[s].wire, deadline - Timeout - sent[s]})
    <3>1. CASE s = m.seq
      BY <1>6, <1>7, <2>1, <3>1
    <3>2. CASE s # m.seq
      BY <1>1, <1>8, <2>1, <2>2, <3>2 DEF RttFromRead
    <3> QED
      BY <3>1, <3>2
  <2> QED
    BY <1>1, <1>3, <2>3 DEF RttFromRead
<1>9. CASE got' = got \/ kind # "udp"
  BY <1>1, <1>3, <1>9 DEF RttFromRead
<1> QED
  BY <1>1, <1>8, <1>9

LEMMA ArriveTimed ==
    ASSUME TypeOK, Timed, RttFromRead, NEW s \in Seqs, Arrive(s)
    PROVE  Timed' /\ RttFromRead'
<1>1. UNCHANGED <<at, now, deadline, kind, sent, got>>
  BY DEF Arrive, clock, cycle
<1> DEFINE A == [seq : DOMAIN sent, at : Nat]
           m == [seq |-> s, at |-> now]
<1>2. m \in A /\ m.at = now /\ now \in Nat
  BY DEF Arrive, TypeOK, TaskOK, PacketsOK
<1>3. buffer \in Seq(A) /\ buffer' = Append(buffer, m)
  BY DEF Arrive, TypeOK, PacketsOK
<1> HIDE DEF A, m
<1>4. \A k \in Held' : (k \in Held /\ buffer'[k] = buffer[k]) \/ buffer'[k] = m
  BY <1>2, <1>3 DEF Held
<1>5. Timed'
  BY <1>1, <1>2, <1>4 DEF Timed
<1> QED
  BY <1>1, <1>5 DEF RttFromRead

LEMMA TimedPreserved ==
    ASSUME TypeOK, Sums, Line, Timed, RttFromRead, [Next]_vars
    PROVE  Timed' /\ RttFromRead'
<1>1. now \in Nat /\ deadline \in Nat /\ Timeout \in Nat
  BY ProbeAssumption DEF TypeOK, TaskOK
<1>2. CASE Tick
  <2>1. /\ UNCHANGED <<at, kind, sent, got, buffer, deadline>> /\ now' = now + 1
        /\ at = "receiving" => buffer = <<>>
    BY <1>2 DEF Tick, Ready, cycle, link
  <2>2. \A k \in Held : buffer[k].at \in Nat
    <3> DEFINE A == [seq : DOMAIN sent, at : Nat]
    <3>1. buffer \in Seq(A) /\ \A x \in A : x.at \in Nat
      BY DEF TypeOK, PacketsOK
    <3> HIDE DEF A
    <3> QED
      BY <3>1 DEF Held
  <2> QED
    BY <1>1, <2>1, <2>2 DEF Timed, RttFromRead, Held
<1>3. CASE SendingEnds
  <2>1. /\ UNCHANGED <<now, kind, sent, got, buffer>> /\ deadline' = now + Timeout
        /\ at = "sending"
    BY <1>3 DEF SendingEnds, clock, link
  <2>2. DOMAIN got = {} /\ deadline' - Timeout = now
    BY <1>1, <2>1 DEF Line, Top
  <2> QED
    BY <1>1, <2>1, <2>2 DEF Timed, RttFromRead, Held
<1>4. CASE \/ Finish \/ \E k \in Kind : Begin(k)
           \/ DialFails \/ ReceivingEnds \/ ReadFails \/ Dial \/ Succeeds \/ Fails
  <2>1. at' # "receiving"
    BY <1>4 DEF Finish, Begin, DialFails, ReceivingEnds, ReadFails, Collect,
                Dial, Succeeds, Fails, AttemptEnds
  <2>2. UNCHANGED <<now, buffer>> \/ (buffer' = <<>>)
    BY <1>4 DEF Finish, Begin, DialFails, ReceivingEnds, ReadFails, Collect,
                Dial, Succeeds, Fails, AttemptEnds, clock, link
  <2> QED
    BY <2>1, <2>2 DEF Timed, RttFromRead, Held
<1>5. CASE Send
  <2>1. /\ UNCHANGED <<at, now, deadline, kind, got, buffer>> /\ at = "sending"
    BY <1>5 DEF Send, Going, clock
  <2> QED
    BY <2>1 DEF Timed, RttFromRead, Held
<1>6. CASE SendFails \/ Read \/ ReadStats \/ Cancel \/ UNCHANGED vars
  <2>1. UNCHANGED <<at, now, deadline, kind, sent, got, buffer>>
    BY <1>6 DEF SendFails, Read, ReadStats, Cancel, vars, clock, cycle, link
  <2> QED
    BY <2>1 DEF Timed, RttFromRead, Held
<1> QED
  BY <1>2, <1>3, <1>4, <1>5, <1>6, ReceiveTimed, ArriveTimed DEF Next

\* A sample is timed from the sending of its packet to the arrival of the reply,
\* or to the end of the sending if the reply came before it, for any interval,
\* timeout and network delay.
THEOREM RttAlwaysFromRead == Spec => []RttFromRead
<1>1. Init => Timed /\ RttFromRead
  BY DEF Init, Timed, RttFromRead, Held
<1>2. Counted /\ Timed /\ RttFromRead /\ [Next]_vars => (Timed /\ RttFromRead)'
  BY TimedPreserved DEF Counted
<1> QED
  BY <1>1, <1>2, AlwaysCounted, PTL DEF Spec

-----------------------------------------------------------------------------
(* The concatenation of a sequence of sequences.                            *)

\* The recursion of FlattenSeq: what the first n of the sequences are together.
Joins(ss, g, n) == g = [j \in 1 .. n |-> IF j = 1 THEN ss[j] ELSE g[j - 1] \o ss[j]]

LEMMA JoinExists ==
    ASSUME NEW ss
    PROVE  \A n \in Nat : \E g : Joins(ss, g, n)
<1> DEFINE T == {n \in Nat : \E g : Joins(ss, g, n)}
<1>1. 0 \in T
  <2> DEFINE g == [j \in {} |-> j]
  <2>1. 1 .. 0 = {}
    OBVIOUS
  <2>2. Joins(ss, g, 0)
    BY <2>1 DEF Joins
  <2> QED
    BY <2>2
<1>2. ASSUME NEW n \in Nat, n \in T
      PROVE  n + 1 \in T
  <2>1. PICK g : Joins(ss, g, n)
    BY <1>2
  <2> DEFINE h == [j \in 1 .. n + 1 |->
                      IF j = n + 1 THEN (IF j = 1 THEN ss[j] ELSE g[n] \o ss[j]) ELSE g[j]]
  <2>2. \A j \in 1 .. n : g[j] = IF j = 1 THEN ss[j] ELSE g[j - 1] \o ss[j]
    BY <2>1 DEF Joins
  <2>3. \A j \in 1 .. n : h[j] = g[j]
    OBVIOUS
  <2>4. \A j \in 1 .. n + 1 : h[j] = IF j = 1 THEN ss[j] ELSE h[j - 1] \o ss[j]
    <3> SUFFICES ASSUME NEW j \in 1 .. n + 1
                 PROVE  h[j] = IF j = 1 THEN ss[j] ELSE h[j - 1] \o ss[j]
      OBVIOUS
    <3>1. CASE j = n + 1
      <4>1. j # 1 => j - 1 = n /\ n \in 1 .. n
        BY <3>1
      <4> QED
        BY <2>3, <3>1, <4>1
    <3>2. CASE j \in 1 .. n
      <4>1. j # 1 => j - 1 \in 1 .. n
        BY <3>2
      <4> QED
        BY <2>2, <2>3, <3>2, <4>1
    <3> QED
      BY <3>1, <3>2
  <2>5. h = [j \in 1 .. n + 1 |-> h[j]]
    OBVIOUS
  <2> HIDE DEF h
  <2>6. [j \in 1 .. n + 1 |-> h[j]]
          = [j \in 1 .. n + 1 |-> IF j = 1 THEN ss[j] ELSE h[j - 1] \o ss[j]]
    BY <2>4
  <2>7. Joins(ss, h, n + 1)
    BY <2>5, <2>6 DEF Joins
  <2> QED
    BY <2>7
<1>3. Nat \subseteq T
  <2> HIDE DEF T
  <2> QED
    BY <1>1, <1>2, Induction
<1> QED
  BY <1>3

LEMMA FlattenIs ==
    ASSUME NEW ss, Len(ss) \in Nat \ {0}
    PROVE  \E g : Joins(ss, g, Len(ss)) /\ FlattenSeq(ss) = g[Len(ss)]
<1> DEFINE n == Len(ss)
           f == CHOOSE g : g = [j \in 1 .. n |-> IF j = 1 THEN ss[j] ELSE g[j - 1] \o ss[j]]
<1>1. \E g : g = [j \in 1 .. n |-> IF j = 1 THEN ss[j] ELSE g[j - 1] \o ss[j]]
  BY JoinExists DEF Joins
<1>2. f = [j \in 1 .. n |-> IF j = 1 THEN ss[j] ELSE f[j - 1] \o ss[j]]
  BY <1>1
<1>3. FlattenSeq(ss) = f[n]
  BY DEF FlattenSeq
<1> QED
  BY <1>2, <1>3 DEF Joins

\* Two sequences are alike in the first n places.
Alike(a, b, n) == \A j \in 1 .. n : a[j] = b[j]

\* Joining agrees as far as the sequences do, and stays among their elements.
LEMMA JoinAgrees ==
    ASSUME NEW ss, NEW tt, NEW n \in Nat, NEW k \in Nat, NEW g, NEW h,
           Joins(ss, g, n), Joins(tt, h, k), n =< k, Alike(ss, tt, n)
    PROVE  Alike(g, h, n)
<1> DEFINE T == {j \in Nat : j \in 1 .. n => g[j] = h[j]}
<1>a. \A j \in 1 .. n : g[j] = IF j = 1 THEN ss[j] ELSE g[j - 1] \o ss[j]
  BY DEF Joins
<1>b. \A j \in 1 .. k : h[j] = IF j = 1 THEN tt[j] ELSE h[j - 1] \o tt[j]
  BY DEF Joins
<1>c. \A j \in 1 .. n : j \in 1 .. k
  OBVIOUS
<1>1. \A j \in 1 .. n : /\ g[j] = IF j = 1 THEN tt[j] ELSE g[j - 1] \o tt[j]
                        /\ h[j] = IF j = 1 THEN tt[j] ELSE h[j - 1] \o tt[j]
  BY <1>a, <1>b, <1>c DEF Alike
<1>2. 0 \in T
  OBVIOUS
<1>3. ASSUME NEW j \in Nat, j \in T
      PROVE  j + 1 \in T
  <2> SUFFICES ASSUME j + 1 \in 1 .. n
               PROVE  g[j + 1] = h[j + 1]
    OBVIOUS
  <2>1. CASE j = 0
    BY <1>1, <2>1
  <2>2. CASE j # 0
    <3>1. g[j] = h[j] /\ j + 1 # 1 /\ (j + 1) - 1 = j
      BY <1>3, <2>2
    <3> QED
      BY <1>1, <3>1
  <2> QED
    BY <2>1, <2>2
<1>4. Nat \subseteq T
  <2> HIDE DEF T
  <2> QED
    BY <1>2, <1>3, Induction
<1> QED
  BY <1>4 DEF Alike

LEMMA JoinType ==
    ASSUME NEW E, NEW ss, NEW n \in Nat, NEW g, Joins(ss, g, n),
           \A j \in 1 .. n : ss[j] \in Seq(E)
    PROVE  \A j \in 1 .. n : g[j] \in Seq(E)
<1> DEFINE T == {j \in Nat : j \in 1 .. n => g[j] \in Seq(E)}
<1>1. \A j \in 1 .. n : g[j] = IF j = 1 THEN ss[j] ELSE g[j - 1] \o ss[j]
  BY DEF Joins
<1>2. 0 \in T
  OBVIOUS
<1>3. ASSUME NEW j \in Nat, j \in T
      PROVE  j + 1 \in T
  <2> SUFFICES ASSUME j + 1 \in 1 .. n
               PROVE  g[j + 1] \in Seq(E)
    OBVIOUS
  <2>1. CASE j = 0
    BY <1>1, <2>1
  <2>2. CASE j # 0
    <3>1. g[j] \in Seq(E) /\ j + 1 # 1 /\ (j + 1) - 1 = j
      BY <1>3, <2>2
    <3>2. g[j + 1] = g[j] \o ss[j + 1] /\ ss[j + 1] \in Seq(E)
      BY <1>1, <3>1
    <3> QED
      BY <3>1, <3>2
  <2> QED
    BY <2>1, <2>2
<1>4. Nat \subseteq T
  <2> HIDE DEF T
  <2> QED
    BY <1>2, <1>3, Induction
<1> QED
  BY <1>4

LEMMA FlattenType ==
    ASSUME NEW E, NEW ss \in Seq(Seq(E))
    PROVE  FlattenSeq(ss) \in Seq(E)
<1>1. Len(ss) \in Nat /\ \A j \in 1 .. Len(ss) : ss[j] \in Seq(E)
  OBVIOUS
<1>2. CASE Len(ss) = 0
  <2>1. FlattenSeq(ss) = ss /\ ss = <<>>
    BY <1>2 DEF FlattenSeq
  <2> QED
    BY <2>1
<1>3. CASE Len(ss) # 0
  <2>1. PICK g : Joins(ss, g, Len(ss)) /\ FlattenSeq(ss) = g[Len(ss)]
    BY <1>1, <1>3, FlattenIs
  <2> DEFINE n == Len(ss)
  <2>2. n \in Nat /\ n \in 1 .. n /\ Joins(ss, g, n) /\ \A j \in 1 .. n : ss[j] \in Seq(E)
    BY <1>1, <1>3, <2>1
  <2>3. g[n] \in Seq(E)
    <3> HIDE DEF n
    <3>1. \A j \in 1 .. n : g[j] \in Seq(E)
      BY <2>2, JoinType
    <3> QED
      BY <2>2, <3>1
  <2> QED
    BY <2>1, <2>3
<1> QED
  BY <1>2, <1>3

LEMMA FlattenAppend ==
    ASSUME NEW E, NEW ss \in Seq(Seq(E)), NEW x \in Seq(E)
    PROVE  FlattenSeq(Append(ss, x)) = FlattenSeq(ss) \o x
<1> DEFINE tt == Append(ss, x)
           n == Len(ss)
<1>1. /\ n \in Nat /\ Len(tt) = n + 1 /\ tt[n + 1] = x
      /\ \A j \in 1 .. n : tt[j] = ss[j]
  OBVIOUS
<1> HIDE DEF tt
<1>2. PICK h : Joins(tt, h, n + 1) /\ FlattenSeq(tt) = h[n + 1]
  BY <1>1, FlattenIs
<1>3. h[n + 1] = IF n = 0 THEN x ELSE h[n] \o x
  <2>1. \A j \in 1 .. n + 1 : h[j] = IF j = 1 THEN tt[j] ELSE h[j - 1] \o tt[j]
    BY <1>2 DEF Joins
  <2>2. n + 1 \in 1 .. n + 1 /\ (n + 1) - 1 = n /\ (n + 1 = 1 <=> n = 0)
    BY <1>1
  <2> QED
    BY <1>1, <2>1, <2>2
<1>4. CASE n = 0
  <2>1. FlattenSeq(ss) = <<>>
    BY <1>4 DEF FlattenSeq
  <2>2. <<>> \o x = x
    OBVIOUS
  <2> QED
    BY <1>2, <1>3, <1>4, <2>1, <2>2 DEF tt
<1>5. CASE n # 0
  <2>1. PICK g : Joins(ss, g, n) /\ FlattenSeq(ss) = g[n]
    BY <1>1, <1>5, FlattenIs
  <2>2. g[n] = h[n]
    <3>1. n \in Nat /\ n + 1 \in Nat /\ n =< n + 1 /\ n \in 1 .. n
      BY <1>1, <1>5
    <3>2. Alike(ss, tt, n)
      BY <1>1 DEF Alike
    <3>3. Alike(g, h, n)
      <4>1. Joins(ss, g, n) /\ Joins(tt, h, n + 1)
        BY <1>2, <2>1
      <4> HIDE DEF n
      <4> QED
        BY <3>1, <3>2, <4>1, JoinAgrees
    <3> QED
      BY <3>1, <3>3 DEF Alike
  <2> QED
    BY <1>2, <1>3, <1>5, <2>1, <2>2 DEF tt
<1> QED
  BY <1>4, <1>5

LEMMA JoinAssociates ==
    ASSUME NEW E, NEW a \in Seq(E), NEW b \in Seq(E), NEW d \in Seq(E)
    PROVE  (a \o b) \o d = a \o (b \o d)
<1> DEFINE l == (a \o b) \o d
           u == a \o (b \o d)
<1>1. l \in Seq(E) /\ u \in Seq(E) /\ Len(l) = Len(u)
  OBVIOUS
<1>2. \A j \in 1 .. Len(l) : l[j] = u[j]
  OBVIOUS
<1> HIDE DEF l, u
<1>3. l = u
  BY <1>1, <1>2
<1> QED
  BY <1>3 DEF l, u

\* Two parts are joined apart.
LEMMA FlattenSplit ==
    ASSUME NEW E, NEW ss \in Seq(Seq(E))
    PROVE  \A tt \in Seq(Seq(E)) : FlattenSeq(ss \o tt) = FlattenSeq(ss) \o FlattenSeq(tt)
<1> DEFINE P(tt) == FlattenSeq(ss \o tt) = FlattenSeq(ss) \o FlattenSeq(tt)
           T == {n \in Nat : \A tt \in Seq(Seq(E)) : Len(tt) = n => P(tt)}
<1>1. FlattenSeq(ss) \in Seq(E)
  BY FlattenType
<1>2. 0 \in T
  <2> SUFFICES ASSUME NEW tt \in Seq(Seq(E)), Len(tt) = 0
               PROVE  P(tt)
    OBVIOUS
  <2>1. tt = <<>> /\ ss \o tt = ss
    OBVIOUS
  <2>2. FlattenSeq(tt) = <<>>
    BY <2>1 DEF FlattenSeq
  <2>3. FlattenSeq(ss) \o <<>> = FlattenSeq(ss)
    BY <1>1
  <2> QED
    BY <2>1, <2>2, <2>3
<1>3. ASSUME NEW n \in Nat, n \in T
      PROVE  n + 1 \in T
  <2> SUFFICES ASSUME NEW tt \in Seq(Seq(E)), Len(tt) = n + 1
               PROVE  P(tt)
    OBVIOUS
  <2> DEFINE S == Seq(E)
             uu == SubSeq(tt, 1, n)
             x == tt[n + 1]
  <2>1. x \in S /\ uu \in Seq(S) /\ Len(uu) = n /\ tt = Append(uu, x)
    <3>1. tt \in Seq(S) /\ ss \in Seq(S)
      OBVIOUS
    <3> HIDE DEF S
    <3> QED
      BY <3>1
  <2>2. ss \o tt = Append(ss \o uu, x) /\ ss \o uu \in Seq(S)
    <3>1. ss \in Seq(S)
      OBVIOUS
    <3> HIDE DEF S, uu, x
    <3> QED
      BY <2>1, <3>1
  <2>3. FlattenSeq(ss \o uu) = FlattenSeq(ss) \o FlattenSeq(uu)
    BY <1>3, <2>1
  <2>4. FlattenSeq(Append(ss \o uu, x)) = FlattenSeq(ss \o uu) \o x
    BY <2>1, <2>2, FlattenAppend
  <2>5. FlattenSeq(Append(uu, x)) = FlattenSeq(uu) \o x /\ FlattenSeq(uu) \in Seq(E)
    BY <2>1, FlattenAppend, FlattenType
  <2> HIDE DEF uu, x
  <2>6. (FlattenSeq(ss) \o FlattenSeq(uu)) \o x = FlattenSeq(ss) \o (FlattenSeq(uu) \o x)
    BY <1>1, <2>1, <2>5, JoinAssociates
  <2> QED
    BY <2>1, <2>2, <2>3, <2>4, <2>5, <2>6
<1>4. Nat \subseteq T
  <2> HIDE DEF T
  <2> QED
    BY <1>2, <1>3, Induction
<1> SUFFICES ASSUME NEW tt \in Seq(Seq(E))
             PROVE  P(tt)
  OBVIOUS
<1>5. Len(tt) \in Nat
  OBVIOUS
<1> QED
  BY <1>4, <1>5

-----------------------------------------------------------------------------
(* The window and the cycles.  The window always shows the cycles after the *)
(* k-th, for some k, and those it no longer shows are stale.                *)

LEMMA AppendIs ==
    ASSUME NEW E, NEW a \in Seq(E), NEW x \in E
    PROVE  /\ Append(a, x) = [n \in 1 .. Len(a) + 1 |-> Append(a, x)[n]]
           /\ Append(a, x)[Len(a) + 1] = x
           /\ \A n \in 1 .. Len(a) : Append(a, x)[n] = a[n]
<1> DEFINE b == Append(a, x)
<1>1. b \in Seq(E) /\ Len(b) = Len(a) + 1
  OBVIOUS
<1>2. b[Len(a) + 1] = x /\ \A n \in 1 .. Len(a) : b[n] = a[n]
  OBVIOUS
<1> HIDE DEF b
<1>3. b = [n \in 1 .. Len(a) + 1 |-> b[n]]
  BY <1>1
<1> QED
  BY <1>2, <1>3 DEF b

LEMMA JoinIs ==
    ASSUME NEW E, NEW a \in Seq(E), NEW b \in Seq(E)
    PROVE  /\ a \o b \in Seq(E) /\ Len(a) \in Nat /\ Len(b) \in Nat
           /\ Len(a \o b) = Len(a) + Len(b)
           /\ \A n \in 1 .. Len(a) : (a \o b)[n] = a[n]
           /\ \A n \in 1 .. Len(b) : (a \o b)[Len(a) + n] = b[n]
OBVIOUS

LEMMA SameSeq ==
    ASSUME NEW E, NEW a \in Seq(E), NEW b \in Seq(E), Len(a) = Len(b),
           \A n \in 1 .. Len(a) : a[n] = b[n]
    PROVE  a = b
OBVIOUS

\* expire drops a stale part and keeps a fresh one.
LEMMA ExpiredSplit ==
    ASSUME NEW E, NEW a \in Seq(E), NEW b \in Seq(E),
           \A n \in 1 .. Len(a) : ~Fresh(a[n]), \A n \in 1 .. Len(b) : Fresh(b[n])
    PROVE  Expired(a \o b) = b
<1> DEFINE s == a \o b
           x == Len(a)
           y == Len(b)
<1>1. /\ s \in Seq(E) /\ x \in Nat /\ y \in Nat /\ Len(s) = x + y
      /\ \A n \in 1 .. x : s[n] = a[n]
      /\ \A n \in 1 .. y : s[x + n] = b[n]
      /\ SubSeq(s, x + 1, x + y) = b
  OBVIOUS
<1> HIDE DEF s
<1>2. PICK n \in 1 .. Len(s) + 1 : /\ Expired(s) = SubSeq(s, n, Len(s))
                                   /\ n =< Len(s) => Fresh(s[n])
                                   /\ \A m \in 1 .. n - 1 : ~Fresh(s[m])
  BY <1>1, ExpiredIs
<1> HIDE DEF x, y
<1>3. ~(n =< x)
  <2> SUFFICES ASSUME n =< x
               PROVE  FALSE
    OBVIOUS
  <2>1. n \in 1 .. x /\ n =< Len(s)
    BY <1>1
  <2> QED
    BY <1>1, <1>2, <2>1 DEF x
<1>4. ~(n > x + 1)
  <2> SUFFICES ASSUME n > x + 1
               PROVE  FALSE
    OBVIOUS
  <2>1. x + 1 \in 1 .. n - 1 /\ 1 \in 1 .. y
    BY <1>1
  <2>2. Fresh(s[x + 1])
    BY <1>1, <2>1 DEF y
  <2> QED
    BY <1>2, <2>1, <2>2
<1>5. n = x + 1
  BY <1>1, <1>3, <1>4
<1> QED
  BY <1>1, <1>2, <1>5 DEF s

\* What the window holds of the cycles after the k-th.
SamplesFrom(lg, k) == [n \in 1 .. Len(lg) - k |-> Samples(lg[k + n])]

CountersFrom(lg, k) == [n \in 1 .. Len(lg) - k |-> Counter(lg[k + n])]

Shows(w, lg, k) ==
    /\ w.samples = FlattenSeq(SamplesFrom(lg, k))
    /\ w.counters = CountersFrom(lg, k)

InOrder(lg) == \A m, n \in 1 .. Len(lg) : m < n => lg[m].start =< lg[n].start

Recent(cyc) == cyc.start >= now - Dur

LEMMA CycleParts ==
    ASSUME NEW cyc \in Cycle
    PROVE  /\ cyc.start \in Nat /\ Samples(cyc) \in Seq(Entry)
           /\ \A n \in 1 .. Len(Samples(cyc)) : Samples(cyc)[n].at = cyc.start
           /\ Counter(cyc) \in CounterType /\ Counter(cyc).at = cyc.start
<1>1. cyc.rtt \in Seq(SampleType) /\ cyc.start \in Nat
  BY DEF Cycle
<1>2. Counter(cyc) \in CounterType /\ Counter(cyc).at = cyc.start
  BY DEF Cycle, Counter, CounterType
<1>3. \A n \in 1 .. Len(cyc.rtt) : [at |-> cyc.start, s |-> cyc.rtt[n]] \in Entry
  BY <1>1 DEF Entry
<1>4. Len(cyc.rtt) \in Nat
  BY <1>1
<1>5. Samples(cyc) \in Seq(Entry) /\ Len(Samples(cyc)) = Len(cyc.rtt)
  BY <1>3, <1>4 DEF Samples
<1>6. \A n \in 1 .. Len(cyc.rtt) : Samples(cyc)[n].at = cyc.start
  BY DEF Samples
<1> QED
  BY <1>1, <1>2, <1>5, <1>6

\* The samples of a cycle are fresh or stale with it.
LEMMA CycleFresh ==
    ASSUME NEW cyc \in Cycle
    PROVE  /\ Recent(cyc) => Samples(cyc) \in Seq({e \in Entry : Fresh(e)})
           /\ ~Recent(cyc) => Samples(cyc) \in Seq({e \in Entry : ~Fresh(e)})
<1> DEFINE s == Samples(cyc)
<1>1. /\ s \in Seq(Entry) /\ Len(s) \in Nat
      /\ \A n \in 1 .. Len(s) : s[n] \in Entry /\ s[n].at = cyc.start
  BY CycleParts
<1> HIDE DEF s
<1>2. ASSUME Recent(cyc)
      PROVE  s \in Seq({e \in Entry : Fresh(e)})
  <2> DEFINE A == {e \in Entry : Fresh(e)}
  <2>1. \A n \in 1 .. Len(s) : s[n] \in A
    BY <1>1, <1>2 DEF Recent, Fresh
  <2> HIDE DEF A
  <2>2. s \in Seq(A)
    BY <1>1, <2>1
  <2> QED
    BY <2>2 DEF A
<1>3. ASSUME ~Recent(cyc)
      PROVE  s \in Seq({e \in Entry : ~Fresh(e)})
  <2> DEFINE A == {e \in Entry : ~Fresh(e)}
  <2>1. \A n \in 1 .. Len(s) : s[n] \in A
    BY <1>1, <1>3 DEF Recent, Fresh
  <2> HIDE DEF A
  <2>2. s \in Seq(A)
    BY <1>1, <2>1
  <2> QED
    BY <2>2 DEF A
<1> QED
  BY <1>2, <1>3 DEF s

LEMMA FromTypes ==
    ASSUME NEW lg \in Seq(Cycle), NEW k \in 0 .. Len(lg)
    PROVE  /\ SamplesFrom(lg, k) \in Seq(Seq(Entry)) /\ Len(SamplesFrom(lg, k)) = Len(lg) - k
           /\ CountersFrom(lg, k) \in Seq(CounterType) /\ Len(CountersFrom(lg, k)) = Len(lg) - k
<1>1. Len(lg) \in Nat /\ \A n \in 1 .. Len(lg) - k : lg[k + n] \in Cycle
  OBVIOUS
<1>2. \A n \in 1 .. Len(lg) - k : /\ Samples(lg[k + n]) \in Seq(Entry)
                                  /\ Counter(lg[k + n]) \in CounterType
  BY <1>1, CycleParts
<1> DEFINE S == Seq(Entry)
           a == SamplesFrom(lg, k)
           b == CountersFrom(lg, k)
<1>3. /\ a = [n \in 1 .. Len(lg) - k |-> Samples(lg[k + n])]
      /\ b = [n \in 1 .. Len(lg) - k |-> Counter(lg[k + n])]
  BY DEF SamplesFrom, CountersFrom
<1>4. Len(lg) - k \in Nat
  BY <1>1
<1>5. \A n \in 1 .. Len(lg) - k : Samples(lg[k + n]) \in S
  BY <1>2
<1> HIDE DEF S, a, b
<1>6. a \in Seq(S) /\ Len(a) = Len(lg) - k
  BY <1>3, <1>4, <1>5
<1>7. b \in Seq(CounterType) /\ Len(b) = Len(lg) - k
  <2>1. \A n \in 1 .. Len(lg) - k : Counter(lg[k + n]) \in CounterType
    BY <1>2
  <2> QED
    BY <1>3, <1>4, <2>1
<1> QED
  BY <1>6, <1>7 DEF S, a, b

\* A cycle added to both is shown.
LEMMA AddShows ==
    ASSUME TypeOK, NEW k \in 0 .. Len(log), Shows(window, log, k)
    PROVE  Shows(Added(c), Append(log, c), k)
<1> DEFINE lg == Append(log, c)
           N == Len(log) - k
<1>1. c \in Cycle /\ log \in Seq(Cycle) /\ window.samples = FlattenSeq(SamplesFrom(log, k))
      /\ window.counters = CountersFrom(log, k)
  BY DEF TypeOK, WindowOK, Shows
<1>2. /\ Len(log) \in Nat /\ N \in Nat /\ Len(lg) = Len(log) + 1 /\ Len(lg) - k = N + 1
      /\ \A n \in 1 .. N : lg[k + n] = log[k + n]
      /\ lg[k + (N + 1)] = c
  BY <1>1
<1> HIDE DEF lg, N
<1>3. Samples(c) \in Seq(Entry) /\ Counter(c) \in CounterType
  BY <1>1, CycleParts
<1>4. /\ SamplesFrom(log, k) \in Seq(Seq(Entry)) /\ Len(SamplesFrom(log, k)) = N
      /\ CountersFrom(log, k) \in Seq(CounterType) /\ Len(CountersFrom(log, k)) = N
  BY <1>1, FromTypes DEF N
<1>5. SamplesFrom(lg, k) = Append(SamplesFrom(log, k), Samples(c))
  <2> DEFINE a == SamplesFrom(log, k)
             S == Seq(Entry)
             b == Append(a, Samples(c))
  <2>1. \A n \in 1 .. N : a[n] = Samples(log[k + n])
    BY DEF SamplesFrom, N
  <2>2. a \in Seq(S) /\ Len(a) = N /\ Samples(c) \in S
    BY <1>3, <1>4
  <2> HIDE DEF a, S
  <2>3. /\ b = [n \in 1 .. N + 1 |-> b[n]] /\ b[N + 1] = Samples(c)
        /\ \A n \in 1 .. N : b[n] = a[n]
    BY <2>2, AppendIs
  <2> HIDE DEF b
  <2>4. \A n \in 1 .. N + 1 : b[n] = Samples(lg[k + n])
    <3> SUFFICES ASSUME NEW n \in 1 .. N + 1
                 PROVE  b[n] = Samples(lg[k + n])
      OBVIOUS
    <3>1. CASE n = N + 1
      BY <1>2, <2>3, <3>1
    <3>2. CASE n \in 1 .. N
      BY <1>2, <2>1, <2>3, <3>2
    <3> QED
      BY <1>2, <3>1, <3>2
  <2>5. b = [n \in 1 .. N + 1 |-> Samples(lg[k + n])]
    BY <2>3, <2>4
  <2>6. SamplesFrom(lg, k) = b
    BY <1>2, <2>5 DEF SamplesFrom
  <2> QED
    BY <2>6 DEF b, a
<1>6. CountersFrom(lg, k) = Append(CountersFrom(log, k), Counter(c))
  <2> DEFINE a == CountersFrom(log, k)
             b == Append(a, Counter(c))
  <2>1. \A n \in 1 .. N : a[n] = Counter(log[k + n])
    BY DEF CountersFrom, N
  <2>2. a \in Seq(CounterType) /\ Len(a) = N
    BY <1>4
  <2> HIDE DEF a
  <2>3. /\ b = [n \in 1 .. N + 1 |-> b[n]] /\ b[N + 1] = Counter(c)
        /\ \A n \in 1 .. N : b[n] = a[n]
    <3>1. a \in Seq(CounterType) /\ Counter(c) \in CounterType
      BY <1>3, <2>2
    <3>2. /\ b = [n \in 1 .. Len(a) + 1 |-> b[n]] /\ b[Len(a) + 1] = Counter(c)
          /\ \A n \in 1 .. Len(a) : b[n] = a[n]
      BY <3>1, AppendIs
    <3> QED
      BY <2>2, <3>2
  <2> HIDE DEF b
  <2>4. \A n \in 1 .. N + 1 : b[n] = Counter(lg[k + n])
    <3> SUFFICES ASSUME NEW n \in 1 .. N + 1
                 PROVE  b[n] = Counter(lg[k + n])
      OBVIOUS
    <3>1. CASE n = N + 1
      BY <1>2, <2>3, <3>1
    <3>2. CASE n \in 1 .. N
      BY <1>2, <2>1, <2>3, <3>2
    <3> QED
      BY <1>2, <3>1, <3>2
  <2>5. b = [n \in 1 .. N + 1 |-> Counter(lg[k + n])]
    BY <2>3, <2>4
  <2>6. CountersFrom(lg, k) = b
    BY <1>2, <2>5 DEF CountersFrom
  <2> QED
    BY <2>6 DEF b, a
<1>7. FlattenSeq(SamplesFrom(lg, k)) = window.samples \o Samples(c)
  BY <1>1, <1>3, <1>4, <1>5, FlattenAppend
<1>8. Shows(Added(c), lg, k)
  BY <1>1, <1>6, <1>7 DEF Shows, Added
<1> QED
  BY <1>8 DEF lg

\* expire drops whole cycles, the stale ones, and no other.
LEMMA ExpireShows ==
    ASSUME now \in Nat, NEW w, NEW lg \in Seq(Cycle), InOrder(lg), NEW k \in 0 .. Len(lg),
           Shows(w, lg, k), \A n \in 1 .. k : ~Recent(lg[n])
    PROVE  \E j \in 0 .. Len(lg) : /\ Shows(ExpiredWindow(w), lg, j)
                                   /\ \A n \in 1 .. Len(lg) : Recent(lg[n]) <=> n > j
<1> DEFINE cs == CountersFrom(lg, k)
           N == Len(lg) - k
<1>1. /\ Len(lg) \in Nat /\ N \in Nat /\ k \in Nat /\ cs \in Seq(CounterType) /\ Len(cs) = N
      /\ cs = [n \in 1 .. N |-> Counter(lg[k + n])]
      /\ \A n \in 1 .. Len(lg) : lg[n] \in Cycle
  <2>1. cs = [n \in 1 .. N |-> Counter(lg[k + n])]
    BY DEF CountersFrom
  <2>2. /\ Len(lg) \in Nat /\ N \in Nat /\ k \in Nat
        /\ \A n \in 1 .. Len(lg) : lg[n] \in Cycle
    OBVIOUS
  <2>3. cs \in Seq(CounterType) /\ Len(cs) = N
    BY FromTypes
  <2> HIDE DEF cs, N
  <2> QED
    BY <2>1, <2>2, <2>3
<1>2. Dur \in Nat
  BY ProbeAssumption
<1>3. \A cyc \in Cycle : Recent(cyc) <=> Fresh(Counter(cyc))
  BY CycleParts DEF Recent, Fresh
<1> HIDE DEF cs, N
<1>4. PICK first \in 1 .. N + 1 : /\ Expired(cs) = SubSeq(cs, first, N)
                                  /\ first =< N => Fresh(cs[first])
                                  /\ \A m \in 1 .. first - 1 : ~Fresh(cs[m])
  BY <1>1, ExpiredIs
<1> DEFINE j == k + first - 1
<1>5. /\ j \in 0 .. Len(lg) /\ j \in Nat /\ Len(lg) - j = N - first + 1
      /\ first = j - k + 1 /\ k =< j
  BY <1>1, <1>4 DEF N
<1> HIDE DEF j
<1>6. \A n \in 1 .. Len(lg) : Recent(lg[n]) <=> n > j
  <2>1. \A n \in 1 .. N : Fresh(cs[n]) <=> Recent(lg[k + n])
    <3>1. \A n \in 1 .. N : cs[n] = Counter(lg[k + n]) /\ k + n \in 1 .. Len(lg)
      BY <1>1 DEF N
    <3> QED
      BY <1>1, <1>3, <3>1
  <2>2. ASSUME NEW n \in 1 .. Len(lg), n =< j
        PROVE  ~Recent(lg[n])
    <3>1. CASE n =< k
      BY <3>1
    <3>2. CASE ~(n =< k)
      <4>1. n - k \in 1 .. first - 1 /\ n - k \in 1 .. N /\ k + (n - k) = n
        BY <1>1, <1>4, <1>5, <2>2, <3>2
      <4> QED
        BY <1>4, <2>1, <4>1
    <3> QED
      BY <3>1, <3>2
  <2>3. ASSUME NEW n \in 1 .. Len(lg), n > j
        PROVE  Recent(lg[n])
    <3>1. first \in 1 .. N /\ k + first = j + 1 /\ j + 1 \in 1 .. Len(lg)
      BY <1>1, <1>4, <1>5, <2>3 DEF N
    <3>2. Recent(lg[j + 1])
      BY <1>4, <2>1, <3>1
    <3>3. lg[j + 1].start =< lg[n].start
      <4>1. CASE n = j + 1
        BY <1>1, <4>1, CycleParts
      <4>2. CASE j + 1 < n
        BY <3>1, <4>2 DEF InOrder
      <4> QED
        BY <1>5, <2>3, <4>1, <4>2
    <3>4. lg[j + 1].start \in Nat /\ lg[n].start \in Nat
      BY <1>1, <3>1, CycleParts
    <3> QED
      BY <1>2, <3>2, <3>3, <3>4 DEF Recent
  <2> QED
    BY <1>5, <2>2, <2>3
<1>7. Expired(w.counters) = CountersFrom(lg, j)
  <2>1. CountersFrom(lg, j) = [n \in 1 .. N - first + 1 |-> Counter(lg[j + n])]
    BY <1>5 DEF CountersFrom
  <2>2. SubSeq(cs, first, N) = [n \in 1 .. N - first + 1 |-> cs[first + n - 1]]
    BY <1>1, <1>4
  <2>3. \A n \in 1 .. N - first + 1 : cs[first + n - 1] = Counter(lg[j + n])
    <3>1. \A n \in 1 .. N - first + 1 : /\ first + n - 1 \in 1 .. N
                                        /\ k + (first + n - 1) = j + n
      BY <1>1, <1>4, <1>5
    <3> QED
      BY <1>1, <3>1
  <2>4. w.counters = cs
    BY DEF Shows, cs
  <2> QED
    BY <1>4, <2>1, <2>2, <2>3, <2>4
<1> DEFINE S == Seq(Entry)
           ss == SamplesFrom(lg, k)
           a == SubSeq(ss, 1, j - k)
           b == SamplesFrom(lg, j)
<1>8. /\ ss \in Seq(S) /\ Len(ss) = N /\ \A n \in 1 .. N : ss[n] = Samples(lg[k + n])
      /\ b \in Seq(S) /\ Len(b) = Len(lg) - j
      /\ \A n \in 1 .. Len(lg) - j : b[n] = Samples(lg[j + n])
  BY <1>5, FromTypes DEF SamplesFrom, N
<1> HIDE DEF S, ss, b
<1>9. /\ a \in Seq(S) /\ Len(a) = j - k /\ \A n \in 1 .. j - k : a[n] = ss[n]
  <2>1. j - k \in 0 .. N
    BY <1>1, <1>5 DEF N
  <2> QED
    BY <1>8, <2>1
<1> HIDE DEF a
<1>10. ss = a \o b
  <2>1. /\ a \o b \in Seq(S) /\ Len(a \o b) = N
        /\ \A n \in 1 .. j - k : (a \o b)[n] = a[n]
        /\ \A n \in 1 .. Len(lg) - j : (a \o b)[(j - k) + n] = b[n]
    <3>1. (j - k) + (Len(lg) - j) = N
      BY <1>1, <1>5 DEF N
    <3>2. /\ a \o b \in Seq(S) /\ Len(a \o b) = Len(a) + Len(b)
          /\ \A n \in 1 .. Len(a) : (a \o b)[n] = a[n]
          /\ \A n \in 1 .. Len(b) : (a \o b)[Len(a) + n] = b[n]
      <4>1. a \in Seq(S) /\ b \in Seq(S)
        BY <1>8, <1>9
      <4> QED
        BY <4>1, JoinIs
    <3> QED
      BY <1>8, <1>9, <3>1, <3>2
  <2>2. ASSUME NEW n \in 1 .. N
        PROVE  (a \o b)[n] = ss[n]
    <3>1. CASE n =< j - k
      <4>1. n \in 1 .. j - k
        BY <1>5, <3>1
      <4> QED
        BY <1>9, <2>1, <4>1
    <3>2. CASE ~(n =< j - k)
      <4> DEFINE m == n - (j - k)
      <4>1. m \in 1 .. Len(lg) - j /\ j + m = k + n /\ (j - k) + m = n
        BY <1>1, <1>5, <3>2 DEF N
      <4> HIDE DEF m
      <4>2. (a \o b)[n] = b[m] /\ b[m] = Samples(lg[j + m])
        BY <1>8, <2>1, <4>1
      <4> QED
        BY <1>8, <4>1, <4>2
    <3> QED
      BY <3>1, <3>2
  <2> QED
    BY <1>8, <2>1, <2>2, SameSeq
<1>11. FlattenSeq(ss) = FlattenSeq(a) \o FlattenSeq(b)
  BY <1>8, <1>9, <1>10, FlattenSplit DEF S
<1> DEFINE Old == {e \in Entry : ~Fresh(e)}
           New == {e \in Entry : Fresh(e)}
<1>12. FlattenSeq(a) \in Seq(Old)
  <2>1. ASSUME NEW n \in 1 .. j - k
        PROVE  a[n] \in Seq(Old)
    <3>1. n \in 1 .. N /\ k + n \in 1 .. Len(lg) /\ ~(k + n > j)
      BY <1>1, <1>5 DEF N
    <3>2. a[n] = Samples(lg[k + n]) /\ lg[k + n] \in Cycle /\ ~Recent(lg[k + n])
      BY <1>1, <1>6, <1>8, <1>9, <3>1
    <3> QED
      BY <3>2, CycleFresh
  <2>2. a \in Seq(Seq(Old))
    <3> DEFINE T == Seq(Old)
    <3>1. a \in Seq(S) /\ \A n \in 1 .. Len(a) : a[n] \in T
      BY <1>5, <1>9, <2>1
    <3> HIDE DEF T
    <3>2. a \in Seq(T)
      BY <3>1
    <3> QED
      BY <3>2 DEF T
  <2> QED
    BY <2>2, FlattenType
<1>13. FlattenSeq(b) \in Seq(New)
  <2>1. ASSUME NEW n \in 1 .. Len(lg) - j
        PROVE  b[n] \in Seq(New)
    <3>1. j + n \in 1 .. Len(lg) /\ j + n > j
      BY <1>1, <1>5
    <3>2. b[n] = Samples(lg[j + n]) /\ lg[j + n] \in Cycle /\ Recent(lg[j + n])
      BY <1>1, <1>6, <1>8, <3>1
    <3> QED
      BY <3>2, CycleFresh
  <2>2. b \in Seq(Seq(New))
    <3> DEFINE T == Seq(New)
    <3>1. b \in Seq(S) /\ \A n \in 1 .. Len(b) : b[n] \in T
      BY <1>5, <1>8, <2>1
    <3> HIDE DEF T
    <3>2. b \in Seq(T)
      BY <3>1
    <3> QED
      BY <3>2 DEF T
  <2> QED
    BY <2>2, FlattenType
<1>14. Expired(w.samples) = FlattenSeq(b)
  <2>1. w.samples = FlattenSeq(a) \o FlattenSeq(b)
    BY <1>11 DEF Shows, ss
  <2> DEFINE x == FlattenSeq(a)
             y == FlattenSeq(b)
  <2>2. /\ x \in Seq(Entry) /\ y \in Seq(Entry)
        /\ \A n \in 1 .. Len(x) : ~Fresh(x[n])
        /\ \A n \in 1 .. Len(y) : Fresh(y[n])
    <3>1. Old \subseteq Entry /\ New \subseteq Entry
      OBVIOUS
    <3>2. (\A e \in Old : ~Fresh(e)) /\ (\A e \in New : Fresh(e))
      OBVIOUS
    <3> HIDE DEF Old, New, x, y
    <3>3. x \in Seq(Old) /\ y \in Seq(New)
      BY <1>12, <1>13 DEF x, y
    <3> QED
      BY <3>1, <3>2, <3>3, SeqMore
  <2> HIDE DEF x, y
  <2>3. Expired(x \o y) = y
    BY <2>2, ExpiredSplit
  <2> QED
    BY <2>1, <2>3 DEF x, y
<1>15. Shows(ExpiredWindow(w), lg, j)
  BY <1>7, <1>14 DEF Shows, ExpiredWindow, b
<1> QED
  BY <1>5, <1>6, <1>15

-----------------------------------------------------------------------------
(* The invariant of the window.                                             *)

\* Cycles follow one another, though two may begin at the same time.
Follow ==
    /\ InOrder(log) /\ c.start =< now
    /\ \A n \in 1 .. Len(log) : /\ log[n].start =< now
                                /\ at # "idle" => log[n].start =< c.start

\* The window shows the last cycles, and what it has dropped is stale.
Shown ==
    \E k \in 0 .. Len(log) : /\ Shows(window, log, k)
                             /\ \A n \in 1 .. k : ~Recent(log[n])

Ascends(r) == \A m \in 1 .. Len(r) - 1 : r[m].seq < r[m + 1].seq

\* The samples of a cycle are in send order: those of UDP carry the numbers of
\* their packets, those of TCP that of their connection, the last one begun.
Sorted ==
    /\ \A s \in DOMAIN got : got[s].seq = s
    /\ Ascends(c.rtt)
    /\ \A m \in 1 .. Len(c.rtt) : /\ at = "sending" => c.rtt[m].seq =< i
                                  /\ at = "connected" => c.rtt[m].seq < i
    /\ \A n \in 1 .. Len(log) : Ascends(log[n].rtt)

LEMMA LogTypes ==
    ASSUME TypeOK
    PROVE  /\ now \in Nat /\ c \in Cycle /\ c.start \in Nat /\ log \in Seq(Cycle)
           /\ Len(log) \in Nat /\ \A n \in 1 .. Len(log) : log[n].start \in Nat
<1>1. now \in Nat /\ c \in Cycle /\ log \in Seq(Cycle)
  BY DEF TypeOK, TaskOK, WindowOK
<1>2. Len(log) \in Nat /\ \A n \in 1 .. Len(log) : log[n] \in Cycle
  BY <1>1
<1> QED
  BY <1>1, <1>2, CycleParts

LEMMA FollowPreserved ==
    ASSUME TypeOK, Sums, Follow, [Next]_vars
    PROVE  Follow'
<1>1. /\ now \in Nat /\ c \in Cycle /\ c.start \in Nat /\ log \in Seq(Cycle)
      /\ \A n \in 1 .. Len(log) : log[n].start \in Nat
  BY LogTypes
<1>2. CASE Finish
  <2>1. /\ at = "done" /\ at' = "idle" /\ now' = now
        /\ log' = Append(log, c) /\ c'.start = 0
    BY <1>2 DEF Finish, NewCycle, NoCycle, clock
  <2>2. /\ Len(log) \in Nat /\ Len(log') = Len(log) + 1 /\ log'[Len(log) + 1] = c
        /\ \A n \in 1 .. Len(log) : log'[n] = log[n]
    BY <1>1, <2>1
  <2>3. \A n \in 1 .. Len(log') : n = Len(log) + 1 \/ n \in 1 .. Len(log)
    BY <2>2
  <2>4. InOrder(log')
    <3> SUFFICES ASSUME NEW m \in 1 .. Len(log'), NEW n \in 1 .. Len(log'), m < n
                 PROVE  log'[m].start =< log'[n].start
      BY DEF InOrder
    <3>1. m \in 1 .. Len(log)
      BY <2>2
    <3> QED
      BY <2>1, <2>2, <2>3, <3>1 DEF Follow, InOrder
  <2>5. \A n \in 1 .. Len(log') : log'[n].start =< now
    BY <2>1, <2>2, <2>3 DEF Follow
  <2> QED
    BY <1>1, <2>1, <2>4, <2>5 DEF Follow
<1>3. ASSUME NEW k \in Kind, Begin(k)
      PROVE  Follow'
  <2>1. UNCHANGED <<now, log>> /\ c'.start = now
    BY <1>1, <1>3 DEF Begin, clock, Cycle
  <2> QED
    BY <1>1, <2>1 DEF Follow
<1>4. CASE Tick
  <2>1. UNCHANGED <<log, c, at>> /\ now' = now + 1
    BY <1>4 DEF Tick, cycle
  <2> QED
    BY <1>1, <2>1 DEF Follow
<1>5. ASSUME UNCHANGED <<now, log>>, c'.start = c.start, at' # "idle" => at # "idle"
      PROVE  Follow'
  BY <1>5 DEF Follow
<1>6. CASE \/ Send \/ Receive \/ ReceivingEnds \/ ReadFails \/ Dial \/ Succeeds \/ Fails
  <2>1. UNCHANGED <<now, log>> /\ c'.start = c.start
    BY <1>1, <1>6 DEF Send, Receive, ReceivingEnds, ReadFails, Collect, Dial, Succeeds, Fails,
                      AttemptEnds, clock, Cycle
  <2>2. at # "idle"
    BY <1>6 DEF Send, Receive, ReceivingEnds, ReadFails, Dial, Succeeds, Fails, Going
  <2> QED
    BY <1>5, <2>1, <2>2
<1>7. CASE \/ DialFails \/ SendFails \/ SendingEnds \/ Read \/ ReadStats \/ Cancel
           \/ (\E s \in Seqs : Arrive(s)) \/ UNCHANGED vars
  <2>1. UNCHANGED <<now, log, c>> /\ (at' = at \/ at # "idle")
    BY <1>7 DEF DialFails, SendFails, SendingEnds, Read, ReadStats, Cancel, Arrive, vars,
                clock, cycle
  <2> QED
    BY <1>5, <2>1
<1> QED
  BY <1>2, <1>3, <1>4, <1>6, <1>7 DEF Next

LEMMA ShownPreserved ==
    ASSUME TypeOK, TypeOK', Follow, Follow', Shown, [Next]_vars
    PROVE  Shown'
<1>1. /\ now \in Nat /\ Dur \in Nat /\ log \in Seq(Cycle) /\ log' \in Seq(Cycle) /\ c \in Cycle
      /\ \A n \in 1 .. Len(log) : log[n].start \in Nat
  <2>1. log' \in Seq(Cycle)
    BY DEF TypeOK, WindowOK
  <2> QED
    BY <2>1, LogTypes, ProbeAssumption
<1>2. PICK k \in 0 .. Len(log) : /\ Shows(window, log, k)
                                 /\ \A n \in 1 .. k : ~Recent(log[n])
  BY DEF Shown
<1>3. CASE Finish
  <2>1. now' = now /\ log' = Append(log, c) /\ window' = ExpiredWindow(Added(c))
    BY <1>3 DEF Finish, clock
  <2>2. k \in 0 .. Len(log') /\ \A n \in 1 .. k : log'[n] = log[n]
    BY <1>1, <2>1
  <2>3. Shows(Added(c), log', k)
    BY <1>2, <2>1, AddShows
  <2>4. \A n \in 1 .. k : ~Recent(log'[n])
    BY <1>2, <2>2
  <2>5. InOrder(log')
    BY DEF Follow
  <2>6. PICK j \in 0 .. Len(log') : /\ Shows(ExpiredWindow(Added(c)), log', j)
                                    /\ \A n \in 1 .. Len(log') : Recent(log'[n]) <=> n > j
    BY <1>1, <2>2, <2>3, <2>4, <2>5, ExpireShows
  <2>7. \A n \in 1 .. j : n \in 1 .. Len(log') /\ ~(n > j)
    BY <1>1
  <2> QED
    BY <2>1, <2>6, <2>7 DEF Shown, Recent
<1>4. CASE ReadStats
  <2>1. UNCHANGED <<now, log>> /\ window' = ExpiredWindow(window)
    BY <1>4 DEF ReadStats, clock
  <2>2. InOrder(log)
    BY DEF Follow
  <2>3. PICK j \in 0 .. Len(log) : /\ Shows(ExpiredWindow(window), log, j)
                                   /\ \A n \in 1 .. Len(log) : Recent(log[n]) <=> n > j
    BY <1>1, <1>2, <2>2, ExpireShows
  <2>4. \A n \in 1 .. j : n \in 1 .. Len(log) /\ ~(n > j)
    BY <1>1
  <2> QED
    BY <2>1, <2>3, <2>4 DEF Shown, Recent
<1>5. CASE Tick
  <2>1. UNCHANGED <<window, log>> /\ now' = now + 1
    BY <1>5 DEF Tick
  <2>2. Shows(window', log', k) /\ k \in 0 .. Len(log')
    BY <1>2, <2>1
  <2>3. ASSUME NEW n \in 1 .. k
        PROVE  ~Recent(log[n])'
    <3>1. log[n].start \in Nat /\ ~(log[n].start >= now - Dur)
      BY <1>1, <1>2 DEF Recent
    <3>2. ~(log[n].start >= (now + 1) - Dur)
      BY <1>1, <3>1
    <3> QED
      BY <2>1, <3>2 DEF Recent
  <2> QED
    BY <2>2, <2>3 DEF Shown
<1>6. CASE UNCHANGED <<now, window, log>>
  BY <1>6 DEF Shown, Recent
<1>7. CASE \/ Send \/ Receive \/ ReceivingEnds \/ ReadFails \/ Dial \/ Succeeds \/ Fails
           \/ DialFails \/ SendFails \/ SendingEnds \/ Read \/ Cancel
           \/ (\E k1 \in Kind : Begin(k1)) \/ (\E s \in Seqs : Arrive(s)) \/ UNCHANGED vars
  <2>1. UNCHANGED <<now, window, log>>
    BY <1>7 DEF Send, Receive, ReceivingEnds, ReadFails, Collect, Dial, Succeeds, Fails,
                AttemptEnds, DialFails, SendFails, SendingEnds, Read, Cancel, Begin, Arrive,
                vars, clock
  <2> QED
    BY <1>6, <2>1
<1> QED
  BY <1>3, <1>4, <1>5, <1>7 DEF Next

\* A higher rank is a higher number.
LEMMA NthAscends ==
    ASSUME NEW S \in SUBSET Nat, IsFiniteSet(S), NEW m \in 1 .. Cardinality(S) - 1
    PROVE  Nth(S, m) < Nth(S, m + 1)
<1>1. m \in 1 .. Cardinality(S) /\ m + 1 \in 1 .. Cardinality(S) /\ m \in Nat
  BY NthRank
<1> DEFINE x == Nth(S, m)
           y == Nth(S, m + 1)
<1>2. x \in S /\ y \in S /\ Rank(S, x) = m /\ Rank(S, y) = m + 1
  BY <1>1, NthRank
<1> HIDE DEF x, y
<1>3. ~(y =< x)
  <2> SUFFICES ASSUME y =< x
               PROVE  FALSE
    OBVIOUS
  <2> DEFINE A == {t \in S : t =< x}
             B == {t \in S : t =< y}
  <2>1. B \subseteq A /\ A \subseteq S
    <3>1. \A t \in S : t =< y => t =< x
      BY <1>2
    <3> QED
      BY <3>1
  <2>2. IsFiniteSet(A) /\ Cardinality(B) =< Cardinality(A)
    BY <2>1, FS_Subset
  <2>3. Rank(S, x) = Cardinality(A) /\ Rank(S, y) = Cardinality(B)
    BY DEF Rank
  <2> HIDE DEF A, B
  <2> QED
    BY <1>1, <1>2, <2>2, <2>3
<1>4. x < y
  BY <1>2, <1>3
<1> QED
  BY <1>4 DEF x, y

LEMMA CollectSorted ==
    ASSUME TypeOK, Sorted, Collect
    PROVE  Sorted'
<1>1. /\ c \in Cycle /\ UNCHANGED <<got, log>> /\ at' = "done" /\ c'.rtt = Collected
  BY DEF TypeOK, Collect, Cycle
<1> DEFINE S == DOMAIN got
<1>2. S \in SUBSET Nat /\ IsFiniteSet(S) /\ Len(Collected) = Cardinality(S)
  BY Finite, CollectedIs
<1>3. Cardinality(S) \in Nat /\ \A n \in 1 .. Cardinality(S) : Nth(S, n) \in S
  BY <1>2, NthRank
<1>4. \A n \in 1 .. Cardinality(S) : Collected[n].seq = Nth(S, n)
  <2>1. \A n \in 1 .. Cardinality(S) : Collected[n] = got[Nth(S, n)]
    BY DEF Collected
  <2> QED
    BY <1>3, <2>1 DEF Sorted
<1>5. Ascends(Collected)
  <2> SUFFICES ASSUME NEW m \in 1 .. Len(Collected) - 1
               PROVE  Collected[m].seq < Collected[m + 1].seq
    BY DEF Ascends
  <2> HIDE DEF S
  <2>1. m \in 1 .. Cardinality(S) - 1 /\ m \in 1 .. Cardinality(S) /\ m + 1 \in 1 .. Cardinality(S)
    BY <1>2, <1>3
  <2> QED
    BY <1>2, <1>4, <2>1, NthAscends
<1> QED
  BY <1>1, <1>5 DEF Sorted

LEMMA ReceiveSorted ==
    ASSUME TypeOK, Sorted, Receive
    PROVE  Sorted'
<1> DEFINE m == Head(buffer)
<1>1. /\ at = "receiving" /\ UNCHANGED <<at, log>>
      /\ got' = got \/ got' = Put(got, m.seq, Sample(m))
  BY DEF Receive, clock
<1>2. c'.rtt = c.rtt
  BY DEF Receive, TypeOK, Cycle
<1>3. Sample(m).seq = m.seq
  BY DEF Sample
<1> HIDE DEF m
<1>4. \A s \in DOMAIN got' : got'[s].seq = s
  BY <1>1, <1>3 DEF Sorted, Put
<1> QED
  BY <1>1, <1>2, <1>4 DEF Sorted

LEMMA SucceedsSorted ==
    ASSUME TypeOK, Sorted, Succeeds
    PROVE  Sorted'
<1> DEFINE m == [seq |-> i, rtt |-> now - conn.since, wire |-> now - conn.since]
<1>1. /\ c \in Cycle /\ c.rtt \in Seq(SampleType) /\ i \in Nat
  BY DEF TypeOK, TaskOK, Cycle
<1>2. m \in SampleType /\ m.seq = i
  BY DEF TypeOK, TaskOK, ConnOK, SampleType
<1>3. /\ at = "connected" /\ at' = "sending" /\ UNCHANGED <<i, got, log>>
      /\ c'.rtt = Append(c.rtt, m)
  BY <1>1 DEF Succeeds, AttemptEnds, Cycle
<1> HIDE DEF m
<1>4. /\ Len(c.rtt) \in Nat /\ Len(c'.rtt) = Len(c.rtt) + 1 /\ c'.rtt[Len(c.rtt) + 1] = m
      /\ \A n \in 1 .. Len(c.rtt) : c'.rtt[n] = c.rtt[n] /\ c.rtt[n].seq < i /\ c.rtt[n].seq \in Nat
  <2>1. /\ Len(c.rtt) \in Nat /\ Len(c'.rtt) = Len(c.rtt) + 1 /\ c'.rtt[Len(c.rtt) + 1] = m
        /\ \A n \in 1 .. Len(c.rtt) : c'.rtt[n] = c.rtt[n] /\ c.rtt[n] \in SampleType
    BY <1>1, <1>2, <1>3
  <2>2. \A e \in SampleType : e.seq \in Nat
    BY DEF SampleType
  <2> QED
    BY <1>3, <2>1, <2>2 DEF Sorted
<1>5. Ascends(c'.rtt)
  <2> SUFFICES ASSUME NEW n \in 1 .. Len(c'.rtt) - 1
               PROVE  c'.rtt[n].seq < c'.rtt[n + 1].seq
    BY DEF Ascends
  <2>1. CASE n = Len(c.rtt)
    BY <1>2, <1>4, <2>1
  <2>2. CASE n \in 1 .. Len(c.rtt) - 1
    <3>1. n \in 1 .. Len(c.rtt) /\ n + 1 \in 1 .. Len(c.rtt)
      BY <1>4, <2>2
    <3> QED
      BY <1>4, <2>2, <3>1 DEF Sorted, Ascends
  <2> QED
    BY <1>4, <2>1, <2>2
<1>6. \A n \in 1 .. Len(c'.rtt) : c'.rtt[n].seq =< i
  <2>1. \A n \in 1 .. Len(c'.rtt) : n \in 1 .. Len(c.rtt) \/ n = Len(c.rtt) + 1
    BY <1>4
  <2> QED
    BY <1>1, <1>2, <1>4, <2>1
<1> QED
  BY <1>3, <1>5, <1>6 DEF Sorted

LEMMA SortedPreserved ==
    ASSUME TypeOK, Sums, Sorted, [Next]_vars
    PROVE  Sorted'
<1>1. c \in Cycle /\ i \in Nat /\ log \in Seq(Cycle)
  BY DEF TypeOK, TaskOK, WindowOK
<1>2. \A m \in 1 .. Len(c.rtt) : c.rtt[m].seq \in Nat
  <2>1. c.rtt \in Seq(SampleType)
    BY <1>1 DEF Cycle
  <2>2. \A m \in 1 .. Len(c.rtt) : c.rtt[m] \in SampleType
    BY <2>1
  <2> QED
    BY <2>2 DEF SampleType
<1>3. CASE Finish
  <2>1. /\ log' = Append(log, c) /\ c'.rtt = <<>> /\ DOMAIN got' = {}
    BY <1>3 DEF Finish, NewCycle, NoCycle
  <2>2. /\ Len(log) \in Nat /\ Len(log') = Len(log) + 1 /\ log'[Len(log) + 1] = c
        /\ \A n \in 1 .. Len(log) : log'[n] = log[n]
    BY <1>1, <2>1
  <2>3. \A n \in 1 .. Len(log') : n \in 1 .. Len(log) \/ n = Len(log) + 1
    BY <2>2
  <2>4. \A n \in 1 .. Len(log') : Ascends(log'[n].rtt)
    BY <2>2, <2>3 DEF Sorted
  <2>5. Len(c'.rtt) = 0
    BY <2>1
  <2> QED
    BY <2>1, <2>4, <2>5 DEF Sorted, Ascends
<1>4. ASSUME NEW k \in Kind, Begin(k)
      PROVE  Sorted'
  <2>1. /\ UNCHANGED <<got, log>> /\ c'.rtt = <<>>
    BY <1>1, <1>4 DEF Begin, Sums, NoCycle
  <2>2. Len(c'.rtt) = 0
    BY <2>1
  <2> QED
    BY <2>1, <2>2 DEF Sorted, Ascends
<1>5. CASE Send \/ SendFails
  <2>1. /\ UNCHANGED <<at, got, log>> /\ c'.rtt = c.rtt /\ i' = i + 1 /\ at = "sending"
    BY <1>1, <1>5 DEF Send, SendFails, Going, Cycle
  <2> QED
    BY <1>1, <1>2, <2>1 DEF Sorted
<1>6. CASE SendingEnds
  <2>1. UNCHANGED <<got, log, c, i>> /\ at' \in {"receiving", "done"}
    BY <1>6 DEF SendingEnds
  <2> QED
    BY <2>1 DEF Sorted
<1>7. CASE Dial
  <2>1. /\ UNCHANGED <<got, log>> /\ c'.rtt = c.rtt /\ i' = i + 1
        /\ at = "sending" /\ at' = "connected"
    BY <1>1, <1>7 DEF Dial, Going, Cycle
  <2> QED
    BY <1>1, <1>2, <2>1 DEF Sorted
<1>8. CASE Fails
  <2>1. /\ UNCHANGED <<got, log, i>> /\ c'.rtt = c.rtt
        /\ at = "connected" /\ at' = "sending"
    BY <1>1, <1>8 DEF Fails, AttemptEnds, Cycle
  <2> QED
    BY <1>1, <1>2, <2>1 DEF Sorted
<1>9. CASE DialFails
  <2>1. UNCHANGED <<got, log, c, i>> /\ at' = "done"
    BY <1>9 DEF DialFails, cycle
  <2> QED
    BY <2>1 DEF Sorted
<1>10. CASE \/ Read \/ ReadStats \/ Tick \/ Cancel \/ UNCHANGED vars
            \/ \E s \in Seqs : Arrive(s)
  <2>1. UNCHANGED <<at, got, log, c, i>>
    BY <1>10 DEF Read, ReadStats, Tick, Cancel, Arrive, vars, cycle
  <2> QED
    BY <2>1 DEF Sorted
<1>11. CASE ReceivingEnds \/ ReadFails
  BY <1>11, CollectSorted DEF ReceivingEnds, ReadFails
<1> QED
  BY <1>3, <1>4, <1>5, <1>6, <1>7, <1>8, <1>9, <1>10, <1>11, ReceiveSorted, SucceedsSorted
     DEF Next

LEMMA InitWindow == Init => Follow /\ Shown /\ Sorted
<1> SUFFICES ASSUME Init
             PROVE  Follow /\ Shown /\ Sorted
  OBVIOUS
<1>1. /\ log = <<>> /\ Len(log) = 0 /\ now = 0 /\ c.start = 0 /\ c.rtt = <<>>
      /\ Len(c.rtt) = 0 /\ DOMAIN got = {} /\ window.samples = <<>> /\ window.counters = <<>>
  BY DEF Init, NoCycle
<1>2. Follow /\ Sorted
  BY <1>1 DEF Follow, Sorted, InOrder, Ascends
<1>3. SamplesFrom(log, 0) = <<>> /\ CountersFrom(log, 0) = <<>>
  BY <1>1 DEF SamplesFrom, CountersFrom
<1>4. FlattenSeq(<<>>) = <<>>
  BY DEF FlattenSeq
<1>5. Shows(window, log, 0)
  BY <1>1, <1>3, <1>4 DEF Shows
<1>6. Shown
  BY <1>1, <1>5 DEF Shown
<1> QED
  BY <1>2, <1>6

LEMMA ShownExact ==
    ASSUME TypeOK, Follow, Shown, Sorted
    PROVE  WindowExact
<1>1. now \in Nat /\ log \in Seq(Cycle) /\ Len(log) \in Nat
  BY LogTypes
<1>2. PICK k0 \in 0 .. Len(log) : /\ Shows(window, log, k0)
                                  /\ \A n \in 1 .. k0 : ~Recent(log[n])
  BY DEF Shown
<1>3. InOrder(log)
  BY DEF Follow
<1>4. PICK k \in 0 .. Len(log) : /\ Shows(ExpiredWindow(window), log, k)
                                 /\ \A n \in 1 .. Len(log) : Recent(log[n]) <=> n > k
  BY <1>1, <1>2, <1>3, ExpireShows
<1> DEFINE recent == SubSeq(log, k + 1, Len(log))
           w == ExpiredWindow(window)
<1>5. /\ Len(recent) = Len(log) - k /\ DOMAIN recent = 1 .. Len(log) - k
      /\ \A n \in 1 .. Len(log) - k : recent[n] = log[k + n] /\ k + n \in 1 .. Len(log)
  BY <1>1
<1> HIDE DEF recent, w
<1>6. /\ SamplesFrom(log, k) = [n \in 1 .. Len(recent) |-> Samples(recent[n])]
      /\ CountersFrom(log, k) = [n \in 1 .. Len(recent) |-> Counter(recent[n])]
  BY <1>5 DEF SamplesFrom, CountersFrom
<1>7. /\ w.samples = FlattenSeq([n \in 1 .. Len(recent) |-> Samples(recent[n])])
      /\ w.counters = [n \in 1 .. Len(recent) |-> Counter(recent[n])]
  BY <1>4, <1>6 DEF Shows, w
<1>8. \A n \in DOMAIN log : log[n].start >= now - Dur <=> n > k
  BY <1>1, <1>4 DEF Recent
<1>9. \A n \in DOMAIN recent : \A m \in 2 .. Len(recent[n].rtt) :
          recent[n].rtt[m - 1].seq < recent[n].rtt[m].seq
  <2> SUFFICES ASSUME NEW n \in DOMAIN recent, NEW m \in 2 .. Len(recent[n].rtt)
               PROVE  recent[n].rtt[m - 1].seq < recent[n].rtt[m].seq
    OBVIOUS
  <2>1. k + n \in 1 .. Len(log) /\ recent[n] = log[k + n]
    BY <1>5
  <2>2. Len(log[k + n].rtt) \in Nat
    <3>1. log[k + n] \in Cycle
      BY <1>1, <2>1
    <3> QED
      BY <3>1 DEF Cycle
  <2>3. m - 1 \in 1 .. Len(log[k + n].rtt) - 1 /\ (m - 1) + 1 = m
    BY <2>1, <2>2
  <2>4. Ascends(log[k + n].rtt)
    BY <2>1 DEF Sorted
  <2> QED
    BY <2>1, <2>3, <2>4 DEF Ascends
<1> QED
  BY <1>7, <1>8, <1>9 DEF WindowExact, recent, w

\* The statistics are always exactly those of the cycles begun within the
\* window, each in send order, for any length of the window and any cycles.
THEOREM WindowAlwaysExact == Spec => []WindowExact
<1>1. Init => Follow /\ Shown /\ Sorted
  BY InitWindow
<1>2. Counted /\ Counted' /\ Follow /\ Shown /\ Sorted /\ [Next]_vars
        => (Follow /\ Shown /\ Sorted)'
  <2> SUFFICES ASSUME Counted, Counted', Follow, Shown, Sorted, [Next]_vars
               PROVE  (Follow /\ Shown /\ Sorted)'
    OBVIOUS
  <2>1. TypeOK /\ TypeOK' /\ Sums
    BY DEF Counted
  <2>2. Follow' /\ Sorted'
    BY <2>1, FollowPreserved, SortedPreserved
  <2>3. Shown'
    BY <2>1, <2>2, ShownPreserved
  <2> QED
    BY <2>2, <2>3
<1>3. Counted /\ Follow /\ Shown /\ Sorted => WindowExact
  BY ShownExact DEF Counted
<1> QED
  BY <1>1, <1>2, <1>3, AlwaysCounted, PTL DEF Spec

==============================================================================
