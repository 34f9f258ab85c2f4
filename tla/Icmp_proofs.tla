----------------------------- MODULE Icmp_proofs -----------------------------
(* Proofs about the waiters of the ICMP client, for every set of probers,   *)
(* of request IDs and of helper processes; and about the samples of the     *)
(* privileged helper, whose steps are P, for every number of requests, of   *)
(* packets and of sequence numbers.                                         *)
EXTENDS Icmp, PingerState, TLAPS

P == INSTANCE Pinger

(***************************************************************************)
(* The inductive invariant.  Every probe that is under way has an ID of    *)
(* its own; until it is abandoned the ID is in the map or answered, and    *)
(* never both; once it is abandoned the ID is not in the map.              *)
(***************************************************************************)
ProbeType == [at : {"idle", "begun", "registered", "waiting", "abandoning"},
              id : ID \cup {None}, via : Slot \cup {None}]

Types ==
    /\ enc \in Slot \cup {None}
    /\ waiting \subseteq ID /\ answered \subseteq ID
    /\ waiting \cap answered = {}
    /\ probe \in [Prober -> ProbeType]

Underway(p) == probe[p].at \in {"registered", "waiting", "abandoning"}

OwnID ==
    /\ \A p \in Prober : probe[p].id # None <=> Underway(p)
    /\ \A p, q \in Prober : p # q /\ probe[p].id # None => probe[p].id # probe[q].id

Entered ==
    /\ \A p \in Prober : probe[p].at \in {"registered", "waiting"} =>
           probe[p].id \in waiting \cup answered
    /\ \A p \in Prober : probe[p].at = "abandoning" => probe[p].id \notin waiting
    /\ \A id \in waiting \cup answered : \E p \in Prober : probe[p].id = id

IInv == Types /\ OwnID /\ Entered

LEMMA InitIInv ==
    Init => IInv
<1> SUFFICES ASSUME Init
             PROVE  IInv
  OBVIOUS
<1>1. \A p \in Prober : probe[p] = NoProbe
  BY DEF Init
<1>2. NoProbe \in ProbeType /\ NoProbe.at = "idle" /\ NoProbe.id = None
  BY DEF NoProbe, ProbeType
<1>3. Types
  BY <1>2 DEF Init, Types
<1> QED
  BY <1>1, <1>2, <1>3 DEF Init, IInv, OwnID, Underway, Entered

-----------------------------------------------------------------------------
(* The supervisor, the reader and the helper.                               *)

\* Everything that leaves the map and the probes alone.
LEMMA AsideOK ==
    ASSUME IInv, UNCHANGED <<enc, waiting, answered, probe>>
    PROVE  IInv'
BY DEF IInv, Types, OwnID, Underway, Entered

\* A new child breaks the encoders of the slot's earlier one.
LEMMA SessionOK ==
    ASSUME IInv, NEW s \in Slot, Session(s)
    PROVE  IInv'
<1>1. /\ enc' = s /\ UNCHANGED <<waiting, answered>>
      /\ probe' = [p \in Prober |-> [probe[p] EXCEPT !.via = IF @ = s THEN None ELSE @]]
  BY DEF Session
<1>2. \A p \in Prober : /\ probe'[p] \in ProbeType
                        /\ probe'[p].at = probe[p].at
                        /\ probe'[p].id = probe[p].id
  BY <1>1 DEF IInv, Types, ProbeType
<1>3. Types'
  BY <1>1, <1>2 DEF IInv, Types
<1> QED
  BY <1>1, <1>2, <1>3 DEF IInv, OwnID, Underway, Entered

\* Entries that leave the map are answered: one by a result, or all of them.
LEMMA AnsweredOK ==
    ASSUME IInv, NEW S, S \subseteq waiting,
           waiting' = waiting \ S, answered' = answered \cup S,
           UNCHANGED <<enc, probe>>
    PROVE  IInv'
<1>1. /\ waiting' \cup answered' = waiting \cup answered
      /\ waiting' \subseteq waiting
      /\ waiting' \cap answered' = {}
  BY DEF IInv, Types
<1>2. Types'
  BY <1>1 DEF IInv, Types
<1> QED
  BY <1>1, <1>2 DEF IInv, OwnID, Underway, Entered

LEMMA FailAllWaitersOK ==
    ASSUME IInv, FailAllWaiters
    PROVE  IInv'
<1>1. waiting' = waiting \ waiting /\ answered' = answered \cup waiting
  BY DEF FailAllWaiters
<1>2. UNCHANGED <<enc, probe>>
  BY DEF FailAllWaiters
<1> QED
  BY <1>1, <1>2, AnsweredOK

LEMMA HandleResultOK ==
    ASSUME IInv, NEW s \in Slot, HandleResult(s)
    PROVE  IInv'
<1> DEFINE id == reader[s].msg.id
<1>1. /\ waiting' = waiting \ {id} /\ UNCHANGED <<enc, probe>>
      /\ answered' = IF id \in waiting THEN answered \cup {id} ELSE answered
  BY DEF HandleResult
<1> HIDE DEF id
<1>2. /\ waiting' = waiting \ (waiting \cap {id})
      /\ answered' = answered \cup (waiting \cap {id})
  BY <1>1
<1> QED
  BY <1>1, <1>2, AnsweredOK

-----------------------------------------------------------------------------
(* Probe.                                                                   *)

LEMMA ProbeOK ==
    ASSUME IInv, NEW p \in Prober, Probe(p)
    PROVE  IInv'
<1>1. /\ probe' = [probe EXCEPT ![p].at = "begun"] /\ probe[p].at = "idle"
      /\ UNCHANGED <<enc, waiting, answered>>
  BY DEF Probe, Client
<1>2. \A q \in Prober : /\ probe'[q] \in ProbeType
                        /\ probe'[q].id = probe[q].id
                        /\ q # p => probe'[q].at = probe[q].at
  BY <1>1 DEF IInv, Types, ProbeType
<1>3. probe'[p].at = "begun"
  BY <1>1 DEF IInv, Types, ProbeType
<1>4. Types'
  BY <1>1, <1>2 DEF IInv, Types
<1> QED
  BY <1>1, <1>2, <1>3, <1>4 DEF IInv, OwnID, Underway, Entered

\* The ID is one that no other probe has.
LEMMA RegisterOK ==
    ASSUME IInv, NEW p \in Prober, Register(p)
    PROVE  IInv'
<1>1. PICK id \in ID \ InUse :
          /\ waiting' = waiting \cup {id}
          /\ probe' = [probe EXCEPT ![p] = [at |-> "registered", id |-> id, via |-> enc]]
  BY DEF Register
<1>2. probe[p].at = "begun" /\ UNCHANGED <<enc, answered>>
  BY DEF Register
<1>3. /\ id \notin waiting /\ id \notin answered /\ id # None
      /\ \A q \in Prober : probe[q].id # id
  BY NoneAssumption DEF InUse
<1>4. /\ probe'[p].at = "registered" /\ probe'[p].id = id
      /\ \A q \in Prober \ {p} : probe'[q] = probe[q]
      /\ \A q \in Prober : probe'[q] \in ProbeType
  BY <1>1 DEF IInv, Types, ProbeType
<1>5. Types'
  BY <1>1, <1>2, <1>3, <1>4 DEF IInv, Types
<1>6. OwnID'
  BY <1>2, <1>3, <1>4 DEF IInv, OwnID, Underway
<1>7. Entered'
  <2>1. probe[p].id = None
    BY <1>2 DEF IInv, OwnID, Underway
  <2>2. \A i \in waiting \cup answered : i # None
    BY NoneAssumption DEF IInv, Types
  <2> QED
    BY <1>1, <1>2, <1>3, <1>4, <2>1, <2>2 DEF IInv, Entered
<1> QED
  BY <1>5, <1>6, <1>7 DEF IInv

\* A probe that ends takes its ID out of the map and of the answers.
LEMMA OverOK ==
    ASSUME IInv, NEW p \in Prober, Over(p),
           waiting' = waiting \ {probe[p].id}, UNCHANGED enc
    PROVE  IInv'
<1>1. /\ probe' = [probe EXCEPT ![p] = NoProbe]
      /\ answered' = answered \ {probe[p].id}
  BY DEF Over
<1>2. /\ probe'[p].at = "idle" /\ probe'[p].id = None
      /\ \A q \in Prober \ {p} : probe'[q] = probe[q]
      /\ \A q \in Prober : probe'[q] \in ProbeType
  BY <1>1 DEF IInv, Types, ProbeType, NoProbe
<1>3. Types'
  BY <1>1, <1>2 DEF IInv, Types
<1>4. OwnID'
  BY <1>2 DEF IInv, OwnID, Underway
<1>5. \A q \in Prober \ {p} : Underway(q) => probe[q].id # probe[p].id
  BY DEF IInv, OwnID
<1>6. Entered'
  BY <1>1, <1>2, <1>5 DEF IInv, Entered, Underway
<1> QED
  BY <1>3, <1>4, <1>6 DEF IInv

LEMMA SendOK ==
    ASSUME IInv, NEW p \in Prober, Send(p)
    PROVE  IInv'
<1>1. CASE probe' = [probe EXCEPT ![p].at = "waiting"]
           /\ UNCHANGED <<enc, waiting, answered>>
  <2>1. \A q \in Prober : /\ probe'[q] \in ProbeType
                          /\ probe'[q].id = probe[q].id
                          /\ q # p => probe'[q].at = probe[q].at
    BY <1>1 DEF IInv, Types, ProbeType
  <2>2. probe'[p].at = "waiting" /\ probe[p].at = "registered"
    BY <1>1 DEF Send, IInv, Types, ProbeType
  <2>3. Types'
    BY <1>1, <2>1 DEF IInv, Types
  <2> QED
    BY <1>1, <2>1, <2>2, <2>3 DEF IInv, OwnID, Underway, Entered
<1>2. CASE waiting' = waiting \ {probe[p].id} /\ Over(p)
  BY <1>2, OverOK DEF Send
<1> QED
  BY <1>1, <1>2 DEF Send

LEMMA ResultOK ==
    ASSUME IInv, NEW p \in Prober, Result(p)
    PROVE  IInv'
<1>1. probe[p].id \in answered /\ Over(p) /\ UNCHANGED <<enc, waiting>>
  BY DEF Result
<1>2. waiting' = waiting \ {probe[p].id}
  BY <1>1 DEF IInv, Types
<1> QED
  BY <1>1, <1>2, OverOK

LEMMA AbandonOK ==
    ASSUME IInv, NEW p \in Prober, Abandon(p)
    PROVE  IInv'
<1>1. /\ probe[p].at = "waiting" /\ waiting' = waiting \ {probe[p].id}
      /\ probe' = [probe EXCEPT ![p].at = "abandoning", ![p].via = enc]
      /\ UNCHANGED <<enc, answered>>
  BY DEF Abandon
<1>2. /\ probe'[p].at = "abandoning" /\ probe'[p].id = probe[p].id
      /\ \A q \in Prober \ {p} : probe'[q] = probe[q]
      /\ \A q \in Prober : probe'[q] \in ProbeType
  BY <1>1 DEF IInv, Types, ProbeType
<1>3. Types'
  BY <1>1, <1>2 DEF IInv, Types
<1>4. \A q \in Prober : probe'[q].id = probe[q].id
  BY <1>2
<1>5. OwnID'
  <2>1. \A q \in Prober : Underway(q)' <=> Underway(q)
    BY <1>1, <1>2 DEF Underway
  <2> QED BY <1>4, <2>1 DEF IInv, OwnID
<1>6. \A q \in Prober \ {p} : Underway(q) => probe[q].id # probe[p].id
  BY DEF IInv, OwnID
<1>7. Entered'
  <2>1. ASSUME NEW q \in Prober
        PROVE  /\ probe'[q].at \in {"registered", "waiting"} =>
                      probe'[q].id \in waiting' \cup answered'
               /\ probe'[q].at = "abandoning" => probe'[q].id \notin waiting'
    <3>1. CASE q = p
      BY <1>1, <1>2, <3>1
    <3>2. CASE q # p
      <4>1. probe'[q] = probe[q]
        BY <1>2, <3>2
      <4>2. probe[q].at \in {"registered", "waiting"} =>
                /\ probe[q].id \in waiting \cup answered
                /\ probe[q].id # probe[p].id
        BY <1>6, <3>2 DEF IInv, Entered, Underway
      <4>3. probe[q].at = "abandoning" => probe[q].id \notin waiting
        BY DEF IInv, Entered
      <4> QED BY <1>1, <4>1, <4>2, <4>3
    <3> QED BY <3>1, <3>2
  <2>2. \A id \in waiting' \cup answered' : \E q \in Prober : probe'[q].id = id
    BY <1>1, <1>4 DEF IInv, Entered
  <2> QED BY <2>1, <2>2 DEF Entered
<1> QED
  BY <1>3, <1>5, <1>7 DEF IInv

LEMMA SendCancelOK ==
    ASSUME IInv, NEW p \in Prober, SendCancel(p)
    PROVE  IInv'
<1>1. probe[p].at = "abandoning" /\ Over(p) /\ UNCHANGED <<enc, waiting>>
  BY DEF SendCancel
<1>2. waiting' = waiting \ {probe[p].id}
  BY <1>1 DEF IInv, Entered
<1> QED
  BY <1>1, <1>2, OverOK

-----------------------------------------------------------------------------
(* The theorem.                                                             *)

LEMMA NextIInv ==
    IInv /\ [Next]_vars => IInv'
<1> SUFFICES ASSUME IInv, [Next]_vars
             PROVE  IInv'
  OBVIOUS
<1>1. ASSUME Supervisor
      PROVE  IInv'
  <2>1. CASE \E s \in Slot : Session(s)
    BY <2>1, SessionOK
  <2>2. CASE FailAllWaiters
    BY <2>2, FailAllWaitersOK
  <2>3. CASE SessionFails \/ HelloTimer \/ Kill \/ Reaped \/ Ended \/ Return
    BY <2>3, AsideOK DEF SessionFails, HelloTimer, Kill, Reaped, Ended, Return, Client
  <2> QED
    BY <1>1, <2>1, <2>2, <2>3 DEF Supervisor
<1>2. ASSUME NEW s \in Slot, HandleResult(s)
      PROVE  IInv'
  BY <1>2, HandleResultOK
<1>3. ASSUME NEW s \in Slot, \/ Take(s) \/ EndOfFile(s) \/ HandleHello(s)
                             \/ Helper(s) \/ Die(s)
                             \/ \E h \in Hello : SayHello(s, h)
      PROVE  IInv'
  BY <1>3, AsideOK
  DEF Take, EndOfFile, HandleHello, Helper, Dispatch, Job, Die, SayHello, Client
<1>4. ASSUME NEW p \in Prober, \/ Probe(p) \/ Register(p) \/ Send(p)
                               \/ Result(p) \/ Abandon(p) \/ SendCancel(p)
      PROVE  IInv'
  BY <1>4, ProbeOK, RegisterOK, SendOK, ResultOK, AbandonOK, SendCancelOK
<1>5. CASE Cancel \/ UNCHANGED vars
  BY <1>5, AsideOK DEF Cancel, Client, vars
<1> QED
  BY <1>1, <1>2, <1>3, <1>4, <1>5 DEF Next, Reader

\* The inductive invariant holds in every reachable state of the client.
THEOREM Inductive == Spec => []IInv
BY InitIInv, NextIInv, PTL DEF Spec

\* No entry of the client's map outlives its probe, and no probe waits with
\* neither an entry nor an answer, whatever the helpers do.
THEOREM WaitersAlwaysMatch == Spec => []WaitersMatch
<1>1. IInv => WaitersMatch
  BY DEF IInv, Entered, WaitersMatch
<1> QED BY Inductive, <1>1, PTL

-----------------------------------------------------------------------------
(* Types.                                                                   *)

ChildType == [alive : BOOLEAN, said : Hello \cup {None},
              jobs : SUBSET ID, stopping : SUBSET ID]
ReaderType == [at : {"none", "reading", "returned"}, msg : {None}]
              \cup [at : {"taken"}, msg : Message]

ControlOK ==
    /\ ctx \in BOOLEAN /\ avail \in BOOLEAN /\ fatal \in BOOLEAN
    /\ cur \in Slot \cup {None}
    /\ run \in {"start", "hello", "wait", "kill", "ended", "fail", "returned"}

PipesOK ==
    /\ child \in [Slot -> ChildType]
    /\ stdin \in [Slot -> Seq(Message)] /\ stdout \in [Slot -> Seq(Message)]
    /\ reader \in [Slot -> ReaderType]

Typed == ControlOK /\ PipesOK

\* What is written to a pipe is a line of the protocol.
LEMMA LineTypes ==
    /\ \A h \in Hello : Msg(h, None) \in Message
    /\ \A id \in ID, type \in {"ping", "cancel", "result"} : Msg(type, id) \in Message
    /\ NoChild \in ChildType /\ NoRead \in ReaderType
BY DEF Msg, Message, NoChild, ChildType, NoRead, ReaderType

LEMMA EmptyPipe ==
    ASSUME NEW f \in [Slot -> Seq(Message)], NEW s
    PROVE  [f EXCEPT ![s] = <<>>] \in [Slot -> Seq(Message)]
<1>1. <<>> \in Seq(Message)
  OBVIOUS
<1>2. ASSUME NEW t \in Slot
      PROVE  [f EXCEPT ![s] = <<>>][t] \in Seq(Message)
  <2>1. CASE t = s
    BY <1>1, <2>1
  <2>2. CASE t # s
    BY <2>2
  <2> QED
    BY <2>1, <2>2
<1> QED
  BY <1>2

LEMMA Appended ==
    ASSUME NEW f \in [Slot -> Seq(Message)], NEW s \in Slot, NEW m \in Message
    PROVE  [f EXCEPT ![s] = Append(@, m)] \in [Slot -> Seq(Message)]
<1>1. Append(f[s], m) \in Seq(Message)
  OBVIOUS
<1> QED
  BY <1>1

LEMMA InitTyped ==
    Init => Typed
<1> SUFFICES ASSUME Init
             PROVE  Typed
  OBVIOUS
<1>1. ControlOK
  <2>1. ctx \in BOOLEAN /\ avail \in BOOLEAN /\ fatal \in BOOLEAN
    BY Zenon DEF Init
  <2> QED
    BY <2>1 DEF Init, ControlOK
<1>2. PipesOK
  BY LineTypes DEF Init, PipesOK
<1> QED
  BY <1>1, <1>2 DEF Typed

LEMMA SupervisorTyped ==
    ASSUME Typed, Supervisor
    PROVE  Typed'
<1>1. ASSUME NEW s \in Slot, Session(s)
      PROVE  Typed'
  <2>1. ControlOK'
    BY <1>1 DEF Typed, ControlOK, Session
  <2>2. child' \in [Slot -> ChildType]
    BY <1>1 DEF Typed, PipesOK, Session, NoChild, ChildType
  <2>3. reader' \in [Slot -> ReaderType]
    BY <1>1 DEF Typed, PipesOK, Session, ReaderType
  <2>4. stdin' \in [Slot -> Seq(Message)] /\ stdout' \in [Slot -> Seq(Message)]
    BY <1>1 DEF Typed, PipesOK, Session
  <2> QED
    BY <2>1, <2>2, <2>3, <2>4 DEF Typed, PipesOK
<1>2. ASSUME SessionFails \/ HelloTimer \/ Ended \/ FailAllWaiters \/ Return
      PROVE  Typed'
  <2>1. ControlOK'
    BY <1>2 DEF Typed, ControlOK, SessionFails, HelloTimer, Ended, FailAllWaiters, Return, Client
  <2>2. UNCHANGED Pipes
    BY <1>2 DEF SessionFails, HelloTimer, Ended, FailAllWaiters, Return
  <2> QED
    BY <2>1, <2>2 DEF Typed, PipesOK, Pipes
<1>3. ASSUME Kill
      PROVE  Typed'
  <2>1. ControlOK'
    BY <1>3 DEF Typed, ControlOK, Kill, Client
  <2>2. child' \in [Slot -> ChildType]
    BY <1>3, LineTypes DEF Typed, PipesOK, Kill
  <2>3. stdin' \in [Slot -> Seq(Message)] /\ stdout' \in [Slot -> Seq(Message)]
    <3>1. stdin' = [stdin EXCEPT ![cur] = <<>>] /\ stdout' = [stdout EXCEPT ![cur] = <<>>]
      BY <1>3 DEF Kill
    <3> QED
      BY <3>1, EmptyPipe DEF Typed, PipesOK
  <2> QED
    BY <1>3, <2>1, <2>2, <2>3 DEF Typed, PipesOK, Kill
<1>4. ASSUME Reaped
      PROVE  Typed'
  <2>1. ControlOK'
    BY <1>4 DEF Typed, ControlOK, Reaped, Client
  <2>2. reader' \in [Slot -> ReaderType]
    BY <1>4, LineTypes DEF Typed, PipesOK, Reaped
  <2> QED
    BY <1>4, <2>1, <2>2 DEF Typed, PipesOK, Reaped
<1> QED
  BY <1>1, <1>2, <1>3, <1>4 DEF Supervisor

LEMMA ReaderTyped ==
    ASSUME Typed, NEW s \in Slot, Reader(s)
    PROVE  Typed'
<1>1. ASSUME Take(s)
      PROVE  Typed'
  <2>1. ControlOK'
    BY <1>1 DEF Typed, ControlOK, Take, Client
  <2>2. Head(stdout[s]) \in Message /\ Tail(stdout[s]) \in Seq(Message)
    BY <1>1 DEF Typed, PipesOK, Take
  <2>3. reader' \in [Slot -> ReaderType] /\ stdout' \in [Slot -> Seq(Message)]
    BY <1>1, <2>2 DEF Typed, PipesOK, Take, ReaderType
  <2> QED
    BY <1>1, <2>1, <2>3 DEF Typed, PipesOK, Take
<1>2. Finished(s) \in ReaderType
  BY DEF Finished, NoRead, ReaderType
<1>3. ASSUME EndOfFile(s)
      PROVE  Typed'
  <2>1. ControlOK'
    BY <1>3 DEF Typed, ControlOK, EndOfFile, Client
  <2>2. reader' \in [Slot -> ReaderType]
    BY <1>2, <1>3 DEF Typed, PipesOK, EndOfFile
  <2> QED
    BY <1>3, <2>1, <2>2 DEF Typed, PipesOK, EndOfFile
<1>4. [at |-> "reading", msg |-> None] \in ReaderType
  BY DEF ReaderType
<1>5. ASSUME HandleHello(s)
      PROVE  Typed'
  <2>1. ControlOK'
    <3>1. avail' \in BOOLEAN /\ fatal' \in BOOLEAN
      BY <1>5, Zenon DEF Typed, ControlOK, HandleHello
    <3> QED
      BY <1>5, <3>1 DEF Typed, ControlOK, HandleHello
  <2>2. reader' \in [Slot -> ReaderType]
    BY <1>2, <1>4, <1>5 DEF Typed, PipesOK, HandleHello
  <2> QED
    BY <1>5, <2>1, <2>2 DEF Typed, PipesOK, HandleHello
<1>6. ASSUME HandleResult(s)
      PROVE  Typed'
  <2>1. ControlOK'
    BY <1>6 DEF Typed, ControlOK, HandleResult
  <2>2. reader' \in [Slot -> ReaderType]
    BY <1>4, <1>6 DEF Typed, PipesOK, HandleResult
  <2> QED
    BY <1>6, <2>1, <2>2 DEF Typed, PipesOK, HandleResult
<1> QED
  BY <1>1, <1>3, <1>5, <1>6 DEF Reader

LEMMA ProberTyped ==
    ASSUME Typed, IInv, NEW p \in Prober,
           \/ Probe(p) \/ Register(p) \/ Send(p)
           \/ Result(p) \/ Abandon(p) \/ SendCancel(p)
    PROVE  Typed'
<1>1. ControlOK'
  BY DEF Typed, ControlOK, Probe, Register, Send, Result, Abandon, SendCancel, Client
<1>2. probe[p].via \in Slot \cup {None} /\ (Underway(p) => probe[p].id \in ID)
  BY DEF IInv, Types, ProbeType, OwnID
<1>3. CASE Send(p) \/ SendCancel(p)
  <2>1. stdin' \in [Slot -> Seq(Message)]
    <3>1. Msg("ping", probe[p].id) \in Message /\ Msg("cancel", probe[p].id) \in Message
      BY <1>2, <1>3, LineTypes DEF Send, SendCancel, Underway
    <3>2. CASE UNCHANGED stdin
      BY <3>2 DEF Typed, PipesOK
    <3>3. ASSUME Open(probe[p].via), NEW m \in Message,
                 stdin' = [stdin EXCEPT ![probe[p].via] = Append(@, m)]
          PROVE  stdin' \in [Slot -> Seq(Message)]
      BY <1>2, <3>3, Appended DEF Typed, PipesOK, Open
    <3>4. CASE Send(p)
      BY <3>1, <3>2, <3>3, <3>4 DEF Send
    <3>5. CASE SendCancel(p)
      BY <3>1, <3>2, <3>3, <3>5 DEF SendCancel
    <3> QED
      BY <1>3, <3>4, <3>5
  <2> QED
    BY <1>1, <1>3, <2>1 DEF Typed, PipesOK, Send, SendCancel
<1>4. CASE Probe(p) \/ Register(p) \/ Result(p) \/ Abandon(p)
  BY <1>1, <1>4 DEF Typed, PipesOK, Probe, Register, Result, Abandon, Pipes
<1> QED
  BY <1>3, <1>4

LEMMA HelperTyped ==
    ASSUME Typed, NEW s \in Slot,
           Helper(s) \/ Die(s) \/ \E h \in Hello : SayHello(s, h)
    PROVE  Typed'
<1>1. ControlOK'
  BY DEF Typed, ControlOK, Helper, Dispatch, Job, Die, SayHello, Client
<1>2. ASSUME Dispatch(s)
      PROVE  Typed'
  <2>1. Head(stdin[s]) \in Message /\ Tail(stdin[s]) \in Seq(Message)
    BY <1>2 DEF Typed, PipesOK, Dispatch
  <2>2. stdin' \in [Slot -> Seq(Message)] /\ reader' = reader
    BY <1>2, <2>1 DEF Typed, PipesOK, Dispatch
  <2>3. CASE Head(stdin[s]).type = "ping"
             /\ child' = [child EXCEPT ![s].jobs = @ \cup {Head(stdin[s]).id}]
             /\ UNCHANGED stdout
    <3>1. Head(stdin[s]).id \in ID
      BY <2>1, <2>3, HelloAssumption DEF Message
    <3>2. child' \in [Slot -> ChildType]
      BY <2>3, <3>1 DEF Typed, PipesOK, ChildType
    <3> QED
      BY <1>1, <2>2, <2>3, <3>2 DEF Typed, PipesOK
  <2>4. CASE Head(stdin[s]).type = "ping"
             /\ stdout' = [stdout EXCEPT ![s] = Append(@, Msg("result", Head(stdin[s]).id))]
             /\ UNCHANGED child
    <3>1. Msg("result", Head(stdin[s]).id) \in Message
      BY <2>1, <2>4, LineTypes, HelloAssumption DEF Message
    <3>2. stdout' \in [Slot -> Seq(Message)]
      BY <2>4, <3>1 DEF Typed, PipesOK
    <3> QED
      BY <1>1, <2>2, <2>4, <3>2 DEF Typed, PipesOK
  <2>5. CASE child' = [child EXCEPT ![s].stopping =
                           @ \cup ({Head(stdin[s]).id} \cap child[s].jobs)]
             /\ UNCHANGED stdout
    <3>1. child' \in [Slot -> ChildType]
      BY <2>5 DEF Typed, PipesOK, ChildType
    <3> QED
      BY <1>1, <2>2, <2>5, <3>1 DEF Typed, PipesOK
  <2> QED
    BY <1>2, <2>3, <2>4, <2>5 DEF Dispatch
<1>3. ASSUME NEW id \in ID, Job(s, id)
      PROVE  Typed'
  <2>1. child' \in [Slot -> ChildType]
    BY <1>3 DEF Typed, PipesOK, ChildType, Job
  <2>2. stdout' \in [Slot -> Seq(Message)]
    <3>1. Msg("result", id) \in Message
      BY LineTypes
    <3> QED
      BY <1>3, <3>1 DEF Typed, PipesOK, Job
  <2> QED
    BY <1>1, <1>3, <2>1, <2>2 DEF Typed, PipesOK, Job
<1>4. ASSUME Die(s)
      PROVE  Typed'
  <2>1. child' \in [Slot -> ChildType] /\ stdin' \in [Slot -> Seq(Message)]
    BY <1>4, LineTypes DEF Typed, PipesOK, Die
  <2> QED
    BY <1>1, <1>4, <2>1 DEF Typed, PipesOK, Die
<1>5. ASSUME NEW h \in Hello, SayHello(s, h)
      PROVE  Typed'
  <2>1. child' \in [Slot -> ChildType]
    <3>1. [child[s] EXCEPT !.said = h] \in ChildType
      BY DEF Typed, PipesOK, ChildType
    <3>2. child' = [child EXCEPT ![s] = [child[s] EXCEPT !.said = h]]
      BY <1>5 DEF SayHello
    <3> QED
      BY <3>1, <3>2 DEF Typed, PipesOK
  <2>2. stdout' \in [Slot -> Seq(Message)]
    <3>1. Msg(h, None) \in Message
      BY LineTypes
    <3> QED
      BY <1>5, <3>1 DEF Typed, PipesOK, SayHello
  <2> QED
    BY <1>1, <1>5, <2>1, <2>2 DEF Typed, PipesOK, SayHello
<1> QED
  BY <1>2, <1>3, <1>4, <1>5 DEF Helper

LEMMA NextTyped ==
    Typed /\ IInv /\ [Next]_vars => Typed'
<1> SUFFICES ASSUME Typed, IInv, [Next]_vars
             PROVE  Typed'
  OBVIOUS
<1>1. CASE Cancel
  <2>1. ControlOK'
    BY <1>1, Zenon DEF Typed, ControlOK, Cancel, Client
  <2> QED
    BY <1>1, <2>1 DEF Typed, PipesOK, Cancel, Pipes
<1>2. CASE UNCHANGED vars
  BY <1>2 DEF Typed, ControlOK, PipesOK, vars
<1> QED
  BY <1>1, <1>2, SupervisorTyped, ReaderTyped, ProberTyped, HelperTyped DEF Next

\* The client, the pipes and the helpers are well typed in every reachable state.
THEOREM TypeCorrect == Spec => []TypeOK
<1>1. Typed /\ IInv => TypeOK
  BY DEF Typed, ControlOK, PipesOK, ChildType, ReaderType, IInv, Types, ProbeType, TypeOK
<1> QED
  BY InitTyped, NextTyped, Inductive, <1>1, PTL DEF Spec

-----------------------------------------------------------------------------
(* The helper never works for nobody.                                       *)

(***************************************************************************)
(* What a pipe q holds; its pings have different IDs; and each of its      *)
(* pings is wanted, its ID being in W, or a cancel follows it.             *)
(***************************************************************************)
Holds(q, type, id) == \E i \in 1..Len(q) : q[i].type = type /\ q[i].id = id

Distinct(q) ==
    \A i, j \in 1..Len(q) :
        q[i].type = "ping" /\ q[j].type = "ping" /\ q[i].id = q[j].id => i = j

Followed(q, W) ==
    \A i \in 1..Len(q) : q[i].type = "ping" =>
        \/ q[i].id \in W
        \/ \E k \in (i + 1)..Len(q) : q[k].type = "cancel" /\ q[k].id = q[i].id

\* A request before its result, on the way to a helper or a job there; the
\* result, before a reader handles it; and the IDs probes wait for at s.
Asked(s, id) == id \in child[s].jobs \/ Holds(stdin[s], "ping", id)

Told(s, id) ==
    \/ Holds(stdout[s], "result", id)
    \/ reader[s].msg \in Message /\ reader[s].msg.type = "result" /\ reader[s].msg.id = id

Wants(s) == {probe[p].id : p \in {o \in Prober : /\ probe[o].at \in {"waiting", "abandoning"}
                                                 /\ probe[o].via = s}}

(***************************************************************************)
(* The inductive invariant.  One child lives at a time, and the encoder    *)
(* writes to it; a request is in one place, and not answered at the same   *)
(* time; before it is sent it is nowhere; and what is asked is wanted, or  *)
(* its cancel is on the way.                                               *)
(***************************************************************************)
Single ==
    /\ run \in {"hello", "wait", "kill"} => cur \in Slot /\ enc = cur
    /\ \A s \in Slot : child[s].alive => s = cur /\ run \in {"hello", "wait", "kill"}
    /\ \A s \in Slot : ~child[s].alive => child[s].jobs = {} /\ stdin[s] = <<>>

Once ==
    /\ \A s \in Slot : /\ Distinct(stdin[s])
                       /\ \A id \in child[s].jobs : ~Holds(stdin[s], "ping", id)
                       /\ child[s].stopping \subseteq child[s].jobs
    /\ \A s \in Slot, id \in ID : Asked(s, id) =>
           id \notin answered /\ \A t \in Slot : ~Told(t, id)

Unsent ==
    \A p \in Prober : probe[p].at = "registered" =>
        \A s \in Slot : /\ ~Asked(s, probe[p].id) /\ ~Told(s, probe[p].id)
                        /\ child[s].alive /\ probe[p].via = s => probe[p].id \in waiting

Owned ==
    \A s \in Slot :
        /\ \A id \in child[s].jobs \ child[s].stopping :
               id \in Wants(s) \/ Holds(stdin[s], "cancel", id)
        /\ Followed(stdin[s], Wants(s))

Base == Typed /\ IInv
JobsInv == Base /\ Single /\ Once /\ Unsent /\ Owned

-----------------------------------------------------------------------------
(* Pipes.                                                                   *)

LEMMA AppendItems ==
    ASSUME NEW q \in Seq(Message), NEW m \in Message
    PROVE  /\ Append(q, m) \in Seq(Message) /\ Len(q) \in Nat
           /\ Len(Append(q, m)) = Len(q) + 1
           /\ \A i \in 1..Len(q) : Append(q, m)[i] = q[i]
           /\ Append(q, m)[Len(q) + 1] = m
OBVIOUS

LEMMA TailItems ==
    ASSUME NEW q \in Seq(Message), q # <<>>
    PROVE  /\ Tail(q) \in Seq(Message) /\ Len(q) \in Nat \ {0}
           /\ Len(Tail(q)) = Len(q) - 1
           /\ \A i \in 1..(Len(q) - 1) : Tail(q)[i] = q[i + 1]
           /\ Head(q) = q[1] /\ Head(q) \in Message
OBVIOUS

LEMMA AppendHolds ==
    ASSUME NEW q \in Seq(Message), NEW m \in Message, NEW type, NEW id
    PROVE  Holds(Append(q, m), type, id) <=>
               Holds(q, type, id) \/ (m.type = type /\ m.id = id)
<1> DEFINE n == Len(q)
           a == Append(q, m)
<1>1. /\ n \in Nat /\ Len(a) = n + 1 /\ a[n + 1] = m
      /\ \A i \in 1..n : a[i] = q[i]
  BY AppendItems
<1>2. Holds(a, type, id) <=> \E i \in 1..Len(a) : a[i].type = type /\ a[i].id = id
  BY DEF Holds
<1>3. Holds(q, type, id) <=> \E i \in 1..n : q[i].type = type /\ q[i].id = id
  BY DEF Holds
<1> HIDE DEF n, a
<1>4. 1..Len(a) = (1..n) \cup {n + 1}
  BY <1>1
<1>5. (\E i \in 1..Len(a) : a[i].type = type /\ a[i].id = id) <=>
          \/ \E i \in 1..n : a[i].type = type /\ a[i].id = id
          \/ a[n + 1].type = type /\ a[n + 1].id = id
  BY <1>4
<1> QED
  BY <1>1, <1>2, <1>3, <1>5 DEF a

LEMMA TailHolds ==
    ASSUME NEW q \in Seq(Message), q # <<>>, NEW type, NEW id
    PROVE  Holds(q, type, id) <=>
               Holds(Tail(q), type, id) \/ (Head(q).type = type /\ Head(q).id = id)
<1> DEFINE n == Len(q)
           t == Tail(q)
<1>1. /\ n \in Nat \ {0} /\ Len(t) = n - 1 /\ Head(q) = q[1]
      /\ \A i \in 1..(n - 1) : t[i] = q[i + 1]
  BY TailItems
<1>2. Holds(q, type, id) <=> \E i \in 1..n : q[i].type = type /\ q[i].id = id
  BY DEF Holds
<1>3. Holds(t, type, id) <=> \E i \in 1..(n - 1) : t[i].type = type /\ t[i].id = id
  BY <1>1 DEF Holds
<1> HIDE DEF n, t
<1>4. ASSUME NEW i \in 1..n, q[i].type = type, q[i].id = id, i # 1
      PROVE  \E j \in 1..(n - 1) : t[j].type = type /\ t[j].id = id
  <2>1. i - 1 \in 1..(n - 1) /\ t[i - 1] = q[i]
    BY <1>1, <1>4
  <2> QED
    BY <1>4, <2>1
<1>5. ASSUME NEW j \in 1..(n - 1), t[j].type = type, t[j].id = id
      PROVE  \E i \in 1..n : q[i].type = type /\ q[i].id = id
  <2>1. j + 1 \in 1..n /\ t[j] = q[j + 1]
    BY <1>1, <1>5
  <2> QED
    BY <1>5, <2>1
<1>6. 1 \in 1..n
  BY <1>1
<1> QED
  BY <1>1, <1>2, <1>3, <1>4, <1>5, <1>6 DEF t

LEMMA EmptyHolds ==
    /\ \A type, id : ~Holds(<<>>, type, id)
    /\ Distinct(<<>>) /\ \A W : Followed(<<>>, W)
BY DEF Holds, Distinct, Followed

LEMMA AppendDistinct ==
    ASSUME NEW q \in Seq(Message), NEW m \in Message, Distinct(q),
           m.type = "ping" => ~Holds(q, "ping", m.id)
    PROVE  Distinct(Append(q, m))
<1> DEFINE n == Len(q)
           a == Append(q, m)
<1>1. /\ n \in Nat /\ Len(a) = n + 1 /\ a[n + 1] = m
      /\ \A i \in 1..n : a[i] = q[i]
  BY AppendItems
<1>2. \A i, j \in 1..n :
          q[i].type = "ping" /\ q[j].type = "ping" /\ q[i].id = q[j].id => i = j
  BY DEF Distinct
<1>3. m.type = "ping" => \A i \in 1..n : ~(q[i].type = "ping" /\ q[i].id = m.id)
  BY DEF Holds
<1> HIDE DEF n, a
<1>4. \A i, j \in 1..Len(a) :
          a[i].type = "ping" /\ a[j].type = "ping" /\ a[i].id = a[j].id => i = j
  <2>1. \A i \in 1..Len(a) : i \in 1..n \/ i = n + 1
    BY <1>1
  <2> QED
    BY <1>1, <1>2, <1>3, <2>1
<1> QED
  BY <1>4 DEF Distinct, a

LEMMA TailDistinct ==
    ASSUME NEW q \in Seq(Message), q # <<>>, Distinct(q)
    PROVE  /\ Distinct(Tail(q))
           /\ Head(q).type = "ping" => ~Holds(Tail(q), "ping", Head(q).id)
<1> DEFINE n == Len(q)
           t == Tail(q)
<1>1. /\ n \in Nat \ {0} /\ Len(t) = n - 1 /\ Head(q) = q[1]
      /\ \A i \in 1..(n - 1) : t[i] = q[i + 1]
  BY TailItems
<1>2. \A i, j \in 1..n :
          q[i].type = "ping" /\ q[j].type = "ping" /\ q[i].id = q[j].id => i = j
  BY DEF Distinct
<1> HIDE DEF n, t
<1>3. \A i \in 1..(n - 1) : i + 1 \in 1..n /\ i + 1 # 1
  BY <1>1
<1>4. Distinct(t)
  <2>1. ASSUME NEW i \in 1..(n - 1), NEW j \in 1..(n - 1),
               t[i].type = "ping", t[j].type = "ping", t[i].id = t[j].id
        PROVE  i = j
    <3>1. i + 1 = j + 1
      BY <1>1, <1>2, <1>3, <2>1
    <3> QED
      BY <3>1
  <2> QED
    BY <1>1, <2>1 DEF Distinct
<1>5. Head(q).type = "ping" => ~Holds(t, "ping", Head(q).id)
  <2>1. 1 \in 1..n
    BY <1>1
  <2> QED
    BY <1>1, <1>2, <1>3, <2>1 DEF Holds
<1> QED
  BY <1>4, <1>5 DEF t

LEMMA FollowedMore ==
    ASSUME NEW q \in Seq(Message), NEW W, NEW V, Followed(q, W),
           \A id \in W : Holds(q, "ping", id) => id \in V
    PROVE  Followed(q, V)
BY DEF Followed, Holds

LEMMA FollowedAppend ==
    ASSUME NEW q \in Seq(Message), NEW m \in Message, NEW W, NEW V, Followed(q, W),
           \A id \in W : id \in V \/ (m.type = "cancel" /\ m.id = id),
           m.type = "ping" => m.id \in V
    PROVE  Followed(Append(q, m), V)
<1> DEFINE n == Len(q)
           a == Append(q, m)
<1>1. /\ n \in Nat /\ Len(a) = n + 1 /\ a[n + 1] = m
      /\ \A i \in 1..n : a[i] = q[i]
  BY AppendItems
<1>2. \A i \in 1..n : q[i].type = "ping" =>
          \/ q[i].id \in W
          \/ \E k \in (i + 1)..n : q[k].type = "cancel" /\ q[k].id = q[i].id
  BY DEF Followed
<1> HIDE DEF n, a
<1>3. ASSUME NEW i \in 1..Len(a), a[i].type = "ping"
      PROVE  \/ a[i].id \in V
             \/ \E k \in (i + 1)..Len(a) : a[k].type = "cancel" /\ a[k].id = a[i].id
  <2>1. CASE i = n + 1
    BY <1>1, <1>3, <2>1
  <2>2. CASE i \in 1..n
    <3>1. a[i] = q[i] /\ n + 1 \in (i + 1)..Len(a)
      BY <1>1, <2>2
    <3>2. \A k \in (i + 1)..n : k \in (i + 1)..Len(a) /\ a[k] = q[k]
      BY <1>1, <2>2
    <3> QED
      BY <1>1, <1>2, <1>3, <2>2, <3>1, <3>2
  <2> QED
    BY <1>1, <2>1, <2>2
<1> QED
  BY <1>3 DEF Followed, a

LEMMA FollowedTail ==
    ASSUME NEW q \in Seq(Message), q # <<>>, NEW W, Followed(q, W)
    PROVE  /\ Followed(Tail(q), W)
           /\ Head(q).type = "ping" =>
                  Head(q).id \in W \/ Holds(Tail(q), "cancel", Head(q).id)
<1> DEFINE n == Len(q)
           t == Tail(q)
<1>1. /\ n \in Nat \ {0} /\ Len(t) = n - 1 /\ Head(q) = q[1]
      /\ \A i \in 1..(n - 1) : t[i] = q[i + 1]
  BY TailItems
<1>2. \A i \in 1..n : q[i].type = "ping" =>
          \/ q[i].id \in W
          \/ \E k \in (i + 1)..n : q[k].type = "cancel" /\ q[k].id = q[i].id
  BY DEF Followed
<1> HIDE DEF n, t
<1>3. Followed(t, W)
  <2>1. ASSUME NEW i \in 1..(n - 1), t[i].type = "ping"
        PROVE  \/ t[i].id \in W
               \/ \E k \in (i + 1)..(n - 1) : t[k].type = "cancel" /\ t[k].id = t[i].id
    <3>1. i + 1 \in 1..n /\ t[i] = q[i + 1]
      BY <1>1
    <3>2. \A k \in (i + 1 + 1)..n : /\ k - 1 \in (i + 1)..(n - 1)
                                    /\ t[k - 1] = q[k]
      BY <1>1
    <3> QED
      BY <1>2, <2>1, <3>1, <3>2
  <2> QED
    BY <1>1, <2>1 DEF Followed
<1>4. Head(q).type = "ping" => Head(q).id \in W \/ Holds(t, "cancel", Head(q).id)
  <2>1. 1 \in 1..n /\ \A k \in (1 + 1)..n : k - 1 \in 1..(n - 1) /\ t[k - 1] = q[k]
    BY <1>1
  <2>2. ASSUME Head(q).type = "ping", Head(q).id \notin W
        PROVE  \E k \in 1..(n - 1) : t[k].type = "cancel" /\ t[k].id = Head(q).id
    <3>1. PICK k \in (1 + 1)..n : q[k].type = "cancel" /\ q[k].id = Head(q).id
      BY <1>1, <1>2, <2>1, <2>2
    <3> QED
      BY <2>1, <3>1
  <2> QED
    BY <1>1, <2>2 DEF Holds
<1> QED
  BY <1>3, <1>4 DEF t

-----------------------------------------------------------------------------
(* What the steps have in common.                                           *)

LEMMA NextBase ==
    Base /\ [Next]_vars => Base'
BY NextIInv, NextTyped DEF Base

\* Only the living child is asked anything, and the encoder writes to it.
LEMMA AskedAlive ==
    ASSUME Single, NEW s \in Slot, NEW id, Asked(s, id)
    PROVE  child[s].alive /\ s = cur /\ enc = s /\ run \in {"hello", "wait", "kill"}
<1>1. child[s].jobs # {} \/ stdin[s] # <<>>
  BY EmptyHolds DEF Asked
<1> QED
  BY <1>1 DEF Single

LEMMA OneAlive ==
    ASSUME Single, NEW s \in Slot, child[s].alive, NEW t \in Slot, t # s
    PROVE  ~child[t].alive /\ child[t].jobs = {} /\ stdin[t] = <<>>
BY DEF Single

\* The probe that waits has an ID, and no other probe has it.
LEMMA WantsIDs ==
    ASSUME Base, NEW s \in Slot
    PROVE  Wants(s) \subseteq ID
BY DEF Base, IInv, Types, OwnID, Underway, ProbeType, Wants

\* A step that leaves what the helpers have read and are sent alone.
LEMMA JobsAside ==
    ASSUME JobsInv, Base', Single', Unsent', UNCHANGED <<child, stdin>>,
           \A t \in Slot, id \in ID : Told(t, id)' => Told(t, id),
           \A id \in answered' \ answered, t \in Slot : ~Asked(t, id),
           \A t \in Slot : \A id \in Wants(t) : Asked(t, id) => id \in Wants(t)'
    PROVE  JobsInv'
<1>1. \A t \in Slot, id \in ID : Asked(t, id)' <=> Asked(t, id)
  BY DEF Asked
<1>2. Once'
  BY <1>1 DEF JobsInv, Once
<1>3. Owned'
  <2> SUFFICES ASSUME NEW s \in Slot
               PROVE  /\ \A id \in child[s].jobs \ child[s].stopping :
                             id \in Wants(s)' \/ Holds(stdin[s], "cancel", id)
                      /\ Followed(stdin[s], Wants(s)')
    BY DEF Owned
  <2>1. \A id \in Wants(s) : Holds(stdin[s], "ping", id) => id \in Wants(s)'
    BY DEF Asked
  <2>2. stdin[s] \in Seq(Message)
    BY DEF JobsInv, Base, Typed, PipesOK
  <2>3. Followed(stdin[s], Wants(s)')
    BY <2>1, <2>2, FollowedMore DEF JobsInv, Owned
  <2> QED
    BY <2>3 DEF JobsInv, Owned, Asked
<1> QED
  BY <1>2, <1>3 DEF JobsInv

\* A step of the living child s, or one that writes to it.
LEMMA JobsAt ==
    ASSUME JobsInv, Base', Single', Unsent', NEW s \in Slot, child[s].alive,
           \A t \in Slot \ {s} : child'[t] = child[t] /\ stdin'[t] = stdin[t],
           Distinct(stdin'[s]),
           \A id \in child'[s].jobs : ~Holds(stdin'[s], "ping", id),
           child'[s].stopping \subseteq child'[s].jobs,
           \A id \in ID : Asked(s, id)' =>
               id \notin answered' /\ \A t \in Slot : ~Told(t, id)',
           \A id \in child'[s].jobs \ child'[s].stopping :
               id \in Wants(s)' \/ Holds(stdin'[s], "cancel", id),
           Followed(stdin'[s], Wants(s)')
    PROVE  JobsInv'
<1>1. \A t \in Slot \ {s} : /\ child'[t].jobs = {} /\ child'[t] = child[t]
                            /\ stdin'[t] = <<>>
  BY OneAlive DEF JobsInv
<1>2. \A t \in Slot \ {s}, id \in ID : ~Asked(t, id)'
  BY <1>1, EmptyHolds DEF Asked
<1>3. Once'
  <2>1. \A t \in Slot \ {s} : child'[t].stopping \subseteq child'[t].jobs
    BY <1>1 DEF JobsInv, Once
  <2>2. \A t \in Slot : /\ Distinct(stdin'[t])
                        /\ \A id \in child'[t].jobs : ~Holds(stdin'[t], "ping", id)
                        /\ child'[t].stopping \subseteq child'[t].jobs
    BY <1>1, <2>1, EmptyHolds
  <2>3. \A t \in Slot, id \in ID : Asked(t, id)' =>
            id \notin answered' /\ \A u \in Slot : ~Told(u, id)'
    BY <1>2
  <2> QED
    BY <2>2, <2>3 DEF Once
<1>4. Owned'
  <2>1. \A t \in Slot :
            /\ \A id \in child'[t].jobs \ child'[t].stopping :
                   id \in Wants(t)' \/ Holds(stdin'[t], "cancel", id)
            /\ Followed(stdin'[t], Wants(t)')
    BY <1>1, EmptyHolds
  <2> QED
    BY <2>1 DEF Owned
<1> QED
  BY <1>3, <1>4 DEF JobsInv

\* Nothing is sent or asked anew, and no ID that is registered leaves the map
\* while its encoder is good.
LEMMA UnsentKept ==
    ASSUME JobsInv,
           \A t \in Slot : \A id :
               (\E p \in Prober : probe[p].at = "registered" /\ probe[p].id = id) =>
                   (Asked(t, id)' => Asked(t, id)) /\ (Told(t, id)' => Told(t, id)),
           \A t \in Slot : child'[t].alive => child[t].alive,
           \A p \in Prober : probe'[p].at = "registered" =>
               /\ probe'[p] = probe[p]
               /\ \A t \in Slot : child'[t].alive /\ probe[p].via = t =>
                      (probe[p].id \in waiting => probe[p].id \in waiting')
    PROVE  Unsent'
<1> SUFFICES ASSUME NEW p \in Prober, probe'[p].at = "registered", NEW t \in Slot,
                    NEW id, id = probe'[p].id
             PROVE  /\ ~Asked(t, id)' /\ ~Told(t, id)'
                    /\ child'[t].alive /\ probe'[p].via = t => id \in waiting'
  BY DEF Unsent
<1> QED
  BY DEF JobsInv, Unsent

-----------------------------------------------------------------------------
(* The supervisor and the readers.                                          *)

\* Steps that leave the pipes and the probes alone.
LEMMA StillJobs ==
    ASSUME JobsInv, Base', Single', UNCHANGED <<child, stdin, probe>>,
           \A t \in Slot, id \in ID : Told(t, id)' => Told(t, id),
           \A id \in answered' \ answered, t \in Slot : ~Asked(t, id),
           \A p \in Prober, t \in Slot :
               probe[p].at = "registered" /\ child[t].alive /\ probe[p].via = t =>
                   (probe[p].id \in waiting => probe[p].id \in waiting')
    PROVE  JobsInv'
<1>1. \A t \in Slot : Wants(t)' = Wants(t)
  BY DEF Wants
<1>2. \A t \in Slot : \A id : Asked(t, id)' <=> Asked(t, id)
  BY DEF Asked
<1>3. \A p \in Prober : probe[p].at = "registered" => probe[p].id \in ID
  BY DEF JobsInv, Base, IInv, Types, OwnID, Underway, ProbeType
<1>4. Unsent'
  BY <1>2, <1>3, UnsentKept
<1> QED
  BY <1>1, <1>4, JobsAside

LEMMA SessionJobs ==
    ASSUME JobsInv, Base', NEW s \in Slot, Session(s)
    PROVE  JobsInv'
<1>1. /\ child'  = [child  EXCEPT ![s] = [NoChild EXCEPT !.alive = TRUE]]
      /\ stdin'  = [stdin  EXCEPT ![s] = <<>>]
      /\ stdout' = [stdout EXCEPT ![s] = <<>>]
      /\ reader' = [reader EXCEPT ![s].at = "reading"]
      /\ probe'  = [p \in Prober |-> [probe[p] EXCEPT !.via = IF @ = s THEN None ELSE @]]
      /\ run = "start" /\ run' = "hello" /\ cur' = s /\ enc' = s
      /\ UNCHANGED <<waiting, answered>>
  BY DEF Session
<1>2. child \in [Slot -> ChildType] /\ reader \in [Slot -> ReaderType]
      /\ stdin \in [Slot -> Seq(Message)] /\ stdout \in [Slot -> Seq(Message)]
      /\ probe \in [Prober -> ProbeType]
  BY DEF JobsInv, Base, Typed, PipesOK, IInv, Types
<1>3. \A t \in Slot : ~child[t].alive /\ child[t].jobs = {} /\ stdin[t] = <<>>
                      /\ child[t].stopping = {}
  BY <1>1 DEF JobsInv, Single, Once
<1>4. /\ \A t \in Slot : /\ child'[t].jobs = {} /\ stdin'[t] = <<>>
                         /\ child'[t].stopping = {}
      /\ \A t \in Slot : child'[t].alive <=> t = s
  BY <1>1, <1>2, <1>3 DEF NoChild
<1>5. \A t \in Slot : \A id : ~Asked(t, id)'
  BY <1>4, EmptyHolds DEF Asked
<1>6. \A t \in Slot : \A id : Told(t, id)' => Told(t, id)
  <2>1. \A t \in Slot : stdout'[t] = stdout[t] \/ stdout'[t] = <<>>
    BY <1>1, <1>2
  <2>2. \A t \in Slot : reader'[t].msg = reader[t].msg
    BY <1>1, <1>2 DEF ReaderType
  <2> QED
    BY <2>1, <2>2, EmptyHolds DEF Told
<1>7. Single'
  BY <1>1, <1>4 DEF Single
<1>8. \A p \in Prober : /\ probe'[p].at = probe[p].at /\ probe'[p].id = probe[p].id
                        /\ probe'[p].via # s
  BY <1>1, <1>2, NoneAssumption DEF ProbeType
<1>9. Unsent'
  <2>1. \A p \in Prober : probe'[p].at = "registered" =>
            \A t \in Slot : ~Told(t, probe[p].id)'
    <3> SUFFICES ASSUME NEW p \in Prober, probe'[p].at = "registered", NEW t \in Slot
                 PROVE  ~Told(t, probe[p].id)'
      OBVIOUS
    <3>1. ~Told(t, probe[p].id)
      BY <1>8 DEF JobsInv, Unsent
    <3>2. ASSUME NEW id, id = probe[p].id
          PROVE  ~Told(t, id)'
      BY <1>6, <3>1, <3>2
    <3> QED
      BY <1>8, <3>2
  <2>2. \A p \in Prober : probe'[p].at = "registered" =>
            \A t \in Slot : ~Asked(t, probe[p].id)'
    BY <1>5
  <2> QED
    BY <1>4, <1>8, <2>1, <2>2 DEF Unsent
<1>10. Once'
  BY <1>4, <1>5, EmptyHolds DEF Once
<1>11. Owned'
  BY <1>4, EmptyHolds DEF Owned
<1> QED
  BY <1>7, <1>9, <1>10, <1>11 DEF JobsInv

\* A child that is gone, with its jobs and what it was sent; what it wrote is
\* read, or lost with it.
LEMMA GoneJobs ==
    ASSUME JobsInv, Base', NEW s \in Slot,
           child' = [child EXCEPT ![s] = NoChild], stdin' = [stdin EXCEPT ![s] = <<>>],
           \A t \in Slot : stdout'[t] = stdout[t] \/ stdout'[t] = <<>>,
           UNCHANGED <<enc, waiting, answered, cur, probe, reader>>,
           \/ run' = run
           \/ s = cur /\ run' = "ended"
    PROVE  JobsInv'
<1>1. child \in [Slot -> ChildType] /\ stdin \in [Slot -> Seq(Message)]
  BY DEF JobsInv, Base, Typed, PipesOK
<1>2. /\ child'[s] = NoChild /\ stdin'[s] = <<>>
      /\ \A t \in Slot \ {s} : child'[t] = child[t] /\ stdin'[t] = stdin[t]
  BY <1>1
<1>3. ~child'[s].alive /\ child'[s].jobs = {} /\ child'[s].stopping = {}
  BY <1>2 DEF NoChild
<1>4. Single'
  BY <1>2, <1>3 DEF JobsInv, Single
<1>5. \A t \in Slot : \A id : Asked(t, id)' => Asked(t, id)
  BY <1>2, <1>3, EmptyHolds DEF Asked
<1>6. \A t \in Slot : \A id : Told(t, id)' => Told(t, id)
  BY EmptyHolds DEF Told
<1>7. \A t \in Slot : Wants(t)' = Wants(t)
  BY DEF Wants
<1>8. Unsent'
  BY <1>2, <1>3, <1>5, <1>6, UnsentKept
<1>9. Once'
  <2>1. \A t \in Slot : /\ Distinct(stdin'[t])
                        /\ \A id \in child'[t].jobs : ~Holds(stdin'[t], "ping", id)
                        /\ child'[t].stopping \subseteq child'[t].jobs
    BY <1>2, <1>3, EmptyHolds DEF JobsInv, Once
  <2>2. \A t \in Slot, id \in ID : Asked(t, id)' =>
            id \notin answered' /\ \A u \in Slot : ~Told(u, id)'
    BY <1>5, <1>6 DEF JobsInv, Once
  <2> QED
    BY <2>1, <2>2 DEF Once
<1>10. Owned'
  <2>1. \A t \in Slot :
            /\ \A id \in child'[t].jobs \ child'[t].stopping :
                   id \in Wants(t)' \/ Holds(stdin'[t], "cancel", id)
            /\ Followed(stdin'[t], Wants(t)')
    BY <1>2, <1>3, <1>7, EmptyHolds DEF JobsInv, Owned
  <2> QED
    BY <2>1 DEF Owned
<1> QED
  BY <1>4, <1>8, <1>9, <1>10 DEF JobsInv

LEMMA SupervisorJobs ==
    ASSUME JobsInv, Base', Supervisor
    PROVE  JobsInv'
<1>1. CASE SessionFails \/ HelloTimer \/ Ended \/ Return
  <2>1. UNCHANGED <<child, stdin, stdout, reader, probe, waiting, answered, enc, cur>>
    BY <1>1 DEF SessionFails, HelloTimer, Ended, Return, Client, Pipes
  <2>2. Single'
    BY <1>1, <2>1 DEF JobsInv, Single, SessionFails, HelloTimer, Ended, Return
  <2>3. \A t \in Slot : \A id : Told(t, id)' <=> Told(t, id)
    BY <2>1 DEF Told
  <2> QED
    BY <2>1, <2>2, <2>3, StillJobs
<1>2. CASE Reaped
  <2>1. UNCHANGED <<child, stdin, stdout, probe, waiting, answered, enc, cur>>
    BY <1>2 DEF Reaped, Client
  <2>2. Single'
    BY <1>2, <2>1 DEF JobsInv, Single, Reaped
  <2>3. \A t \in Slot : \A id : Told(t, id)' => Told(t, id)
    <3>1. \A t \in Slot : reader'[t] = reader[t] \/ reader'[t] = NoRead
      BY <1>2 DEF Reaped, JobsInv, Base, Typed, PipesOK
    <3> QED
      BY <2>1, <3>1, NoneAssumption DEF Told, NoRead
  <2> QED
    BY <2>1, <2>2, <2>3, StillJobs
<1>3. CASE FailAllWaiters
  <2>1. /\ UNCHANGED <<child, stdin, stdout, reader, probe, enc, cur>> /\ run = "fail"
        /\ run' \in {"start", "returned"}
    BY <1>3 DEF FailAllWaiters, Pipes
  <2>2. \A t \in Slot : ~child[t].alive
    BY <2>1 DEF JobsInv, Single
  <2>3. Single'
    BY <2>1, <2>2 DEF JobsInv, Single
  <2>4. \A t \in Slot : \A id : (Told(t, id)' <=> Told(t, id)) /\ ~Asked(t, id)
    BY <2>1, <2>2, AskedAlive DEF Told, JobsInv
  <2> QED
    BY <2>1, <2>2, <2>3, <2>4, StillJobs
<1>4. CASE Kill
  <2>1. cur \in Slot
    BY <1>4 DEF Kill, JobsInv, Single
  <2>2. \A t \in Slot : stdout'[t] = stdout[t] \/ stdout'[t] = <<>>
    BY <1>4 DEF Kill, JobsInv, Base, Typed, PipesOK
  <2> QED
    BY <1>4, <2>1, <2>2, GoneJobs DEF Kill, Client
<1>5. CASE \E s \in Slot : Session(s)
  BY <1>5, SessionJobs
<1> QED
  BY <1>1, <1>2, <1>3, <1>4, <1>5 DEF Supervisor

LEMMA ReaderJobs ==
    ASSUME JobsInv, Base', NEW s \in Slot, Reader(s)
    PROVE  JobsInv'
<1>1. UNCHANGED <<child, stdin, probe, enc, cur, run>>
  BY DEF Reader, Take, EndOfFile, HandleHello, HandleResult, Client
<1>2. Single'
  BY <1>1 DEF JobsInv, Single
<1>3. reader \in [Slot -> ReaderType] /\ stdout \in [Slot -> Seq(Message)]
  BY DEF JobsInv, Base, Typed, PipesOK
<1>4. None \notin Message
  BY NoneAssumption
<1>5. CASE Take(s)
  <2>1. /\ reader' = [reader EXCEPT ![s] = [at |-> "taken", msg |-> Head(stdout[s])]]
        /\ stdout' = [stdout EXCEPT ![s] = Tail(@)] /\ stdout[s] # <<>>
        /\ UNCHANGED <<waiting, answered>>
    BY <1>5 DEF Take, Client
  <2>2. /\ reader'[s].msg = Head(stdout[s]) /\ stdout'[s] = Tail(stdout[s])
        /\ \A t \in Slot \ {s} : reader'[t] = reader[t] /\ stdout'[t] = stdout[t]
    BY <1>3, <2>1
  <2>3. \A id : Told(s, id)' => Told(s, id)
    BY <1>3, <2>1, <2>2, TailHolds DEF Told
  <2>4. \A t \in Slot : \A id : Told(t, id)' => Told(t, id)
    BY <2>2, <2>3 DEF Told
  <2> QED
    BY <1>1, <1>2, <2>1, <2>4, StillJobs
<1>6. CASE EndOfFile(s) \/ HandleHello(s)
  <2>1. UNCHANGED <<stdout, waiting, answered>>
    BY <1>6 DEF EndOfFile, HandleHello, Client
  <2>2. \A t \in Slot : reader'[t] = reader[t] \/ reader'[t].msg = None
    <3>1. Finished(s).msg = None
      BY DEF Finished, NoRead
    <3> DEFINE again == [at |-> "reading", msg |-> None]
    <3>2. \/ reader' = [reader EXCEPT ![s] = Finished(s)]
          \/ reader' = [reader EXCEPT ![s] = again]
      BY <1>6 DEF EndOfFile, HandleHello
    <3>3. again.msg = None
      OBVIOUS
    <3> HIDE DEF again
    <3> QED
      BY <1>3, <3>1, <3>2, <3>3
  <2>3. \A t \in Slot : \A id : Told(t, id)' => Told(t, id)
    BY <1>4, <2>1, <2>2 DEF Told
  <2> QED
    BY <1>1, <1>2, <2>1, <2>3, StillJobs
<1>7. CASE HandleResult(s)
  <2> DEFINE m == reader[s].msg
  <2>1. /\ m.type = "result" /\ reader[s].at = "taken" /\ UNCHANGED stdout
        /\ waiting' = waiting \ {m.id}
        /\ answered' \subseteq answered \cup (waiting \cap {m.id})
        /\ reader' = [reader EXCEPT ![s] = [at |-> "reading", msg |-> None]]
    BY <1>7 DEF HandleResult
  <2>2. \A t \in Slot : reader'[t] = reader[t] \/ reader'[t].msg = None
    BY <1>3, <2>1
  <2>3. \A t \in Slot : \A id : Told(t, id)' => Told(t, id)
    BY <1>4, <2>1, <2>2 DEF Told
  <2>4. m \in Message => Told(s, m.id)
    BY <2>1 DEF Told
  <2>5. m \in Message
    BY <1>3, <2>1 DEF ReaderType
  <2> HIDE DEF m
  <2>6. \A id \in answered' \ answered, t \in Slot : ~Asked(t, id)
    BY <2>1, <2>4, <2>5 DEF JobsInv, Base, IInv, Types, Once
  <2>7. \A p \in Prober : probe[p].at = "registered" => probe[p].id # m.id
    BY <2>4, <2>5 DEF JobsInv, Unsent
  <2> QED
    BY <1>1, <1>2, <2>1, <2>3, <2>6, <2>7, StillJobs
<1> QED
  BY <1>5, <1>6, <1>7 DEF Reader

-----------------------------------------------------------------------------
(* The probes.                                                              *)

\* What a step of p leaves of the other probes.
LEMMA OthersWant ==
    ASSUME NEW p \in Prober, \A q \in Prober \ {p} : probe'[q] = probe[q]
    PROVE  \A t \in Slot : \A id \in Wants(t) :
               id \in Wants(t)' \/ (/\ id = probe[p].id /\ probe[p].via = t
                                    /\ probe[p].at \in {"waiting", "abandoning"})
<1> SUFFICES ASSUME NEW t \in Slot, NEW q \in Prober,
                    probe[q].at \in {"waiting", "abandoning"}, probe[q].via = t
             PROVE  \/ probe[q].id \in Wants(t)'
                    \/ q = p
  BY DEF Wants
<1> QED
  BY DEF Wants

\* The ID of a probe that has not sent yet is no other probe's.
LEMMA OthersIDs ==
    ASSUME JobsInv, NEW p \in Prober, probe[p].at \in {"registered", "waiting", "abandoning"}
    PROVE  /\ probe[p].id \in ID
           /\ \A q \in Prober \ {p} : probe[q].id # probe[p].id
BY DEF JobsInv, Base, IInv, Types, ProbeType, OwnID, Underway

LEMMA OverJobs ==
    ASSUME JobsInv, Base', NEW p \in Prober, Over(p),
           UNCHANGED <<child, stdin, stdout, reader, enc, cur, run>>,
           probe[p].at \in {"registered", "waiting", "abandoning"},
           waiting' = waiting \ {probe[p].id},
           \A t \in Slot : probe[p].at \in {"waiting", "abandoning"} /\ probe[p].via = t =>
               ~Asked(t, probe[p].id)
    PROVE  JobsInv'
<1>1. /\ probe' = [probe EXCEPT ![p] = NoProbe] /\ answered' \subseteq answered
      /\ probe \in [Prober -> ProbeType]
  BY DEF Over, JobsInv, Base, IInv, Types
<1>2. /\ probe'[p].at = "idle" /\ \A q \in Prober \ {p} : probe'[q] = probe[q]
  BY <1>1 DEF NoProbe
<1>3. \A t \in Slot : \A id : (Told(t, id)' <=> Told(t, id)) /\ (Asked(t, id)' <=> Asked(t, id))
  BY DEF Told, Asked
<1>4. Single'
  BY DEF JobsInv, Single
<1>5. \A t \in Slot : \A id \in Wants(t) : Asked(t, id) => id \in Wants(t)'
  BY <1>2, OthersWant
<1>6. Unsent'
  <2>1. \A q \in Prober : probe'[q].at = "registered" =>
            probe'[q] = probe[q] /\ probe[q].id # probe[p].id
    BY <1>2, OthersIDs
  <2>2. \A q \in Prober : probe'[q].at = "registered" =>
            (probe[q].id \in waiting => probe[q].id \in waiting')
    BY <2>1
  <2> QED
    BY <1>3, <2>1, <2>2, UnsentKept
<1> QED
  BY <1>1, <1>3, <1>4, <1>5, <1>6, JobsAside

LEMMA ProbeJobs ==
    ASSUME JobsInv, Base', NEW p \in Prober, Probe(p)
    PROVE  JobsInv'
<1>1. /\ probe' = [probe EXCEPT ![p].at = "begun"] /\ probe[p].at = "idle"
      /\ UNCHANGED <<child, stdin, stdout, reader, enc, cur, run, waiting, answered>>
      /\ probe \in [Prober -> ProbeType]
  BY DEF Probe, Client, Pipes, JobsInv, Base, IInv, Types
<1>2. /\ probe'[p].at = "begun" /\ \A q \in Prober \ {p} : probe'[q] = probe[q]
  BY <1>1 DEF ProbeType
<1>3. \A t \in Slot : \A id : (Told(t, id)' <=> Told(t, id)) /\ (Asked(t, id)' <=> Asked(t, id))
  BY <1>1 DEF Told, Asked
<1>4. Single'
  BY <1>1 DEF JobsInv, Single
<1>5. \A t \in Slot : \A id \in Wants(t) : id \in Wants(t)'
  BY <1>1, <1>2, OthersWant
<1>6. Unsent'
  BY <1>1, <1>2, <1>3, UnsentKept
<1> QED
  BY <1>1, <1>3, <1>4, <1>5, <1>6, JobsAside

\* What is asked or told is in use.
LEMMA Fresh ==
    ASSUME Base, NEW id \in ID \ InUse, NEW t \in Slot
    PROVE  ~Asked(t, id) /\ ~Told(t, id)
<1>1. stdin[t] \in Seq(Message) /\ stdout[t] \in Seq(Message) /\ reader[t] \in ReaderType
  BY DEF Base, Typed, PipesOK
<1>2. ASSUME NEW q \in Seq(Message), NEW type, Holds(q, type, id)
      PROVE  id \in {m.id : m \in ToSet(q)}
  BY <1>2 DEF Holds, ToSet
<1> DEFINE lines(s) == {m.id : m \in ToSet(stdin[s]) \cup ToSet(stdout[s])}
           read == {reader[s].msg.id : s \in {u \in Slot : reader[u].msg # None}}
           begun == waiting \cup answered \cup {probe[p].id : p \in Prober}
<1>0. InUse = begun \cup (UNION {child[s].jobs : s \in Slot}) \cup read
              \cup (UNION {lines(s) : s \in Slot})
  BY Zenon DEF InUse
<1> HIDE DEF lines, read, begun
<1>3. id \notin lines(t)
  <2>1. lines(t) \in {lines(s) : s \in Slot}
    OBVIOUS
  <2> QED
    BY <1>0, <2>1
<1>4. id \notin child[t].jobs
  BY <1>0
<1>5. reader[t].msg # None => id # reader[t].msg.id
  <2>1. t \in {u \in Slot : reader[u].msg # None} => reader[t].msg.id \in read
    BY DEF read
  <2> QED
    BY <1>0, <2>1
<1> QED
  BY <1>1, <1>2, <1>3, <1>4, <1>5, NoneAssumption DEF Asked, Told, lines

LEMMA RegisterJobs ==
    ASSUME JobsInv, Base', NEW p \in Prober, Register(p)
    PROVE  JobsInv'
<1>1. PICK id \in ID \ InUse :
          /\ waiting' = waiting \cup {id}
          /\ probe' = [probe EXCEPT ![p] = [at |-> "registered", id |-> id, via |-> enc]]
  BY DEF Register
<1>2. /\ probe[p].at = "begun" /\ probe \in [Prober -> ProbeType]
      /\ UNCHANGED <<child, stdin, stdout, reader, enc, cur, run, answered>>
  BY DEF Register, Pipes, JobsInv, Base, IInv, Types
<1>3. /\ probe'[p].id = id /\ \A q \in Prober \ {p} : probe'[q] = probe[q]
  BY <1>1, <1>2
<1>4. \A t \in Slot : \A i : (Told(t, i)' <=> Told(t, i)) /\ (Asked(t, i)' <=> Asked(t, i))
  BY <1>2 DEF Told, Asked
<1>5. Single'
  BY <1>2 DEF JobsInv, Single
<1>6. \A t \in Slot : \A i \in Wants(t) : i \in Wants(t)'
  BY <1>2, <1>3, OthersWant
<1>7. Unsent'
  <2> SUFFICES ASSUME NEW q \in Prober, probe'[q].at = "registered", NEW t \in Slot,
                      NEW i, i = probe'[q].id
               PROVE  /\ ~Asked(t, i)' /\ ~Told(t, i)'
                      /\ child'[t].alive /\ probe'[q].via = t => i \in waiting'
    BY DEF Unsent
  <2>1. CASE q = p
    BY <1>1, <1>3, <1>4, <2>1, Fresh DEF JobsInv
  <2>2. CASE q # p
    BY <1>1, <1>2, <1>3, <1>4, <2>2 DEF JobsInv, Unsent
  <2> QED
    BY <2>1, <2>2
<1> QED
  BY <1>2, <1>4, <1>5, <1>6, <1>7, JobsAside

LEMMA ResultJobs ==
    ASSUME JobsInv, Base', NEW p \in Prober, Result(p)
    PROVE  JobsInv'
<1>1. /\ probe[p].at = "waiting" /\ probe[p].id \in answered /\ Over(p)
      /\ UNCHANGED <<child, stdin, stdout, reader, enc, cur, run, waiting>>
  BY DEF Result, Pipes
<1>2. waiting' = waiting \ {probe[p].id}
  BY <1>1 DEF JobsInv, Base, IInv, Types
<1>3. \A t \in Slot : ~Asked(t, probe[p].id)
  BY <1>1, OthersIDs DEF JobsInv, Once
<1> QED
  BY <1>1, <1>2, <1>3, OverJobs

\* The cancel of what is still asked goes to the child that was asked.
LEMMA AbandonJobs ==
    ASSUME JobsInv, Base', NEW p \in Prober, Abandon(p)
    PROVE  JobsInv'
<1>1. /\ probe[p].at = "waiting" /\ waiting' = waiting \ {probe[p].id}
      /\ probe' = [probe EXCEPT ![p].at = "abandoning", ![p].via = enc]
      /\ UNCHANGED <<child, stdin, stdout, reader, enc, cur, run, answered>>
      /\ probe \in [Prober -> ProbeType]
  BY DEF Abandon, Pipes, JobsInv, Base, IInv, Types
<1>2. /\ probe'[p].at = "abandoning" /\ probe'[p].id = probe[p].id /\ probe'[p].via = enc
      /\ \A q \in Prober \ {p} : probe'[q] = probe[q]
  BY <1>1 DEF ProbeType
<1>3. \A t \in Slot : \A id : (Told(t, id)' <=> Told(t, id)) /\ (Asked(t, id)' <=> Asked(t, id))
  BY <1>1 DEF Told, Asked
<1>4. Single'
  BY <1>1 DEF JobsInv, Single
<1>5. ASSUME NEW t \in Slot, NEW id \in Wants(t), Asked(t, id)
      PROVE  id \in Wants(t)'
  <2>1. enc = t
    BY <1>5, AskedAlive DEF JobsInv
  <2>2. probe[p].id \in Wants(t)'
    BY <1>2, <2>1 DEF Wants
  <2> QED
    BY <1>2, <2>2, OthersWant
<1>6. Unsent'
  BY <1>1, <1>2, <1>3, OthersIDs, UnsentKept
<1> QED
  BY <1>1, <1>3, <1>4, <1>5, <1>6, JobsAside

\* The first writing: what is sent is wanted by the one who sends it.
LEMMA SendJobs ==
    ASSUME JobsInv, Base', NEW p \in Prober, Send(p),
           NEW s, s = probe[p].via, NEW x, x = probe[p].id
    PROVE  JobsInv'
<1>1. /\ probe[p].at = "registered"
      /\ UNCHANGED <<child, stdout, reader, enc, cur, run>>
      /\ probe \in [Prober -> ProbeType] /\ stdin \in [Slot -> Seq(Message)]
  BY DEF Send, JobsInv, Base, IInv, Types, Typed, PipesOK
<1>2. CASE /\ Open(s)
           /\ stdin' = [stdin EXCEPT ![s] = Append(@, Msg("ping", x))]
           /\ probe' = [probe EXCEPT ![p].at = "waiting"]
           /\ UNCHANGED <<waiting, answered>>
  <2>1. s \in Slot /\ child[s].alive /\ x \in ID
    BY <1>1, <1>2, OthersIDs DEF Open, ProbeType
  <2>2. /\ probe'[p].at = "waiting" /\ probe'[p].id = x /\ probe'[p].via = s
        /\ \A q \in Prober \ {p} : probe'[q] = probe[q]
    BY <1>1, <1>2 DEF ProbeType
  <2>3. x \in waiting /\ \A t \in Slot : ~Asked(t, x) /\ ~Told(t, x)
    BY <1>1, <2>1 DEF JobsInv, Unsent
  <2>4. PICK m : m = Msg("ping", x)
    OBVIOUS
  <2>5. m \in Message /\ m.type = "ping" /\ m.id = x
    BY <2>1, <2>4, LineTypes DEF Msg
  <2>6. /\ stdin'[s] = Append(stdin[s], m)
        /\ \A t \in Slot \ {s} : stdin'[t] = stdin[t]
    BY <1>1, <1>2, <2>1, <2>4
  <2>7. stdin[s] \in Seq(Message)
    BY <1>1, <2>1
  <2>8. \A type, id : Holds(stdin'[s], type, id) <=>
            Holds(stdin[s], type, id) \/ (type = "ping" /\ id = x)
    BY <2>5, <2>6, <2>7, AppendHolds
  <2>9. \A t \in Slot : \A id : /\ Told(t, id)' <=> Told(t, id)
                                /\ Asked(t, id)' => Asked(t, id) \/ id = x
    BY <1>1, <2>6, <2>8 DEF Told, Asked
  <2>10. \A id \in Wants(s) \cup {x} : id \in Wants(s)'
    <3>1. x \in Wants(s)'
      BY <2>2 DEF Wants
    <3> QED
      BY <1>1, <2>1, <2>2, <3>1, OthersWant
  <2>11. Single'
    BY <1>1, <2>1, <2>6 DEF JobsInv, Single
  <2>12. Unsent'
    <3>1. \A q \in Prober : probe'[q].at = "registered" =>
              probe'[q] = probe[q] /\ probe[q].id # x
      BY <1>1, <2>2, OthersIDs
    <3> SUFFICES ASSUME NEW q \in Prober, probe'[q].at = "registered", NEW t \in Slot,
                        NEW id, id = probe'[q].id
                 PROVE  /\ ~Asked(t, id)' /\ ~Told(t, id)'
                        /\ child'[t].alive /\ probe'[q].via = t => id \in waiting'
      BY DEF Unsent
    <3> QED
      BY <1>1, <1>2, <2>9, <3>1 DEF JobsInv, Unsent
  <2>13. Distinct(stdin'[s])
    <3>1. ~Holds(stdin[s], "ping", x)
      BY <2>1, <2>3 DEF Asked
    <3> QED
      BY <2>1, <2>5, <2>6, <2>7, <3>1, AppendDistinct DEF JobsInv, Once
  <2>14. Followed(stdin'[s], Wants(s)')
    BY <2>1, <2>5, <2>6, <2>7, <2>10, FollowedAppend DEF JobsInv, Owned
  <2>15. \A id \in child'[s].jobs : ~Holds(stdin'[s], "ping", id)
    BY <1>1, <2>1, <2>3, <2>8 DEF JobsInv, Once, Asked
  <2>16. child'[s].stopping \subseteq child'[s].jobs
    BY <1>1, <2>1 DEF JobsInv, Once
  <2>17. \A id \in ID : Asked(s, id)' =>
             id \notin answered' /\ \A t \in Slot : ~Told(t, id)'
    BY <1>2, <2>1, <2>3, <2>9 DEF JobsInv, Once, Base, IInv, Types
  <2>18. \A id \in child'[s].jobs \ child'[s].stopping :
             id \in Wants(s)' \/ Holds(stdin'[s], "cancel", id)
    BY <1>1, <2>1, <2>8, <2>10 DEF JobsInv, Owned
  <2> QED
    BY <1>1, <2>1, <2>6, <2>11, <2>12, <2>13, <2>14, <2>15, <2>16, <2>17, <2>18, JobsAt
<1>3. CASE /\ waiting' = waiting \ {x} /\ Over(p) /\ UNCHANGED stdin
  BY <1>1, <1>3, OverJobs
<1> QED
  BY <1>2, <1>3 DEF Send

\* The cancel follows what was asked, or nothing was asked of a living child.
LEMMA SendCancelJobs ==
    ASSUME JobsInv, Base', NEW p \in Prober, SendCancel(p),
           NEW s, s = probe[p].via, NEW x, x = probe[p].id
    PROVE  JobsInv'
<1>1. /\ probe[p].at = "abandoning" /\ Over(p)
      /\ UNCHANGED <<child, stdout, reader, enc, cur, run, waiting>>
      /\ probe \in [Prober -> ProbeType] /\ stdin \in [Slot -> Seq(Message)]
  BY DEF SendCancel, JobsInv, Base, IInv, Types, Typed, PipesOK
<1>2. x \in ID /\ waiting' = waiting \ {x}
  BY <1>1, OthersIDs DEF JobsInv, Base, IInv, Entered
<1>3. CASE ~Open(s)
  <2>1. UNCHANGED stdin
    BY <1>3 DEF SendCancel
  <2>2. \A t \in Slot : s = t => ~Asked(t, x)
    BY <1>3, AskedAlive, NoneAssumption DEF Open, JobsInv
  <2> QED
    BY <1>1, <1>2, <2>1, <2>2, OverJobs
<1>4. CASE Open(s)
  <2>1. s \in Slot /\ child[s].alive
    BY <1>1, <1>4 DEF Open, ProbeType
  <2>2. /\ probe'[p].at = "idle" /\ \A q \in Prober \ {p} : probe'[q] = probe[q]
        /\ answered' \subseteq answered
    BY <1>1 DEF Over, NoProbe
  <2>3. PICK m : m = Msg("cancel", x)
    OBVIOUS
  <2>4. m \in Message /\ m.type = "cancel" /\ m.id = x
    BY <1>2, <2>3, LineTypes DEF Msg
  <2>5. stdin' = [stdin EXCEPT ![s] = Append(@, m)]
    BY <1>4, <2>3 DEF SendCancel
  <2>6. /\ stdin'[s] = Append(stdin[s], m)
        /\ \A t \in Slot \ {s} : stdin'[t] = stdin[t]
    BY <1>1, <2>1, <2>5
  <2>7. stdin[s] \in Seq(Message)
    BY <1>1, <2>1
  <2>8. \A type, id : Holds(stdin'[s], type, id) <=>
            Holds(stdin[s], type, id) \/ (type = "cancel" /\ id = x)
    BY <2>4, <2>6, <2>7, AppendHolds
  <2>9. \A t \in Slot : \A id : /\ Told(t, id)' <=> Told(t, id)
                                /\ Asked(t, id)' => Asked(t, id)
    <3>1. \A id : Holds(stdin'[s], "ping", id) => Holds(stdin[s], "ping", id)
      BY <2>8
    <3>2. \A t \in Slot : \A id : Holds(stdin'[t], "ping", id) => Holds(stdin[t], "ping", id)
      BY <2>6, <3>1
    <3> QED
      BY <1>1, <3>2 DEF Told, Asked
  <2>10. \A id \in Wants(s) : id \in Wants(s)' \/ id = x
    BY <2>1, <2>2, OthersWant
  <2>11. Single'
    BY <1>1, <2>1, <2>6 DEF JobsInv, Single
  <2>12. Unsent'
    <3>1. \A q \in Prober : probe'[q].at = "registered" =>
              probe'[q] = probe[q] /\ probe[q].id # x
      BY <1>1, <2>2, OthersIDs
    <3> SUFFICES ASSUME NEW q \in Prober, probe'[q].at = "registered", NEW t \in Slot,
                        NEW id, id = probe'[q].id
                 PROVE  /\ ~Asked(t, id)' /\ ~Told(t, id)'
                        /\ child'[t].alive /\ probe'[q].via = t => id \in waiting'
      BY DEF Unsent
    <3> QED
      BY <1>1, <2>9, <3>1 DEF JobsInv, Unsent
  <2>13. Distinct(stdin'[s])
    BY <2>1, <2>4, <2>6, <2>7, AppendDistinct DEF JobsInv, Once
  <2>14. Followed(stdin'[s], Wants(s)')
    BY <2>1, <2>4, <2>6, <2>7, <2>10, FollowedAppend DEF JobsInv, Owned
  <2>15. \A id \in child'[s].jobs : ~Holds(stdin'[s], "ping", id)
    BY <1>1, <2>1, <2>8 DEF JobsInv, Once
  <2>16. child'[s].stopping \subseteq child'[s].jobs
    BY <1>1, <2>1 DEF JobsInv, Once
  <2>17. \A id \in ID : Asked(s, id)' =>
             id \notin answered' /\ \A t \in Slot : ~Told(t, id)'
    BY <2>1, <2>2, <2>9 DEF JobsInv, Once
  <2>18. \A id \in child'[s].jobs \ child'[s].stopping :
             id \in Wants(s)' \/ Holds(stdin'[s], "cancel", id)
    BY <1>1, <2>1, <2>8, <2>10 DEF JobsInv, Owned
  <2> QED
    BY <1>1, <2>1, <2>6, <2>11, <2>12, <2>13, <2>14, <2>15, <2>16, <2>17, <2>18, JobsAt
<1> QED
  BY <1>3, <1>4

-----------------------------------------------------------------------------
(* The helper.                                                              *)

\* The result of what s was asked: it is asked nowhere then, and no probe
\* that has not sent yet has its ID.
LEMMA ToldUnsent ==
    ASSUME JobsInv, NEW s \in Slot, NEW x \in ID, Asked(s, x),
           UNCHANGED <<probe, waiting>>,
           \A t \in Slot : \A id : /\ Asked(t, id)' => Asked(t, id)
                                   /\ Told(t, id)' => Told(t, id) \/ id = x,
           \A t \in Slot : child'[t].alive = child[t].alive
    PROVE  Unsent'
<1>1. \A p \in Prober : probe[p].at = "registered" => probe[p].id # x
  BY DEF JobsInv, Unsent
<1> QED
  BY <1>1, UnsentKept

\* Writing to stdout.
LEMMA Said ==
    ASSUME Base, NEW s \in Slot, NEW m \in Message,
           stdout' = [stdout EXCEPT ![s] = Append(@, m)], UNCHANGED reader
    PROVE  \A t \in Slot : \A id : Told(t, id)' =>
               Told(t, id) \/ (t = s /\ m.type = "result" /\ m.id = id)
<1>1. stdout \in [Slot -> Seq(Message)]
  BY DEF Base, Typed, PipesOK
<1>2. /\ stdout'[s] = Append(stdout[s], m)
      /\ \A t \in Slot \ {s} : stdout'[t] = stdout[t]
  BY <1>1
<1>3. \A id : Holds(stdout'[s], "result", id) =>
          Holds(stdout[s], "result", id) \/ (m.type = "result" /\ m.id = id)
  BY <1>1, <1>2, AppendHolds
<1> QED
  BY <1>2, <1>3 DEF Told

LEMMA JobJobs ==
    ASSUME JobsInv, Base', NEW s \in Slot, NEW x \in ID, Job(s, x)
    PROVE  JobsInv'
<1>1. /\ child[s].alive /\ x \in child[s].jobs
      /\ child' = [child EXCEPT ![s].jobs = @ \ {x}, ![s].stopping = @ \ {x}]
      /\ stdout' = [stdout EXCEPT ![s] = Append(@, Msg("result", x))]
      /\ UNCHANGED <<stdin, reader, probe, enc, cur, run, waiting, answered>>
      /\ child \in [Slot -> ChildType]
  BY DEF Job, Client, JobsInv, Base, Typed, PipesOK
<1>2. /\ child'[s].jobs = child[s].jobs \ {x}
      /\ child'[s].stopping = child[s].stopping \ {x}
      /\ child'[s].alive = child[s].alive
      /\ \A t \in Slot \ {s} : child'[t] = child[t]
  BY <1>1 DEF ChildType
<1>3. \A t \in Slot : \A id : Told(t, id)' => Told(t, id) \/ id = x
  <2>1. PICK m : m = Msg("result", x)
    OBVIOUS
  <2>2. m \in Message /\ m.id = x
    BY <2>1, LineTypes DEF Msg
  <2>3. stdout' = [stdout EXCEPT ![s] = Append(@, m)]
    BY <1>1, <2>1
  <2> QED
    BY <1>1, <2>2, <2>3, Said DEF JobsInv
<1>4. Asked(s, x) /\ ~Holds(stdin[s], "ping", x)
  BY <1>1 DEF Asked, JobsInv, Once
<1>5. \A t \in Slot : \A id : Asked(t, id)' => Asked(t, id)
  BY <1>1, <1>2 DEF Asked
<1>6. \A id : Asked(s, id)' => id # x
  BY <1>1, <1>2, <1>4 DEF Asked
<1>7. Single'
  BY <1>1, <1>2 DEF JobsInv, Single
<1>8. Unsent'
  BY <1>1, <1>2, <1>3, <1>4, <1>5, ToldUnsent
<1>9. Wants(s)' = Wants(s)
  BY <1>1 DEF Wants
<1>10. \A id \in ID : Asked(s, id)' =>
           id \notin answered' /\ \A t \in Slot : ~Told(t, id)'
  BY <1>1, <1>3, <1>5, <1>6 DEF JobsInv, Once
<1>11. /\ Distinct(stdin'[s]) /\ child'[s].stopping \subseteq child'[s].jobs
       /\ \A id \in child'[s].jobs : ~Holds(stdin'[s], "ping", id)
  BY <1>1, <1>2 DEF JobsInv, Once
<1>12. /\ \A id \in child'[s].jobs \ child'[s].stopping :
              id \in Wants(s)' \/ Holds(stdin'[s], "cancel", id)
       /\ Followed(stdin'[s], Wants(s)')
  BY <1>1, <1>2, <1>9 DEF JobsInv, Owned
<1> QED
  BY <1>1, <1>2, <1>7, <1>8, <1>10, <1>11, <1>12, JobsAt

LEMMA DispatchJobs ==
    ASSUME JobsInv, Base', NEW s \in Slot, Dispatch(s)
    PROVE  JobsInv'
<1>1. PICK m : m = Head(stdin[s])
  OBVIOUS
<1>2. /\ child[s].alive /\ stdin[s] # <<>> /\ stdin' = [stdin EXCEPT ![s] = Tail(@)]
      /\ UNCHANGED <<reader, probe, enc, cur, run, waiting, answered>>
      /\ child \in [Slot -> ChildType] /\ stdin \in [Slot -> Seq(Message)]
      /\ stdin[s] \in Seq(Message) /\ child[s] \in ChildType
  BY DEF Dispatch, Client, JobsInv, Base, Typed, PipesOK
<1>3. /\ stdin'[s] = Tail(stdin[s])
      /\ \A t \in Slot \ {s} : stdin'[t] = stdin[t]
  BY <1>2
<1>4. \A type, id : Holds(stdin[s], type, id) <=>
          Holds(stdin'[s], type, id) \/ (m.type = type /\ m.id = id)
  BY <1>1, <1>2, <1>3, TailHolds
<1>5. Distinct(stdin'[s]) /\ (m.type = "ping" => ~Holds(stdin'[s], "ping", m.id))
  BY <1>1, <1>2, <1>3, TailDistinct DEF JobsInv, Once
<1>6. Wants(s)' = Wants(s)
  BY <1>2 DEF Wants
<1>7. /\ Followed(stdin'[s], Wants(s)')
      /\ m.type = "ping" => m.id \in Wants(s)' \/ Holds(stdin'[s], "cancel", m.id)
  BY <1>1, <1>2, <1>3, <1>6, FollowedTail DEF JobsInv, Owned
<1>8. m \in Message
  BY <1>1, <1>2, TailItems
<1>9. m.type = "ping" => m.id \in ID /\ Asked(s, m.id) /\ m.id \notin child[s].jobs
  <2>1. m.type = "ping" => Holds(stdin[s], "ping", m.id)
    BY <1>4
  <2>2. m.type = "ping" => m.id \in ID
    BY <1>8, HelloAssumption DEF Message
  <2> QED
    BY <2>1, <2>2 DEF Asked, JobsInv, Once
<1>10. CASE /\ m.type = "ping" /\ UNCHANGED stdout
            /\ child' = [child EXCEPT ![s].jobs = @ \cup {m.id}]
  <2>1. /\ child'[s].jobs = child[s].jobs \cup {m.id}
        /\ child'[s].stopping = child[s].stopping
        /\ child'[s].alive = child[s].alive
        /\ \A t \in Slot \ {s} : child'[t] = child[t]
    BY <1>2, <1>10 DEF ChildType
  <2>2. \A t \in Slot : \A id : /\ Told(t, id)' <=> Told(t, id)
                                /\ Asked(t, id)' => Asked(t, id)
    BY <1>2, <1>3, <1>4, <1>9, <1>10, <2>1 DEF Told, Asked
  <2>3. Single'
    BY <1>2, <1>3, <2>1 DEF JobsInv, Single
  <2>4. Unsent'
    BY <1>2, <2>1, <2>2, UnsentKept
  <2>5. \A id \in child'[s].jobs : ~Holds(stdin'[s], "ping", id)
    BY <1>4, <1>5, <1>10, <2>1 DEF JobsInv, Once
  <2>6. child'[s].stopping \subseteq child'[s].jobs
    BY <2>1 DEF JobsInv, Once
  <2>7. \A id \in child'[s].jobs \ child'[s].stopping :
            id \in Wants(s)' \/ Holds(stdin'[s], "cancel", id)
    <3>1. \A id : Holds(stdin[s], "cancel", id) => Holds(stdin'[s], "cancel", id)
      BY <1>4, <1>10
    <3> QED
      BY <1>6, <1>7, <1>10, <2>1, <3>1 DEF JobsInv, Owned
  <2>8. \A id \in ID : Asked(s, id)' =>
            id \notin answered' /\ \A t \in Slot : ~Told(t, id)'
    BY <1>2, <2>2 DEF JobsInv, Once
  <2> QED
    BY <1>2, <1>3, <1>5, <1>7, <2>1, <2>3, <2>4, <2>5, <2>6, <2>7, <2>8, JobsAt
<1>11. CASE /\ m.type = "ping" /\ UNCHANGED child
            /\ stdout' = [stdout EXCEPT ![s] = Append(@, Msg("result", m.id))]
  <2>1. \A t \in Slot : \A id : Told(t, id)' => Told(t, id) \/ id = m.id
    <3>1. PICK l : l = Msg("result", m.id)
      OBVIOUS
    <3>2. l \in Message /\ l.id = m.id
      BY <1>9, <1>11, <3>1, LineTypes DEF Msg
    <3>3. stdout' = [stdout EXCEPT ![s] = Append(@, l)]
      BY <1>11, <3>1
    <3> QED
      BY <1>2, <3>2, <3>3, Said DEF JobsInv
  <2>2. \A t \in Slot : \A id : Asked(t, id)' => Asked(t, id)
    BY <1>2, <1>3, <1>4, <1>11 DEF Asked
  <2>3. \A id : Asked(s, id)' => id # m.id
    BY <1>5, <1>9, <1>11 DEF Asked
  <2>4. Single'
    BY <1>2, <1>3, <1>11 DEF JobsInv, Single
  <2>5. Unsent'
    BY <1>2, <1>9, <1>11, <2>1, <2>2, ToldUnsent
  <2>6. /\ \A id \in child'[s].jobs : ~Holds(stdin'[s], "ping", id)
        /\ child'[s].stopping \subseteq child'[s].jobs
    BY <1>4, <1>11 DEF JobsInv, Once
  <2>7. \A id \in child'[s].jobs \ child'[s].stopping :
            id \in Wants(s)' \/ Holds(stdin'[s], "cancel", id)
    <3>1. \A id : Holds(stdin[s], "cancel", id) => Holds(stdin'[s], "cancel", id)
      BY <1>4, <1>11
    <3> QED
      BY <1>6, <1>11, <3>1 DEF JobsInv, Owned
  <2>8. \A id \in ID : Asked(s, id)' =>
            id \notin answered' /\ \A t \in Slot : ~Told(t, id)'
    BY <1>2, <2>1, <2>2, <2>3 DEF JobsInv, Once
  <2> QED
    BY <1>2, <1>3, <1>5, <1>7, <1>11, <2>4, <2>5, <2>6, <2>7, <2>8, JobsAt
<1>12. CASE /\ m.type = "cancel" /\ UNCHANGED stdout
            /\ child' = [child EXCEPT ![s].stopping = @ \cup ({m.id} \cap child[s].jobs)]
  <2>1. /\ child'[s].jobs = child[s].jobs
        /\ child'[s].stopping = child[s].stopping \cup ({m.id} \cap child[s].jobs)
        /\ child'[s].alive = child[s].alive
        /\ \A t \in Slot \ {s} : child'[t] = child[t]
    BY <1>2, <1>12 DEF ChildType
  <2>2. \A t \in Slot : \A id : /\ Told(t, id)' <=> Told(t, id)
                                /\ Asked(t, id)' => Asked(t, id)
    BY <1>2, <1>3, <1>4, <1>12, <2>1 DEF Told, Asked
  <2>3. Single'
    BY <1>2, <1>3, <2>1 DEF JobsInv, Single
  <2>4. Unsent'
    BY <1>2, <2>1, <2>2, UnsentKept
  <2>5. /\ \A id \in child'[s].jobs : ~Holds(stdin'[s], "ping", id)
        /\ child'[s].stopping \subseteq child'[s].jobs
    BY <1>4, <2>1 DEF JobsInv, Once
  <2>6. \A id \in child'[s].jobs \ child'[s].stopping :
            id \in Wants(s)' \/ Holds(stdin'[s], "cancel", id)
    <3>1. \A id : Holds(stdin[s], "cancel", id) => Holds(stdin'[s], "cancel", id) \/ id = m.id
      BY <1>4
    <3> QED
      BY <1>6, <2>1, <3>1 DEF JobsInv, Owned
  <2>7. \A id \in ID : Asked(s, id)' =>
            id \notin answered' /\ \A t \in Slot : ~Told(t, id)'
    BY <1>2, <2>2 DEF JobsInv, Once
  <2> QED
    BY <1>2, <1>3, <1>5, <1>7, <2>1, <2>3, <2>4, <2>5, <2>6, <2>7, JobsAt
<1> QED
  BY <1>1, <1>10, <1>11, <1>12 DEF Dispatch

LEMMA SayHelloJobs ==
    ASSUME JobsInv, Base', NEW s \in Slot, NEW h \in Hello, SayHello(s, h)
    PROVE  JobsInv'
<1>1. /\ child' = [child EXCEPT ![s].said = h]
      /\ stdout' = [stdout EXCEPT ![s] = Append(@, Msg(h, None))]
      /\ UNCHANGED <<stdin, reader, probe, enc, cur, run, waiting, answered>>
      /\ child[s].alive /\ child \in [Slot -> ChildType]
  BY DEF SayHello, Client, JobsInv, Base, Typed, PipesOK
<1>2. \A t \in Slot : /\ child'[t].alive = child[t].alive
                      /\ child'[t].jobs = child[t].jobs
                      /\ child'[t].stopping = child[t].stopping
  BY <1>1 DEF ChildType
<1>3. \A t \in Slot \ {s} : child'[t] = child[t]
  BY <1>1
<1>4. \A t \in Slot : \A id : Told(t, id)' => Told(t, id)
  <2>1. h # "result"
    BY HelloAssumption
  <2> QED
    BY <1>1, <2>1, LineTypes, Said DEF JobsInv, Msg
<1>5. \A t \in Slot : \A id : Asked(t, id)' => Asked(t, id)
  BY <1>1, <1>2 DEF Asked
<1>6. Single'
  BY <1>1, <1>2 DEF JobsInv, Single
<1>7. Unsent'
  BY <1>1, <1>2, <1>4, <1>5, UnsentKept
<1>8. Wants(s)' = Wants(s)
  BY <1>1 DEF Wants
<1>9. /\ Distinct(stdin'[s]) /\ child'[s].stopping \subseteq child'[s].jobs
      /\ \A id \in child'[s].jobs : ~Holds(stdin'[s], "ping", id)
      /\ \A id \in ID : Asked(s, id)' =>
             id \notin answered' /\ \A t \in Slot : ~Told(t, id)'
  BY <1>1, <1>2, <1>4, <1>5 DEF JobsInv, Once
<1>10. /\ \A id \in child'[s].jobs \ child'[s].stopping :
              id \in Wants(s)' \/ Holds(stdin'[s], "cancel", id)
       /\ Followed(stdin'[s], Wants(s)')
  BY <1>1, <1>2, <1>8 DEF JobsInv, Owned
<1> QED
  BY <1>1, <1>3, <1>6, <1>7, <1>9, <1>10, JobsAt

LEMMA DieJobs ==
    ASSUME JobsInv, Base', NEW s \in Slot, Die(s)
    PROVE  JobsInv'
BY GoneJobs DEF Die, Client

-----------------------------------------------------------------------------
(* The theorem.                                                             *)

LEMMA InitJobs ==
    Init => JobsInv
<1> SUFFICES ASSUME Init
             PROVE  JobsInv
  OBVIOUS
<1>1. Base
  BY InitIInv, InitTyped DEF Base
<1>2. \A s \in Slot : /\ ~child[s].alive /\ child[s].jobs = {} /\ child[s].stopping = {}
                      /\ stdin[s] = <<>>
  BY DEF Init, NoChild
<1>3. run = "start" /\ \A p \in Prober : probe[p].at = "idle"
  BY DEF Init, NoProbe
<1>4. \A s \in Slot : \A id : ~Asked(s, id)
  BY <1>2, EmptyHolds DEF Asked
<1>5. Single
  BY <1>2, <1>3 DEF Single
<1>6. Once
  BY <1>2, <1>4, EmptyHolds DEF Once
<1>7. Unsent /\ Owned
  BY <1>2, <1>3, EmptyHolds DEF Unsent, Owned
<1> QED
  BY <1>1, <1>5, <1>6, <1>7 DEF JobsInv

LEMMA NextJobs ==
    JobsInv /\ [Next]_vars => JobsInv'
<1> SUFFICES ASSUME JobsInv, [Next]_vars
             PROVE  JobsInv'
  OBVIOUS
<1>1. Base'
  BY NextBase DEF JobsInv
<1>2. ASSUME NEW s \in Slot, Helper(s) \/ Die(s) \/ \E h \in Hello : SayHello(s, h)
      PROVE  JobsInv'
  BY <1>1, <1>2, DispatchJobs, JobJobs, DieJobs, SayHelloJobs DEF Helper
<1>3. ASSUME NEW p \in Prober, \/ Probe(p) \/ Register(p) \/ Send(p)
                               \/ Result(p) \/ Abandon(p) \/ SendCancel(p)
      PROVE  JobsInv'
  BY <1>1, <1>3, ProbeJobs, RegisterJobs, SendJobs, ResultJobs, AbandonJobs, SendCancelJobs
<1>4. CASE Cancel \/ UNCHANGED vars
  <2>1. UNCHANGED <<child, stdin, stdout, reader, probe, waiting, answered, enc, cur, run>>
    BY <1>4 DEF Cancel, Client, Pipes, vars
  <2>2. Single' /\ \A t \in Slot : \A id : Told(t, id)' <=> Told(t, id)
    BY <2>1 DEF JobsInv, Single, Told
  <2> QED
    BY <1>1, <2>1, <2>2, StillJobs
<1> QED
  BY <1>1, <1>2, <1>3, <1>4, SupervisorJobs, ReaderJobs DEF Next

\* The helper never works for nobody: every job belongs to a probe that waits
\* for it or is about to cancel it, or it is being cancelled, or its cancel is
\* in the pipe, however helpers die, are replaced, or answer late.
THEOREM JobsAlwaysOwned == Spec => []JobsOwned
<1>1. ASSUME JobsInv, NEW s \in Slot, NEW id \in child[s].jobs \ child[s].stopping
      PROVE  \/ \E p \in Prober : /\ probe[p].id = id
                                  /\ probe[p].at \in {"waiting", "abandoning"}
             \/ Msg("cancel", id) \in ToSet(stdin[s])
  <2>1. CASE id \in Wants(s)
    BY <2>1 DEF Wants
  <2>2. CASE Holds(stdin[s], "cancel", id)
    <3>1. PICK i \in 1..Len(stdin[s]) :
              stdin[s][i].type = "cancel" /\ stdin[s][i].id = id
      BY <2>2 DEF Holds
    <3>2. stdin[s] \in Seq(Message) /\ stdin[s][i] \in Message
      <4>1. stdin[s] \in Seq(Message)
        BY <1>1 DEF JobsInv, Base, Typed, PipesOK
      <4> QED
        BY <4>1
    <3>3. stdin[s][i] = Msg("cancel", id)
      BY <3>1, <3>2 DEF Message, Msg
    <3> QED
      BY <3>2, <3>3 DEF ToSet
  <2> QED
    BY <1>1, <2>1, <2>2 DEF JobsInv, Owned
<1>2. JobsInv => JobsOwned
  BY <1>1 DEF JobsOwned
<1> QED
  BY InitJobs, NextJobs, <1>2, PTL DEF Spec

-----------------------------------------------------------------------------
(* Pinger: the samples of the helper.                                       *)


(***************************************************************************)
(* The inductive invariant.  Two packets share a sequence number without a *)
(* clash only if the job of the earlier one had ended; a packet without a  *)
(* clash that is unanswered and in flight is pending under its number, so  *)
(* that its reply finds it.                                                *)
(***************************************************************************)
Overlap ==
    \A p, q \in P!Packets :
        p < q /\ P!Wire(p) = P!Wire(q) /\ P!Flying(owner[p]) => p \in clash /\ q \in clash

Awaited ==
    \A p \in P!Packets \ clash :
        P!Flying(owner[p]) /\ credit[p] = 0 =>
            P!Wire(p) \in DOMAIN pending /\ pending[P!Wire(p)] = p

CountInv == P!TypeOK /\ P!PendingOwned /\ Overlap /\ Awaited /\ P!CountedExactly

-----------------------------------------------------------------------------
(* Sequence numbers.                                                        *)

\* Division with a remainder.
LEMMA DivMod ==
    ASSUME NEW a \in Nat, NEW b \in Nat \ {0}
    PROVE  a = b * (a \div b) + (a % b)
OBVIOUS

\* Packets with the same sequence number are a whole round apart.
LEMMA RoundApart ==
    ASSUME NEW p \in Nat, NEW q \in Nat, p < q, P!Wire(p) = P!Wire(q)
    PROVE  p =< q - SeqSpace
<1> DEFINE x == p \div SeqSpace
           y == q \div SeqSpace
<1>1. SeqSpace \in Nat \ {0}
  BY PingerAssumption
<1>2. x \in Int /\ y \in Int
  BY <1>1
<1>3. p = SeqSpace * x + (p % SeqSpace) /\ q = SeqSpace * y + (q % SeqSpace)
  BY <1>1, DivMod
<1>4. p % SeqSpace \in 0 .. SeqSpace - 1
  BY <1>1
<1>5. q - p = SeqSpace * (y - x)
  BY <1>1, <1>2, <1>3, <1>4 DEF P!Wire
<1>6. \A d \in Int : SeqSpace * d > 0 => SeqSpace * d >= SeqSpace
  BY <1>1
<1>7. (y - x) \in Int
  BY <1>2
<1>8. SeqSpace * (y - x) > 0
  BY <1>5
<1>9. SeqSpace * (y - x) >= SeqSpace
  BY <1>6, <1>7, <1>8
<1> QED
  BY <1>1, <1>5, <1>9

-----------------------------------------------------------------------------
(* Types.                                                                   *)

\* The first state.
LEMMA InitCount == P!Init => CountInv
<1> SUFFICES ASSUME P!Init
             PROVE  CountInv
  OBVIOUS
<1>1. P!Packets = {}
  BY DEF P!Init, P!Packets
<1>2. jobs = <<>> /\ inflight = <<>> /\ owner = <<>> /\ pending = <<>> /\ credit = <<>>
  BY DEF P!Init
<1>3. P!TypeOK
  <2>1. /\ <<>> \in Seq(P!Job) /\ <<>> \in Seq(Nat) /\ Len(<<>>) = 0
        /\ DOMAIN jobs = {} /\ DOMAIN inflight = {} /\ DOMAIN pending = {}
    BY <1>2
  <2>2. /\ written = {} /\ inTime = {} /\ clash = {}
        /\ closed \in BOOLEAN /\ exited \in BOOLEAN
    BY DEF P!Init
  <2> QED
    BY <1>1, <1>2, <2>1, <2>2 DEF P!TypeOK
<1> QED
  BY <1>1, <1>2, <1>3 DEF CountInv, P!PendingOwned, Overlap, Awaited, P!CountedExactly

\* The jobs after a step of one of them, or of all.
GoroutinesOK == /\ jobs \in Seq(P!Job)
          /\ \A j \in DOMAIN jobs : jobs[j].at = "registered" => jobs[j].last \in P!Packets

\* A job changes in place.
LEMMA JobChanges ==
    ASSUME GoroutinesOK, NEW j \in DOMAIN jobs, NEW job \in P!Job,
           jobs' = [jobs EXCEPT ![j] = job], job.at = "registered" => job.last \in P!Packets', P!Packets \subseteq P!Packets'
    PROVE  GoroutinesOK' /\ DOMAIN jobs' = DOMAIN jobs
<1>1. jobs' \in Seq(P!Job) /\ DOMAIN jobs' = DOMAIN jobs
  BY DEF GoroutinesOK
<1>2. \A k \in DOMAIN jobs : jobs'[k] = IF k = j THEN job ELSE jobs[k]
  BY DEF GoroutinesOK
<1> QED
  BY <1>1, <1>2 DEF GoroutinesOK

\* A request appends a job.
LEMMA StartTypes ==
    ASSUME P!TypeOK, NEW id \in Id, P!Start(id)
    PROVE  P!TypeOK'
<1> DEFINE job == [id |-> id, at |-> "run", last |-> 0, cancelled |-> FALSE]
<1>1. job \in P!Job /\ job.at = "run"
  BY DEF P!Job
<1> HIDE DEF job
<1>2. jobs' = Append(jobs, job) /\ UNCHANGED owner
  BY DEF P!Start, job
<1>3. jobs' \in Seq(P!Job) /\ DOMAIN jobs \subseteq DOMAIN jobs' /\ Len(jobs) + 1 \in DOMAIN jobs'
  BY <1>1, <1>2 DEF P!TypeOK
<1>4. \A k \in DOMAIN jobs' : jobs'[k] = IF k \in DOMAIN jobs THEN jobs[k] ELSE job
  BY <1>1, <1>2 DEF P!TypeOK
<1>5. GoroutinesOK'
  BY <1>1, <1>2, <1>3, <1>4 DEF P!TypeOK, GoroutinesOK, P!Packets
<1>6. /\ DOMAIN inflight' = DOMAIN inflight \cup {id}
      /\ \A x \in DOMAIN inflight' :
            inflight'[x] = IF x = id THEN Len(jobs) + 1 ELSE inflight[x]
  BY DEF P!Start, P!Put
<1>7. \A x \in DOMAIN inflight' : inflight'[x] \in DOMAIN jobs'
  BY <1>3, <1>6 DEF P!TypeOK
<1>8. DOMAIN inflight' \subseteq Id
  BY <1>6 DEF P!TypeOK
<1> QED
  BY <1>3, <1>5, <1>7, <1>8 DEF P!TypeOK, GoroutinesOK, P!Start, P!Packets

\* A cancel marks a job, and a shutdown marks all.
LEMMA CancelTypes ==
    ASSUME P!TypeOK, (\E id \in Id : P!Cancel(id)) \/ P!Shutdown
    PROVE  P!TypeOK'
<1>1. /\ DOMAIN jobs' = DOMAIN jobs /\ jobs' \in Seq(P!Job)
      /\ \A j \in DOMAIN jobs : jobs'[j].at = jobs[j].at /\ jobs'[j].last = jobs[j].last
  <2>1. CASE P!Shutdown
    <3> DEFINE job(j) == [jobs[j] EXCEPT !.cancelled = TRUE]
    <3>1. \A j \in DOMAIN jobs : /\ job(j) \in P!Job
                                 /\ job(j).at = jobs[j].at /\ job(j).last = jobs[j].last
      <4>1. \A j \in DOMAIN jobs : jobs[j] \in P!Job
        BY DEF P!TypeOK
      <4> QED
        BY <4>1 DEF P!Job
    <3>2. jobs' = [j \in DOMAIN jobs |-> job(j)]
      BY <2>1 DEF P!Shutdown
    <3> HIDE DEF job
    <3>3. Len(jobs) \in Nat /\ DOMAIN jobs = 1 .. Len(jobs)
      BY DEF P!TypeOK
    <3> QED
      BY <3>1, <3>2, <3>3
  <2>2. ASSUME NEW id \in Id, P!Cancel(id)
        PROVE  <1>1!:
    <3> DEFINE j == inflight[id]
               job == [jobs[j] EXCEPT !.cancelled = TRUE]
    <3>1. j \in DOMAIN jobs
      BY <2>2 DEF P!TypeOK, P!Cancel
    <3>2. job \in P!Job /\ job.at = jobs[j].at /\ job.last = jobs[j].last
      <4>1. jobs[j] \in P!Job
        BY <3>1 DEF P!TypeOK
      <4> QED
        BY <4>1 DEF P!Job
    <3>3. jobs' = [jobs EXCEPT ![j] = job]
      BY <2>2 DEF P!Cancel
    <3> HIDE DEF job, j
    <3> QED
      BY <3>1, <3>2, <3>3 DEF P!TypeOK
  <2> QED
    BY <2>1, <2>2
<1>2. UNCHANGED <<inflight, owner, pending, written, credit, exited, inTime, clash>>
      /\ closed' \in BOOLEAN
  BY DEF P!TypeOK, P!Cancel, P!Shutdown
<1> QED
  BY <1>1, <1>2 DEF P!TypeOK, P!Packets

\* A packet is registered.
LEMMA RegisterTypes ==
    ASSUME P!TypeOK, NEW j \in DOMAIN jobs, P!Register(j)
    PROVE  P!TypeOK'
<1> DEFINE p == Len(owner) + 1
           job == [jobs[j] EXCEPT !.at = "registered", !.last = p]
<1>1. Len(owner) \in Nat /\ p \in Nat
  BY DEF P!TypeOK
<1>2. owner' = Append(owner, j) /\ credit' = Append(credit, 0)
  BY DEF P!Register
<1>3. j \in Nat
  BY DEF P!TypeOK
<1>4. P!Packets' = P!Packets \cup {p}
  BY <1>1, <1>2, <1>3 DEF P!Packets, P!TypeOK
<1>5. job \in P!Job /\ job.at = "registered" /\ job.last = p
  <2>1. jobs[j] \in P!Job
    BY DEF P!TypeOK
  <2> QED
    BY <1>1, <2>1 DEF P!Job
<1>6. jobs' = [jobs EXCEPT ![j] = job]
  BY DEF P!Register
<1> HIDE DEF job
<1>7. GoroutinesOK' /\ DOMAIN jobs' = DOMAIN jobs
  BY <1>4, <1>5, <1>6, JobChanges DEF P!TypeOK, GoroutinesOK
<1>8. owner' \in Seq(Nat) /\ \A q \in P!Packets' : owner'[q] \in DOMAIN jobs'
  BY <1>1, <1>2, <1>3, <1>4, <1>7 DEF P!TypeOK, P!Packets
<1>9. credit' \in Seq(Int) /\ Len(credit') = Len(owner')
  BY <1>2, <1>3 DEF P!TypeOK
<1>10. \A s \in DOMAIN pending' : pending'[s] \in P!Packets'
  BY <1>4 DEF P!TypeOK, P!Register, P!Put
<1>11. clash' \subseteq P!Packets'
  BY <1>4 DEF P!TypeOK, P!Register, P!Rivals
<1> QED
  BY <1>4, <1>7, <1>8, <1>9, <1>10, <1>11 DEF P!TypeOK, GoroutinesOK, P!Register

\* The other steps of a run.
LEMMA RunTypes ==
    ASSUME P!TypeOK, NEW j \in DOMAIN jobs, P!Write(j) \/ P!CleanUp(j) \/ P!Emit(j)
    PROVE  P!TypeOK'
<1>1. jobs[j] \in P!Job
  BY DEF P!TypeOK
<1>2. PICK at \in {"run", "cleaned", "done"} : jobs' = [jobs EXCEPT ![j].at = at]
  BY DEF P!Write, P!CleanUp, P!Emit, P!Step
<1>3. UNCHANGED <<owner, credit, closed, exited, inTime, clash>> /\ P!Packets' = P!Packets
  BY DEF P!Write, P!CleanUp, P!Emit, P!Packets
<1>4. GoroutinesOK' /\ DOMAIN jobs' = DOMAIN jobs
  <2> DEFINE job == [jobs[j] EXCEPT !.at = at]
  <2>1. job \in P!Job /\ job.at # "registered"
    BY <1>1 DEF P!Job
  <2>2. jobs' = [jobs EXCEPT ![j] = job]
    BY <1>2
  <2> HIDE DEF job
  <2> QED
    BY <1>3, <2>1, <2>2, JobChanges DEF P!TypeOK, GoroutinesOK
<1>5. /\ DOMAIN inflight' \subseteq DOMAIN inflight
      /\ \A x \in DOMAIN inflight' : inflight'[x] = inflight[x]
  BY DEF P!Write, P!CleanUp, P!Emit, P!Except
<1>6. /\ DOMAIN pending' \subseteq DOMAIN pending
      /\ \A x \in DOMAIN pending' : pending'[x] = pending[x]
  BY DEF P!Write, P!CleanUp, P!Emit, P!Except
<1>7. written' \subseteq P!Packets
  BY DEF P!TypeOK, P!Write, P!CleanUp, P!Emit, P!Step
<1> QED
  BY <1>3, <1>4, <1>5, <1>6, <1>7 DEF P!TypeOK, GoroutinesOK

\* A sample is taken for some reply.
LEMMA TakeTypes ==
    ASSUME P!TypeOK, NEW s, NEW reply \in Int, P!Take(s, reply)
    PROVE  /\ credit' \in Seq(Int) /\ Len(credit') = Len(owner)
           /\ \A t \in DOMAIN pending' : pending'[t] \in P!Packets
<1>1. P!Packets = DOMAIN credit /\ credit \in Seq(Int) /\ Len(credit) = Len(owner)
  BY DEF P!TypeOK, P!Packets
<1>2. CASE s \notin DOMAIN pending
  BY <1>1, <1>2 DEF P!TypeOK, P!Take
<1>3. CASE s \in DOMAIN pending
  <2> DEFINE x == pending[s]
  <2>1. x \in DOMAIN credit
    BY <1>1, <1>3 DEF P!TypeOK
  <2>2. credit' = [credit EXCEPT ![x] = reply]
    BY <1>3 DEF P!Take
  <2>3. \A t \in DOMAIN pending' : t \in DOMAIN pending /\ pending'[t] = pending[t]
    BY <1>3 DEF P!Take, P!Except
  <2> HIDE DEF x
  <2> QED
    BY <1>1, <2>1, <2>2, <2>3 DEF P!TypeOK
<1> QED
  BY <1>2, <1>3

\* A reply to a packet of the helper.
LEMMA ReplyTypes ==
    ASSUME P!TypeOK, NEW q \in P!Packets, P!Reply(q)
    PROVE  P!TypeOK'
<1>1. q \in Int /\ P!Take(P!Wire(q), q)
  BY DEF P!TypeOK, P!Packets, P!Reply
<1>2. inTime' \subseteq P!Packets /\ UNCHANGED <<jobs, inflight, owner, written, closed, exited, clash>>
  BY DEF P!TypeOK, P!Reply
<1> QED
  BY <1>1, <1>2, TakeTypes DEF P!TypeOK, P!Packets

\* A stray reply.
LEMMA StrayTypes ==
    ASSUME P!TypeOK, NEW s, NEW r \in {P!Short, P!Kin, P!Alien}, P!StrayReply(s, r)
    PROVE  P!TypeOK'
<1>1. r \in Int /\ P!Take(s, r)
  BY DEF P!Short, P!Kin, P!Alien, P!StrayReply
<1>2. UNCHANGED <<jobs, inflight, owner, written, closed, exited, inTime, clash>>
  BY DEF P!StrayReply
<1> QED
  BY <1>1, <1>2, TakeTypes DEF P!TypeOK, P!Packets

\* Every step keeps the types.
LEMMA TypesPreserved ==
    ASSUME P!TypeOK, [P!Next]_(P!vars)
    PROVE  P!TypeOK'
<1>1. CASE UNCHANGED P!vars
  BY <1>1 DEF P!TypeOK, P!vars, P!Packets
<1>2. CASE P!Exit
  BY <1>2 DEF P!TypeOK, P!Exit, P!Packets
<1> QED
  BY <1>1, <1>2, StartTypes, CancelTypes, RegisterTypes, RunTypes, ReplyTypes, StrayTypes
     DEF P!Next, P!Run

-----------------------------------------------------------------------------
(* The samples.                                                             *)

\* A step that leaves packets and samples alone, and no job in flight ends.
LEMMA QuietCounts ==
    ASSUME CountInv, UNCHANGED <<owner, pending, credit, inTime, clash>>,
           \A j \in DOMAIN jobs : P!Flying(j)' = P!Flying(j)
    PROVE  (P!PendingOwned /\ Overlap /\ Awaited /\ P!CountedExactly)'
<1>1. P!Packets' = P!Packets /\ \A p \in P!Packets : owner[p] \in DOMAIN jobs
  BY DEF P!Packets, CountInv, P!TypeOK
<1>2. \A p \in P!Packets : P!Flying(owner[p])' = P!Flying(owner[p])
  BY <1>1
<1>3. \A s \in DOMAIN pending : pending[s] \in P!Packets
  BY DEF CountInv, P!TypeOK
<1> QED
  BY <1>1, <1>2, <1>3 DEF CountInv, P!PendingOwned, Overlap, Awaited, P!CountedExactly, P!Wire

\* Which jobs are in flight after a step of the read loop, a write or a result.
LEMMA QuietSteps ==
    ASSUME CountInv, NEW j \in DOMAIN jobs,
           \/ \E id \in Id : P!Start(id) \/ P!Cancel(id)
           \/ P!Shutdown \/ P!Exit \/ UNCHANGED P!vars
           \/ \E k \in DOMAIN jobs : P!Write(k) \/ P!Emit(k)
    PROVE  P!Flying(j)' = P!Flying(j)
<1>1. jobs \in Seq(P!Job)
  BY DEF CountInv, P!TypeOK
<1>2. ASSUME NEW id \in Id, P!Start(id)
      PROVE  P!Flying(j)' = P!Flying(j)
  BY <1>1, <1>2 DEF P!Start, P!Flying
<1>3. ASSUME NEW id \in Id, P!Cancel(id)
      PROVE  P!Flying(j)' = P!Flying(j)
  BY <1>1, <1>3 DEF P!Cancel, P!Flying
<1>4. CASE P!Shutdown
  <2>1. jobs[j] \in P!Job /\ jobs'[j] = [jobs[j] EXCEPT !.cancelled = TRUE]
    BY <1>1, <1>4 DEF P!Shutdown
  <2> QED
    BY <2>1 DEF P!Flying, P!Job
<1>5. CASE P!Exit \/ UNCHANGED P!vars
  BY <1>5 DEF P!Exit, P!vars, P!Flying
<1>6. ASSUME NEW k \in DOMAIN jobs, P!Write(k) \/ P!Emit(k)
      PROVE  P!Flying(j)' = P!Flying(j)
  <2>1. PICK at : /\ jobs' = [jobs EXCEPT ![k].at = at]
                  /\ <<jobs[k].at, at>> \in {<<"registered", "run">>, <<"cleaned", "done">>}
    BY <1>6 DEF P!Write, P!Emit, P!Step
  <2>2. jobs[k] \in P!Job
    BY <1>1, <1>6
  <2>3. jobs'[k].at = at /\ (j # k => jobs'[j] = jobs[j])
    BY <1>1, <2>1, <2>2 DEF P!Job
  <2> QED
    BY <2>1, <2>3 DEF P!Flying
<1> QED
  BY <1>2, <1>3, <1>4, <1>5, <1>6

\* A new packet takes a sequence number from nobody without a clash.
LEMMA RegisterCounts ==
    ASSUME CountInv, NEW j \in DOMAIN jobs, P!Register(j), P!TypeOK'
    PROVE  (P!PendingOwned /\ Overlap /\ Awaited /\ P!CountedExactly)'
<1> DEFINE p == Len(owner) + 1
<1>1. /\ Len(owner) \in Nat /\ P!Packets = 1 .. Len(owner) /\ jobs \in Seq(P!Job)
      /\ owner \in Seq(Nat) /\ credit \in Seq(Int) /\ Len(credit) = Len(owner)
      /\ j \in Nat /\ clash \subseteq P!Packets /\ inTime \subseteq P!Packets
  BY DEF CountInv, P!TypeOK, P!Packets
<1>2. /\ P!Packets' = P!Packets \cup {p} /\ p \notin P!Packets
      /\ \A q \in P!Packets : owner'[q] = owner[q] /\ credit'[q] = credit[q] /\ q < p
      /\ owner'[p] = j /\ credit'[p] = 0
  BY <1>1 DEF P!Register, P!Packets
<1>3. P!Flying(j)' /\ \A k \in DOMAIN jobs : P!Flying(k)' <=> P!Flying(k)
  <2>1. jobs[j] \in P!Job /\ jobs[j].at = "run"
    BY <1>1 DEF P!Register
  <2>2. jobs' = [jobs EXCEPT ![j] = [jobs[j] EXCEPT !.at = "registered", !.last = p]]
    BY DEF P!Register
  <2>3. jobs'[j].at = "registered" /\ \A k \in DOMAIN jobs : k # j => jobs'[k] = jobs[k]
    BY <1>1, <2>1, <2>2 DEF P!Job
  <2> QED
    BY <2>1, <2>3 DEF P!Flying
<1>4. \A q \in P!Packets : owner[q] \in DOMAIN jobs
  BY DEF CountInv, P!TypeOK
<1>5. \A q \in P!Packets : P!Flying(owner[q])' <=> P!Flying(owner[q])
  BY <1>2, <1>3, <1>4
<1>6. /\ DOMAIN pending' = DOMAIN pending \cup {P!Wire(p)}
      /\ \A s \in DOMAIN pending' : pending'[s] = IF s = P!Wire(p) THEN p ELSE pending[s]
  BY DEF P!Register, P!Put
<1> HIDE DEF p
<1>7. /\ clash \subseteq clash' /\ inTime' = inTime
      /\ \A q \in P!Packets : P!Wire(q) = P!Wire(p) /\ P!Flying(owner[q]) => q \in clash' /\ p \in clash'
      /\ \A q \in P!Packets : q \in clash' => q \in clash \/ (P!Wire(q) = P!Wire(p) /\ P!Flying(owner[q]))
  <2>1. clash' = IF P!Rivals(p) = {} THEN clash ELSE clash \cup P!Rivals(p) \cup {p}
    BY DEF P!Register, p
  <2>2. \A q : q \in P!Rivals(p) <=> q \in P!Packets /\ P!Wire(q) = P!Wire(p) /\ P!Flying(owner[q])
    BY DEF P!Rivals
  <2>3. inTime' = inTime
    BY DEF P!Register
  <2>4. CASE P!Rivals(p) = {}
    BY <2>1, <2>2, <2>3, <2>4
  <2>5. CASE P!Rivals(p) # {}
    BY <1>2, <2>1, <2>2, <2>3, <2>5
  <2> QED
    BY <2>4, <2>5
<1>8. \A s \in DOMAIN pending : pending[s] \in P!Packets
  BY DEF CountInv, P!TypeOK
<1>9. P!PendingOwned'
  BY <1>2, <1>3, <1>5, <1>6, <1>8 DEF CountInv, P!PendingOwned, P!Wire
<1>10. Overlap'
  <2> SUFFICES ASSUME NEW a \in P!Packets', NEW b \in P!Packets', a < b, P!Wire(a) = P!Wire(b),
                      P!Flying(owner[a])'
               PROVE  a \in clash' /\ b \in clash'
    BY DEF Overlap, P!Wire
  <2>1. a \in P!Packets
    BY <1>1, <1>2
  <2>2. P!Flying(owner[a])
    BY <1>2, <1>5, <2>1
  <2>3. CASE b = p
    BY <1>7, <2>1, <2>2, <2>3
  <2>4. CASE b \in P!Packets
    BY <1>7, <2>1, <2>2, <2>4 DEF CountInv, Overlap
  <2> QED
    BY <1>2, <2>3, <2>4
<1>11. Awaited'
  BY <1>2, <1>5, <1>6, <1>7 DEF CountInv, Awaited, P!Wire
<1>12. P!CountedExactly'
  BY <1>1, <1>2, <1>7 DEF CountInv, P!CountedExactly
<1> QED
  BY <1>9, <1>10, <1>11, <1>12

\* A job takes its own samples with it, and those of others only in a clash.
LEMMA CleanUpCounts ==
    ASSUME CountInv, NEW j \in DOMAIN jobs, P!CleanUp(j)
    PROVE  (P!PendingOwned /\ Overlap /\ Awaited /\ P!CountedExactly)'
<1>1. /\ jobs \in Seq(P!Job) /\ P!Packets' = P!Packets
      /\ \A p \in P!Packets : owner[p] \in DOMAIN jobs
      /\ UNCHANGED <<owner, credit, inTime, clash>>
  BY DEF CountInv, P!TypeOK, P!CleanUp, P!Packets
<1>2. P!Flying(j) /\ \A k \in DOMAIN jobs : P!Flying(k)' <=> P!Flying(k) /\ k # j
  BY <1>1 DEF P!CleanUp, P!Step, P!Flying
<1>3. \A p \in P!Packets : P!Flying(owner[p])' <=> P!Flying(owner[p]) /\ owner[p] # j
  BY <1>1, <1>2
<1>4. /\ DOMAIN pending' = DOMAIN pending \ {P!Wire(p) : p \in P!Sent(j)}
      /\ \A s \in DOMAIN pending' : pending'[s] = pending[s]
  BY DEF P!CleanUp, P!Except
<1>5. \A s \in DOMAIN pending : pending[s] \in P!Packets
  BY DEF CountInv, P!TypeOK
<1>6. P!PendingOwned'
  BY <1>1, <1>3, <1>4, <1>5 DEF CountInv, P!PendingOwned, P!Wire, P!Sent
<1>7. Overlap'
  BY <1>1, <1>3 DEF CountInv, Overlap, P!Wire
<1>8. Awaited'
  <2> SUFFICES ASSUME NEW p \in P!Packets, p \notin clash, P!Flying(owner[p]), owner[p] # j,
                      credit[p] = 0
               PROVE  P!Wire(p) \in DOMAIN pending' /\ pending'[P!Wire(p)] = p
    BY <1>1, <1>3 DEF Awaited, P!Wire
  <2>1. P!Wire(p) \in DOMAIN pending /\ pending[P!Wire(p)] = p
    BY DEF CountInv, Awaited
  <2>2. ASSUME NEW r \in P!Sent(j), P!Wire(r) = P!Wire(p)
        PROVE  FALSE
    <3>1. r \in P!Packets /\ owner[r] = j /\ r # p /\ r \in Nat /\ p \in Nat
      BY DEF P!Sent, P!Packets
    <3>2. r < p \/ p < r
      BY <3>1
    <3> QED
      BY <1>2, <2>2, <3>1, <3>2 DEF CountInv, Overlap
  <2> QED
    BY <1>4, <2>1, <2>2
<1>9. P!CountedExactly'
  BY <1>1 DEF CountInv, P!CountedExactly
<1> QED
  BY <1>6, <1>7, <1>8, <1>9

\* A pending sample is taken: it waits no longer, and no other does less.
LEMMA TakeCounts ==
    ASSUME CountInv, NEW s \in DOMAIN pending, NEW reply \in Int \ {0}, P!Take(s, reply),
           UNCHANGED <<jobs, owner, clash>>
    PROVE  /\ P!PendingOwned' /\ Overlap' /\ Awaited'
           /\ \A p \in P!Packets : credit'[p] = IF p = pending[s] THEN reply ELSE credit[p]
<1> DEFINE x == pending[s]
<1>1. /\ P!Packets' = P!Packets /\ P!Packets \subseteq Nat
      /\ credit \in Seq(Int) /\ DOMAIN credit = P!Packets
      /\ \A t \in DOMAIN pending : pending[t] \in P!Packets
  BY DEF CountInv, P!TypeOK, P!Packets
<1>2. \A p \in P!Packets : P!Flying(owner[p])' <=> P!Flying(owner[p])
  BY DEF P!Flying
<1>3. x \in P!Packets /\ P!Wire(x) = s
  BY <1>1 DEF CountInv, P!PendingOwned
<1>4. \A p \in P!Packets : credit'[p] = IF p = x THEN reply ELSE credit[p]
  BY <1>1, <1>3 DEF P!Take
<1>5. /\ DOMAIN pending' = DOMAIN pending \ {s}
      /\ \A t \in DOMAIN pending' : pending'[t] = pending[t]
  BY DEF P!Take, P!Except
<1>6. Overlap'
  BY <1>1, <1>2 DEF CountInv, Overlap, P!Wire
<1> HIDE DEF x
<1>7. P!PendingOwned'
  <2> SUFFICES ASSUME NEW t \in DOMAIN pending, t # s
               PROVE  /\ P!Wire(pending[t]) = t /\ P!Flying(owner[pending[t]])'
                      /\ credit'[pending[t]] = 0
    BY <1>5 DEF P!PendingOwned, P!Wire
  <2>1. pending[t] \in P!Packets /\ P!Wire(pending[t]) = t /\ P!Flying(owner[pending[t]])
        /\ credit[pending[t]] = 0
    BY <1>1 DEF CountInv, P!PendingOwned
  <2>2. pending'[t] = pending[t] /\ pending[t] # x
    BY <1>3, <1>5, <2>1
  <2> QED
    BY <1>2, <1>4, <2>1, <2>2
<1>8. Awaited'
  <2> SUFFICES ASSUME NEW p \in P!Packets \ clash, P!Flying(owner[p]), credit'[p] = 0
               PROVE  P!Wire(p) \in DOMAIN pending' /\ pending'[P!Wire(p)] = p
    BY <1>1, <1>2 DEF Awaited, P!Wire
  <2>1. p # x /\ P!Wire(p) \in DOMAIN pending /\ pending[P!Wire(p)] = p
    BY <1>4 DEF CountInv, Awaited
  <2> QED
    BY <1>5, <2>1 DEF x
<1> QED
  BY <1>4, <1>6, <1>7, <1>8 DEF x

\* A reply is taken for its own packet, or for one a whole round later.
LEMMA ReplyCounts ==
    ASSUME CountInv, NEW q \in P!Packets, P!Reply(q)
    PROVE  (P!PendingOwned /\ Overlap /\ Awaited /\ P!CountedExactly)'
<1>1. /\ UNCHANGED <<jobs, owner, clash>> /\ P!Packets' = P!Packets /\ q \in Nat \ {0}
      /\ P!Packets \subseteq Nat \ {0} /\ P!Take(P!Wire(q), q)
      /\ inTime' = IF P!Flying(owner[q]) THEN inTime \cup {q} ELSE inTime
  BY DEF CountInv, P!TypeOK, P!Reply, P!Packets
<1>2. \A p \in P!Packets : P!Flying(owner[p])' <=> P!Flying(owner[p])
  BY <1>1 DEF P!Flying
<1>3. \A s \in DOMAIN pending : pending[s] \in P!Packets
  BY DEF CountInv, P!TypeOK
<1>4. CASE P!Wire(q) \notin DOMAIN pending
  <2>1. UNCHANGED <<credit, pending>>
    BY <1>1, <1>4 DEF P!Take
  <2>2. P!PendingOwned' /\ Awaited' /\ Overlap'
    BY <1>1, <1>2, <1>3, <2>1 DEF CountInv, P!PendingOwned, Awaited, Overlap, P!Wire
  <2>3. q \in clash \/ ~P!Flying(owner[q]) \/ credit[q] # 0
    BY <1>4 DEF CountInv, Awaited
  <2>4. P!CountedExactly'
    BY <1>1, <2>1, <2>3 DEF CountInv, P!CountedExactly
  <2> QED
    BY <2>2, <2>4
<1>5. CASE P!Wire(q) \in DOMAIN pending
  <2> DEFINE x == pending[P!Wire(q)]
  <2>1. x \in P!Packets /\ P!Wire(x) = P!Wire(q) /\ P!Flying(owner[x])
    BY <1>3, <1>5 DEF CountInv, P!PendingOwned
  <2>2. /\ P!PendingOwned' /\ Overlap' /\ Awaited'
        /\ \A p \in P!Packets : credit'[p] = IF p = x THEN q ELSE credit[p]
    BY <1>1, <1>5, TakeCounts
  <2>3. \A p \in P!Packets : p # x /\ p \notin clash /\ P!Flying(owner[p])
                                 => P!Wire(p) # P!Wire(q) \/ credit[p] # 0
    BY <1>5 DEF CountInv, Awaited
  <2> HIDE DEF x
  <2>4. x \in clash \/ q = x \/ q =< x - SeqSpace
    <3>1. CASE q < x
      BY <1>1, <2>1, <3>1, RoundApart
    <3>2. CASE x < q
      BY <2>1, <3>2 DEF CountInv, Overlap
    <3> QED
      BY <1>1, <2>1, <3>1, <3>2
  <2>5. P!CountedExactly'
    <3> SUFFICES ASSUME NEW p \in P!Packets
                 PROVE  /\ p \notin clash =>
                              /\ p \in inTime' => credit'[p] # 0
                              /\ credit'[p] > 0 => p \in inTime' \/ credit'[p] =< p - SeqSpace
                        /\ credit'[p] < 0 => Raw /\ credit'[p] \in {P!Short, P!Kin}
      BY <1>1 DEF P!CountedExactly, P!Short, P!Kin
    <3>1. CASE p = x
      BY <1>1, <2>1, <2>2, <2>4, <3>1
    <3>2. CASE p # x
      BY <1>1, <2>2, <2>3, <3>2 DEF CountInv, P!CountedExactly
    <3> QED
      BY <3>1, <3>2
  <2> QED
    BY <2>2, <2>5
<1> QED
  BY <1>4, <1>5

\* A stray reply is taken only on a raw socket, and only if it passes.
LEMMA StrayCounts ==
    ASSUME CountInv, NEW s, NEW r \in {P!Short, P!Kin, P!Alien}, P!StrayReply(s, r)
    PROVE  (P!PendingOwned /\ Overlap /\ Awaited /\ P!CountedExactly)'
<1>1. /\ UNCHANGED <<jobs, owner, clash, inTime>> /\ P!Packets' = P!Packets
      /\ Raw /\ P!Take(s, r) /\ r \in {P!Short, P!Kin}
  BY DEF P!StrayReply, P!Passes, P!Packets
<1>2. \A p \in P!Packets : P!Flying(owner[p])' <=> P!Flying(owner[p])
  BY <1>1 DEF P!Flying
<1>3. \A t \in DOMAIN pending : pending[t] \in P!Packets
  BY DEF CountInv, P!TypeOK
<1>4. CASE s \notin DOMAIN pending
  <2>1. UNCHANGED <<credit, pending>>
    BY <1>1, <1>4 DEF P!Take
  <2> QED
    BY <1>1, <1>2, <1>3, <2>1
       DEF CountInv, P!PendingOwned, Awaited, Overlap, P!CountedExactly, P!Wire, P!Short, P!Kin
<1>5. CASE s \in DOMAIN pending
  <2>1. r \in Int \ {0} /\ r < 0
    BY <1>1 DEF P!Short, P!Kin
  <2>2. /\ P!PendingOwned' /\ Overlap' /\ Awaited'
        /\ \A p \in P!Packets : credit'[p] = IF p = pending[s] THEN r ELSE credit[p]
    BY <1>1, <1>5, <2>1, TakeCounts
  <2>3. P!CountedExactly'
    BY <1>1, <2>1, <2>2 DEF CountInv, P!CountedExactly, P!Short, P!Kin
  <2> QED
    BY <2>2, <2>3
<1> QED
  BY <1>4, <1>5

\* Every step keeps the invariant.
LEMMA CountPreserved ==
    ASSUME CountInv, [P!Next]_(P!vars)
    PROVE  CountInv'
<1>1. P!TypeOK'
  BY TypesPreserved DEF CountInv
<1>2. CASE \/ \E id \in Id : P!Start(id) \/ P!Cancel(id)
           \/ P!Shutdown \/ P!Exit \/ UNCHANGED P!vars
           \/ \E k \in DOMAIN jobs : P!Write(k) \/ P!Emit(k)
  <2>1. UNCHANGED <<owner, pending, credit, inTime, clash>>
    BY <1>2 DEF P!Start, P!Cancel, P!Shutdown, P!Exit, P!vars, P!Write, P!Emit
  <2>2. \A j \in DOMAIN jobs : P!Flying(j)' = P!Flying(j)
    BY <1>2, QuietSteps
  <2> QED
    BY <1>1, <2>1, <2>2, QuietCounts DEF CountInv
<1>3. ASSUME NEW j \in DOMAIN jobs, P!Register(j)
      PROVE  CountInv'
  BY <1>1, <1>3, RegisterCounts DEF CountInv
<1>4. ASSUME NEW j \in DOMAIN jobs, P!CleanUp(j)
      PROVE  CountInv'
  BY <1>1, <1>4, CleanUpCounts DEF CountInv
<1>5. ASSUME NEW q \in P!Packets, P!Reply(q)
      PROVE  CountInv'
  BY <1>1, <1>5, ReplyCounts DEF CountInv
<1>6. ASSUME NEW s, NEW r \in {P!Short, P!Kin, P!Alien}, P!StrayReply(s, r)
      PROVE  CountInv'
  BY <1>1, <1>6, StrayCounts DEF CountInv
<1> QED
  BY <1>2, <1>3, <1>4, <1>5, <1>6 DEF P!Next, P!Run

-----------------------------------------------------------------------------
\* The helper is well typed in every reachable state.
THEOREM PingerTypeCorrect == P!Spec => []P!TypeOK
<1>1. P!Init => P!TypeOK
  BY InitCount DEF CountInv
<1>2. P!TypeOK /\ [P!Next]_(P!vars) => P!TypeOK'
  BY TypesPreserved
<1> QED
  BY <1>1, <1>2, PTL DEF P!Spec

\* The inductive invariant holds in every reachable state.
THEOREM CountInductive == P!Spec => []CountInv
<1>1. P!Init => CountInv
  BY InitCount
<1>2. CountInv /\ [P!Next]_(P!vars) => CountInv'
  BY CountPreserved
<1> QED
  BY <1>1, <1>2, PTL DEF P!Spec

\* No sample outlives its job, however many jobs share the map.
THEOREM PendingAlwaysOwned == P!Spec => []PendingOwned
<1>1. CountInv => PendingOwned
  BY DEF CountInv, P!PendingOwned, PendingOwned, P!Wire, Wire, P!Flying, Flying
<1> QED
  BY <1>1, CountInductive, PTL

\* A reply is counted for its own packet, unless sequence numbers clashed or it
\* is older than a whole round of them; any other reply only on a raw socket, if
\* it is short or carries the magic.
THEOREM AlwaysCountedExactly == P!Spec => []CountedExactly
<1>1. CountInv => CountedExactly
  BY DEF CountInv, P!CountedExactly, CountedExactly, P!Packets, Packets,
         P!Short, Short, P!Kin, Kin
<1> QED
  BY <1>1, CountInductive, PTL
=============================================================================
