------------------------------- MODULE Pinger -------------------------------
(***************************************************************************)
(* The privileged helper (cmd/meshping): one goroutine per request sends   *)
(* its packets, the receive loops match replies to samples by a 16-bit     *)
(* sequence number through one map shared by all requests, and the read    *)
(* loop starts, cancels and shuts down.                                    *)
(*                                                                         *)
(* A reply may come at any time after its packet was written, more than    *)
(* once, or never; stray ones may come under any number.  Pauses and time  *)
(* limits end at any time.                                                 *)
(***************************************************************************)
EXTENDS PingerState, FiniteSets

vars == <<jobs, inflight, owner, pending, written, credit, closed, exited, inTime, clash>>

Init ==
    /\ jobs = <<>> /\ inflight = <<>>
    /\ owner = <<>> /\ pending = <<>> /\ written = {} /\ credit = <<>>
    /\ closed = FALSE /\ exited = FALSE
    /\ inTime = {} /\ clash = {}

Except(f, S) == [x \in DOMAIN f \ S |-> f[x]]
Put(f, x, v) == [y \in DOMAIN f \cup {x} |-> IF y = x THEN v ELSE f[y]]

-----------------------------------------------------------------------------
(* readLoop.                                                               *)

\* start: a request whose ID is in flight is refused with an error.
Start(id) ==
    /\ ~closed /\ Len(jobs) < MaxJobs
    /\ id \notin DOMAIN inflight
    /\ jobs' = Append(jobs, [id |-> id, at |-> "run", last |-> 0, cancelled |-> FALSE])
    /\ inflight' = Put(inflight, id, Len(jobs) + 1)
    /\ UNCHANGED <<owner, pending, written, credit, closed, exited, inTime, clash>>

\* A cancel message; it finds only what is in flight.
Cancel(id) ==
    /\ ~closed /\ id \in DOMAIN inflight
    /\ jobs' = [jobs EXCEPT ![inflight[id]].cancelled = TRUE]
    /\ UNCHANGED <<inflight, owner, pending, written, credit, closed, exited, inTime, clash>>

\* The end of the input, or a shutdown message: main cancels every job.
Shutdown ==
    /\ ~closed /\ closed' = TRUE
    /\ jobs' = [j \in DOMAIN jobs |-> [jobs[j] EXCEPT !.cancelled = TRUE]]
    /\ UNCHANGED <<inflight, owner, pending, written, credit, exited, inTime, clash>>

\* shutdown returns when every job has, or when the grace period is over.
Exit ==
    /\ closed /\ ~exited /\ exited' = TRUE
    /\ UNCHANGED <<jobs, inflight, owner, pending, written, credit, closed, inTime, clash>>

-----------------------------------------------------------------------------
(* run.                                                                    *)

Step(j, from, to) == jobs[j].at = from /\ jobs' = [jobs EXCEPT ![j].at = to]

Rivals(p) == {q \in Packets : Wire(q) = Wire(p) /\ Flying(owner[q])}

\* The next packet takes a sequence number and its sample becomes pending.
Register(j) ==
    /\ jobs[j].at = "run" /\ ~jobs[j].cancelled /\ Cardinality(Sent(j)) < Count
    /\ LET p == Len(owner) + 1 IN
       /\ jobs' = [jobs EXCEPT ![j].at = "registered", ![j].last = p]
       /\ owner' = Append(owner, j)
       /\ credit' = Append(credit, 0)
       /\ pending' = Put(pending, Wire(p), p)
       /\ clash' = IF Rivals(p) = {} THEN clash ELSE clash \cup Rivals(p) \cup {p}
    /\ UNCHANGED <<inflight, written, closed, exited, inTime>>

\* The write, and the pause after it; a packet that could not be written stays
\* pending and counts as sent.
Write(j) ==
    /\ Step(j, "registered", "run")
    /\ written' \in {written, written \cup {jobs[j].last}}
    /\ UNCHANGED <<inflight, owner, pending, credit, closed, exited, inTime, clash>>

\* Defect: a cancelled job leaves its samples behind.
CleanUpUnlessCancelled(j) ==
    /\ jobs[j].cancelled \/ Cardinality(Sent(j)) = Count
    /\ Step(j, "run", "cleaned")
    /\ pending' = IF jobs[j].cancelled THEN pending
                  ELSE Except(pending, {Wire(p) : p \in Sent(j)})
    /\ inflight' = Except(inflight, {jobs[j].id})
    /\ UNCHANGED <<owner, written, credit, closed, exited, inTime, clash>>

\* Defect: every pending sample is dropped.
CleanUpEverything(j) ==
    /\ jobs[j].cancelled \/ Cardinality(Sent(j)) = Count
    /\ Step(j, "run", "cleaned")
    /\ pending' = <<>>
    /\ inflight' = Except(inflight, {jobs[j].id})
    /\ UNCHANGED <<owner, written, credit, closed, exited, inTime, clash>>

\* After the last packet and its time limit, or a cancel: nothing is pending
\* under the job's sequence numbers any more.
CleanUp(j) ==
    /\ jobs[j].cancelled \/ Cardinality(Sent(j)) = Count
    /\ Step(j, "run", "cleaned")
    /\ pending' = Except(pending, {Wire(p) : p \in Sent(j)})
    /\ inflight' = Except(inflight, {jobs[j].id})
    /\ UNCHANGED <<owner, written, credit, closed, exited, inTime, clash>>

\* collect, and the one Result.
Emit(j) ==
    /\ Step(j, "cleaned", "done")
    /\ UNCHANGED <<inflight, owner, pending, written, credit, closed, exited, inTime, clash>>

Run(j) == Register(j) \/ Write(j) \/ CleanUp(j) \/ Emit(j)

-----------------------------------------------------------------------------
(* recvLoop.                                                               *)

\* The sample pending under sequence number s is taken.
Take(s, reply) ==
    IF s \in DOMAIN pending
    THEN /\ credit' = [credit EXCEPT ![pending[s]] = reply]
         /\ pending' = Except(pending, {s})
    ELSE UNCHANGED <<credit, pending>>

\* A reply to packet q.  Once the context is cancelled a receive loop takes at
\* most the reply it has read; more of them are allowed here.
Reply(q) ==
    /\ q \in written
    /\ Take(Wire(q), q)
    /\ inTime' = IF Flying(owner[q]) THEN inTime \cup {q} ELSE inTime
    /\ UNCHANGED <<jobs, inflight, owner, written, closed, exited, clash>>

\* Defect: the magic is not looked at.
PassesAll(r) == TRUE

\* The magic is looked at only when there is room for it and for the number.
Passes(r) == r # Alien

\* A stray reply.  On a datagram socket the kernel delivers none; on a raw one
\* neither the sender nor the identifier is compared.
StrayReply(s, r) ==
    /\ Raw /\ Passes(r)
    /\ Take(s, r)
    /\ UNCHANGED <<jobs, inflight, owner, written, closed, exited, inTime, clash>>

-----------------------------------------------------------------------------
Next ==
    ~exited /\ \/ \E id \in Id : Start(id) \/ Cancel(id)
               \/ Shutdown \/ Exit
               \/ \E j \in DOMAIN jobs : Run(j)
               \/ \E q \in Packets : Reply(q)
               \/ \E s \in 0 .. SeqSpace - 1, r \in {Short, Kin, Alien} : StrayReply(s, r)

Spec == Init /\ [][Next]_vars

-----------------------------------------------------------------------------
\* The types.
Job == [id : Id, at : {"run", "registered", "cleaned", "done"}, last : Nat, cancelled : BOOLEAN]

TypeOK ==
    /\ jobs \in Seq(Job)
    /\ \A j \in DOMAIN jobs : jobs[j].at = "registered" => jobs[j].last \in Packets
    /\ owner \in Seq(Nat) /\ \A p \in Packets : owner[p] \in DOMAIN jobs
    /\ credit \in Seq(Int) /\ Len(credit) = Len(owner)
    /\ \A s \in DOMAIN pending : pending[s] \in Packets
    /\ DOMAIN inflight \subseteq Id
    /\ \A id \in DOMAIN inflight : inflight[id] \in DOMAIN jobs
    /\ written \subseteq Packets /\ inTime \subseteq Packets /\ clash \subseteq Packets
    /\ closed \in BOOLEAN /\ exited \in BOOLEAN
=============================================================================
