----------------------------- MODULE PingerState -----------------------------
(***************************************************************************)
(* The state of the privileged helper (cmd/meshping): its jobs, the map of *)
(* pending samples and the packets, and what is promised of them at every  *)
(* moment.  Pinger has the steps.                                          *)
(*                                                                         *)
(* Packets are numbered in the order in which they take a sequence number; *)
(* the number on the wire is that modulo SeqSpace.                         *)
(***************************************************************************)
EXTENDS Integers, Sequences

CONSTANTS
    Id,        \* request IDs
    Count,     \* packets per request
    SeqSpace,  \* the number of sequence numbers, 2^16 in the code
    Raw,       \* the sockets are raw: they receive every echo reply to the host
    MaxJobs    \* bound: requests

ASSUME PingerAssumption ==
    /\ Count \in Nat \ {0} /\ SeqSpace \in Nat \ {0} /\ MaxJobs \in Nat
    /\ Raw \in BOOLEAN

VARIABLES
    jobs,      \* jobs[j]: the j-th request and its goroutine
    inflight,  \* pinger.inflight: from IDs to jobs
    owner,     \* owner[p]: the job of packet p; its length is the counter
    pending,   \* pinger.pending: from sequence numbers to samples
    written,   \* packets given to the network
    credit,    \* credit[p]: what was taken for p's reply, or 0: the reply to a
               \* packet of this helper, by its number, or a stray one
    closed,    \* the context is cancelled: shutdown has begun
    exited,    \* main has returned
    inTime,    \* packets with a reply while their job was in flight (history)
    clash      \* packets that shared a sequence number with one of another
               \* job, or of their own, while both were in flight (history)

Wire(p) == p % SeqSpace

\* Echo replies to requests that are not this helper's.
Short == -1  \* with fewer than eight bytes of data
Kin == -2    \* with the magic, to another helper or to one before this one
Alien == -3  \* of eight bytes or more, without the magic

Packets == 1 .. Len(owner)

Sent(j) == {p \in Packets : owner[p] = j}

\* The job has not yet cleaned up after itself.
Flying(j) == jobs[j].at \in {"run", "registered"}

-----------------------------------------------------------------------------
(* Properties.                                                             *)

\* The shared map holds samples of jobs in flight only, unanswered and under
\* their own numbers: whatever is cancelled, lost or overwritten, nothing is
\* left behind.
PendingOwned ==
    \A s \in DOMAIN pending :
        /\ Wire(pending[s]) = s
        /\ Flying(owner[pending[s]])
        /\ credit[pending[s]] = 0

\* A packet is counted as received when its reply came while its job was in
\* flight, and otherwise only for a stray reply that a raw socket receives and
\* that is short or carries the magic.  A job that ends, a duplicate or a late
\* reply of another job takes nothing away and adds nothing, unless two packets
\* in flight shared a sequence number, or a reply is older than a whole round
\* of them.
CountedExactly ==
    \A p \in Packets :
        /\ p \notin clash =>
               /\ p \in inTime => credit[p] # 0
               /\ credit[p] > 0 => p \in inTime \/ credit[p] =< p - SeqSpace
        /\ credit[p] < 0 => Raw /\ credit[p] \in {Short, Kin}
==============================================================================
