-------------------------------- MODULE Probe --------------------------------
(***************************************************************************)
(* The measurement of one task: the UDP and TCP probers (internal/probe/   *)
(* udp, tcp), the echo responder of the other node (internal/responder),   *)
(* the network between them, and the rolling window that turns cycles into *)
(* statistics (internal/probe).                                            *)
(*                                                                         *)
(* The node is fast against the clock: time does not pass while one of its *)
(* goroutines can take a step.  The network takes any time, loses,         *)
(* duplicates and reorders packets.                                        *)
(***************************************************************************)
EXTENDS Integers, Sequences, FiniteSets, SequencesExt, FiniteSetsExt, Functions

CONSTANTS
    Kind,       \* the kinds of probe: a subset of {"udp", "connect", "echo"}
    Count,      \* packets or connections per cycle
    Interval,   \* the pause between them
    Timeout,    \* how long a reply may take after the last one
    Pieces,     \* the pieces that the network may cut a TCP payload into
    Dur,        \* the length of the window
    MaxNow,     \* bound: the clock
    MaxCycles,  \* bound: cycles
    MaxFaults,  \* bound: failed system calls
    MaxDups     \* bound: duplicated packets

ASSUME ProbeAssumption ==
    /\ Kind \subseteq {"udp", "connect", "echo"}
    /\ Count \in Nat \ {0} /\ Interval \in Nat /\ Timeout \in Nat \ {0}
    /\ Pieces \in Nat \ {0} /\ Dur \in Nat \ {0}
    /\ {MaxNow, MaxCycles, MaxFaults, MaxDups} \subseteq Nat

VARIABLES
    now,        \* the clock
    at,         \* where the task's goroutine is
    cancelled,  \* the task's context
    kind,       \* the kind of the cycle
    c,          \* the Cycle being measured
    i,          \* packets or connections begun
    wake,       \* when the pause or the connection ends
    deadline,   \* of the reads
    sent,       \* from the sequence numbers sent to the times
    got,        \* from the sequence numbers answered to samples
    highest,    \* the highest sequence number read in order
    flying,     \* packets and their echoes under way
    buffer,     \* what the socket holds: sequence numbers and arrival times
    conn,       \* the TCP connection
    window,     \* Window: samples and counters
    used,       \* faults and duplicates so far (bounds)
    arrivals,   \* the first copies in the order of their arrival (history)
    broken,     \* what went wrong in the cycle (history)
    log         \* every cycle (history)

clock == <<now, cancelled>>
cycle == <<kind, c, i, wake, deadline, sent, got, highest>>
link == <<flying, buffer, arrivals>>
vars == <<now, at, cancelled, kind, c, i, wake, deadline, sent, got, highest,
          flying, buffer, conn, window, used, arrivals, broken, log>>

Seqs == 1 .. Count

NoCycle == [start |-> 0, sent |-> 0, received |-> 0, lost |-> 0, reordered |-> 0, rtt |-> <<>>]

NoConn == [open |-> FALSE, unread |-> 0, echoed |-> 0, since |-> 0]

Init ==
    /\ now = 0 /\ at = "idle" /\ cancelled = FALSE
    /\ kind = "udp" /\ c = NoCycle /\ i = 0 /\ wake = 0 /\ deadline = 0
    /\ sent = <<>> /\ got = <<>> /\ highest = 0
    /\ flying = {} /\ buffer = <<>>
    /\ conn = NoConn
    /\ window = [samples |-> <<>>, counters |-> <<>>]
    /\ used = [faults |-> 0, dups |-> 0]
    /\ arrivals = <<>> /\ broken = {} /\ log = <<>>

Fault(what) ==
    /\ used.faults < MaxFaults
    /\ used' = [used EXCEPT !.faults = @ + 1]
    /\ broken' = broken \cup {what}

Put(f, x, v) == [y \in DOMAIN f \cup {x} |-> IF y = x THEN v ELSE f[y]]

-----------------------------------------------------------------------------
(* The window.                                                             *)

\* Defect: an entry of exactly the window's age is dropped.
Late(e) == e.at =< now - Dur

\* expire drops from the front while the entry is before the cut.
Fresh(e) == e.at >= now - Dur

Expired(s) ==
    LET firstFresh == CHOOSE n \in 1 .. Len(s) + 1 :
            /\ n =< Len(s) => Fresh(s[n])
            /\ \A m \in 1 .. n - 1 : ~Fresh(s[m])
    IN  SubSeq(s, firstFresh, Len(s))

ExpiredWindow(w) == [samples |-> Expired(w.samples), counters |-> Expired(w.counters)]

Samples(cyc) == [n \in 1 .. Len(cyc.rtt) |-> [at |-> cyc.start, s |-> cyc.rtt[n]]]

Counter(cyc) == [at |-> cyc.start, sent |-> cyc.sent, received |-> cyc.received,
                 lost |-> cyc.lost, reordered |-> cyc.reordered]

\* Add.
Added(cyc) == [samples |-> window.samples \o Samples(cyc),
               counters |-> Append(window.counters, Counter(cyc))]

\* Stats, for the API, at any time.
ReadStats ==
    /\ window' = ExpiredWindow(window) /\ window' # window
    /\ UNCHANGED <<clock, at, cycle, link, conn, used, broken, log>>

-----------------------------------------------------------------------------
(* runCycle and the start of Probe.                                        *)

\* The locals of a call of Probe.
NewCycle ==
    /\ kind' = "udp" /\ c' = NoCycle
    /\ i' = 0 /\ wake' = 0 /\ deadline' = 0
    /\ sent' = <<>> /\ got' = <<>> /\ highest' = 0

Begin(k) ==
    /\ at = "idle" /\ ~cancelled /\ Len(log) < MaxCycles
    /\ at' = "sending" /\ kind' = k
    /\ c' = [c EXCEPT !.start = now]
    /\ UNCHANGED <<clock, i, wake, deadline, sent, got, highest, link, conn, window, used,
                   broken, log>>

\* The socket cannot be opened: a cycle without a packet.
DialFails ==
    /\ at = "sending" /\ kind = "udp" /\ i = 0
    /\ Fault("dial") /\ at' = "done"
    /\ UNCHANGED <<clock, cycle, link, conn, window, log>>

\* The pause after packet or connection n: none after the last.
Pause(n) == wake' = IF n < Count THEN now + Interval ELSE now

\* The sending loop goes on.
Going == at = "sending" /\ i < Count /\ now >= wake /\ ~cancelled

\* The cycle is handed over: Window.Add, and Stats for the metrics.
Finish ==
    /\ at = "done" /\ at' = "idle"
    /\ window' = ExpiredWindow(Added(c))
    /\ log' = Append(log, c)
    /\ NewCycle
    /\ flying' = {} /\ buffer' = <<>> /\ arrivals' = <<>> /\ broken' = {}
    /\ UNCHANGED <<clock, conn, used>>

-----------------------------------------------------------------------------
(* udp.                                                                    *)

Send ==
    /\ kind = "udp" /\ Going
    /\ i' = i + 1 /\ Pause(i + 1)
    /\ c' = [c EXCEPT !.sent = @ + 1]
    /\ sent' = Put(sent, i + 1, now)
    /\ flying' = flying \cup {i + 1}
    /\ UNCHANGED <<clock, at, kind, deadline, got, highest, buffer, arrivals,
                   conn, window, used, broken, log>>

\* A failed write is not counted, and the next packet follows at once.
SendFails ==
    /\ kind = "udp" /\ Going /\ Fault("send")
    /\ i' = i + 1
    /\ UNCHANGED <<clock, at, kind, c, wake, deadline, sent, got, highest, link, conn,
                   window, log>>

SendingEnds ==
    /\ at = "sending" /\ (cancelled \/ (i = Count /\ now >= wake))
    /\ at' = IF kind = "udp" /\ c.sent > 0 THEN "receiving" ELSE "done"
    /\ deadline' = now + Timeout
    /\ UNCHANGED <<clock, kind, c, i, wake, sent, got, highest, link, conn, window, used,
                   broken, log>>

\* Defect: the round trip of every packet begins when the sending ends.
SampleFromEnd(m) ==
    [seq |-> m.seq, rtt |-> now - (deadline - Timeout), wire |-> m.at - sent[m.seq]]

\* The round trip ends when the reply is read; with it, for the properties,
\* the packet and the time that the reply took to arrive.
Sample(m) == [seq |-> m.seq, rtt |-> now - sent[m.seq], wire |-> m.at - sent[m.seq]]

\* Defect: the sequence number read last is compared, not the highest one.
ReceiveLast ==
    /\ at = "receiving" /\ buffer # <<>> /\ now < deadline
    /\ Cardinality(DOMAIN got) < Cardinality(DOMAIN sent)
    /\ LET m == Head(buffer) IN
       IF m.seq \in DOMAIN got
       THEN UNCHANGED <<got, highest, c>>
       ELSE /\ got' = Put(got, m.seq, Sample(m))
            /\ highest' = m.seq
            /\ c' = IF m.seq < highest THEN [c EXCEPT !.reordered = @ + 1] ELSE c
    /\ buffer' = Tail(buffer)
    /\ UNCHANGED <<clock, at, kind, i, wake, deadline, sent, flying, arrivals,
                   conn, window, used, broken, log>>

\* receive: one reply.
Receive ==
    /\ at = "receiving" /\ buffer # <<>> /\ now < deadline
    /\ Cardinality(DOMAIN got) < Cardinality(DOMAIN sent)
    /\ LET m == Head(buffer) IN
       IF m.seq \in DOMAIN got
       THEN UNCHANGED <<got, highest, c>>
       ELSE /\ got' = Put(got, m.seq, Sample(m))
            /\ highest' = IF m.seq < highest THEN highest ELSE m.seq
            /\ c' = IF m.seq < highest THEN [c EXCEPT !.reordered = @ + 1] ELSE c
    /\ buffer' = Tail(buffer)
    /\ UNCHANGED <<clock, at, kind, i, wake, deadline, sent, flying, arrivals,
                   conn, window, used, broken, log>>

\* The n-th of a set of numbers.
Nth(S, n) == CHOOSE s \in S : Cardinality({t \in S : t =< s}) = n

\* The samples in send order.
Collected == [n \in 1 .. Cardinality(DOMAIN got) |-> got[Nth(DOMAIN got, n)]]

\* The end of Probe: every packet without a reply is lost.
Collect ==
    /\ at' = "done"
    /\ c' = [c EXCEPT !.received = Cardinality(DOMAIN got),
                      !.lost = Cardinality(DOMAIN sent \ DOMAIN got),
                      !.rtt = Collected]
    /\ UNCHANGED <<clock, kind, i, wake, deadline, sent, got, highest, link, conn, window, log>>

\* Everything is answered, or the deadline has passed.
ReceivingEnds ==
    /\ at = "receiving"
    /\ DOMAIN got = DOMAIN sent \/ now >= deadline
    /\ Collect
    /\ UNCHANGED <<used, broken>>

\* A read error, as when the port is closed, ends the cycle at once.
ReadFails ==
    /\ at = "receiving" /\ DOMAIN got # DOMAIN sent
    /\ Fault("read")
    /\ Collect

-----------------------------------------------------------------------------
(* The network and serveUDP.                                               *)

\* The responder has echoed packet s, and the echo reaches the socket, maybe
\* not for the last time.  A packet that is lost, or that no responder
\* answers, stays under way until the socket is closed.
Arrive(s) ==
    /\ s \in flying /\ at \in {"sending", "receiving"}
    /\ buffer' = Append(buffer, [seq |-> s, at |-> now])
    /\ arrivals' = IF s \in Range(arrivals) \/ (at = "receiving" /\ now >= deadline)
                   THEN arrivals ELSE Append(arrivals, s)
    /\ \/ flying' = flying \ {s} /\ UNCHANGED used
       \/ /\ used.dups < MaxDups /\ UNCHANGED flying
          /\ used' = [used EXCEPT !.dups = @ + 1]
    /\ UNCHANGED <<clock, at, cycle, conn, window, broken, log>>

-----------------------------------------------------------------------------
(* tcp and handleConn.                                                     *)

\* One attempt begins: connected at once, the payload written, or refused.
Dial ==
    /\ kind # "udp" /\ Going
    /\ i' = i + 1 /\ wake' = now + Timeout
    /\ c' = [c EXCEPT !.sent = @ + 1]
    /\ at' = "connected"
    /\ \E n \in 1 .. Pieces :
        conn' = [open |-> TRUE, unread |-> IF kind = "echo" THEN n ELSE 0,
                 echoed |-> 0, since |-> now]
    /\ UNCHANGED <<clock, kind, deadline, sent, got, highest, link, window, used, broken, log>>

\* The responder's Read returns what has come so far.  Only the first piece
\* of a payload has a header, and is taken to hold the whole of it: any other
\* read is rejected and the connection closed.
Read ==
    /\ conn.open /\ conn.unread > 0
    /\ IF conn.echoed = 0
       THEN \E n \in 1 .. conn.unread :
                /\ conn' = [conn EXCEPT !.unread = @ - n, !.echoed = n]
                /\ UNCHANGED broken
       ELSE /\ conn' = [conn EXCEPT !.open = FALSE]
            /\ broken' = broken \cup {"pieces"}
    /\ UNCHANGED <<clock, at, cycle, link, window, used, log>>

AttemptEnds ==
    /\ at = "connected" /\ at' = "sending"
    /\ Pause(i) /\ conn' = NoConn
    /\ UNCHANGED <<clock, kind, i, deadline, sent, got, highest, link, window, log>>

\* connectOnce, or the whole payload came back in echoOnce.
Succeeds ==
    /\ at = "connected" /\ conn.open /\ conn.unread = 0
    /\ c' = [c EXCEPT !.received = @ + 1,
                      !.rtt = Append(@, [seq |-> i, rtt |-> now - conn.since,
                                         wire |-> now - conn.since])]
    /\ AttemptEnds /\ UNCHANGED <<used, broken>>

\* The connection is refused or lost, closed by the responder, cancelled, or
\* too slow.  The dial and the echo are one attempt, which a cancel may end at
\* any time; the code ends only the dial for it, and the echo at its deadline.
Fails ==
    /\ at = "connected"
    /\ \/ Fault("tcp")
       \/ (~conn.open \/ cancelled \/ now >= wake) /\ UNCHANGED <<used, broken>>
    /\ c' = [c EXCEPT !.lost = @ + 1]
    /\ AttemptEnds

-----------------------------------------------------------------------------
(* Time.                                                                   *)

\* The goroutine of the task can take a step.
Ready ==
    \/ at = "sending" /\ (now >= wake \/ cancelled)
    \/ at = "receiving" /\ (buffer # <<>> \/ DOMAIN got = DOMAIN sent \/ now >= deadline)
    \/ at = "connected" /\ (~conn.open \/ cancelled \/ now >= wake \/ conn.unread = 0)
    \/ at = "done"

Tick ==
    /\ now < MaxNow /\ ~Ready
    /\ now' = now + 1
    /\ UNCHANGED <<at, cancelled, cycle, link, conn, window, used, broken, log>>

\* The runner stops the task.
Cancel ==
    /\ ~cancelled /\ cancelled' = TRUE
    /\ UNCHANGED <<now, at, cycle, link, conn, window, used, broken, log>>

Next ==
    \/ \E k \in Kind : Begin(k)
    \/ DialFails \/ Send \/ SendFails \/ SendingEnds
    \/ Receive \/ ReceivingEnds \/ ReadFails \/ Finish
    \/ \E s \in Seqs : Arrive(s)
    \/ Dial \/ Read \/ Succeeds \/ Fails
    \/ ReadStats \/ Tick \/ Cancel

Spec == Init /\ [][Next]_vars

-----------------------------------------------------------------------------
\* The types.
SampleType == [seq : Nat, rtt : Int, wire : Int]

Cycle == [start : Nat, sent : Nat, received : Nat, lost : Nat, reordered : Nat,
          rtt : Seq(SampleType)]

Entry == [at : Nat, s : SampleType]

CounterType == [at : Nat, sent : Nat, received : Nat, lost : Nat, reordered : Nat]

TaskOK ==
    /\ now \in Nat /\ cancelled \in BOOLEAN
    /\ at \in {"idle", "sending", "receiving", "connected", "done"}
    /\ kind \in {"udp", "connect", "echo"}
    /\ i \in Nat /\ wake \in Nat /\ deadline \in Nat /\ highest \in Nat

PacketsOK ==
    /\ sent \in [DOMAIN sent -> Nat] /\ DOMAIN sent \subseteq 1 .. i
    /\ got \in [DOMAIN got -> SampleType] /\ DOMAIN got \subseteq DOMAIN sent
    /\ flying \subseteq DOMAIN sent
    /\ buffer \in Seq([seq : DOMAIN sent, at : Nat]) /\ arrivals \in Seq(DOMAIN sent)

ConnOK == conn \in [open : BOOLEAN, unread : Nat, echoed : Nat, since : Nat]

WindowOK ==
    /\ window \in [samples : Seq(Entry), counters : Seq(CounterType)]
    /\ log \in Seq(Cycle)

BoundsOK ==
    /\ used \in [faults : Nat, dups : Nat]
    /\ broken \subseteq {"dial", "send", "read", "tcp", "pieces"}

TypeOK == TaskOK /\ c \in Cycle /\ PacketsOK /\ ConnOK /\ WindowOK /\ BoundsOK

-----------------------------------------------------------------------------
\* At the end of a cycle, what was sent was received, with one sample, or lost.
\* A UDP cycle that no read error ended lost exactly the packets no reply of
\* which reached the socket before the deadline ("Unmatched sequence" is
\* loss), and reordered as many as arrived, for the first time, after a later
\* packet's first reply ("Reply arriving after a higher sequence already seen"
\* is reorder); duplicates count for nothing.
CycleExact ==
    at = "done" =>
        /\ c.sent = c.received + c.lost
        /\ c.received = Len(c.rtt)
        /\ kind = "udp" /\ "read" \notin broken =>
               /\ c.lost = Cardinality(DOMAIN sent \ Range(arrivals))
               /\ c.reordered = Cardinality({n \in 1 .. Len(arrivals) :
                                    \E m \in 1 .. n - 1 : arrivals[m] > arrivals[n]})

\* Whenever the statistics are read they are those of the cycles begun within
\* the window, which are the last ones, each in send order.
WindowExact ==
    \E k \in 0 .. Len(log) :
        LET recent == SubSeq(log, k + 1, Len(log))
            w == ExpiredWindow(window)
        IN  /\ \A n \in DOMAIN log : log[n].start >= now - Dur <=> n > k
            /\ w.samples = FlattenSeq([n \in 1 .. Len(recent) |-> Samples(recent[n])])
            /\ w.counters = [n \in 1 .. Len(recent) |-> Counter(recent[n])]
            /\ \A n \in DOMAIN recent : \A m \in 2 .. Len(recent[n].rtt) :
                   recent[n].rtt[m - 1].seq < recent[n].rtt[m].seq

\* A sample is the time from the sending of its packet to the arrival of the
\* reply, but a reply that comes while later packets are being sent is timed as
\* if it came when the sending ended, for it is read only then.
RttFromRead ==
    kind = "udp" /\ at = "receiving" =>
        \A s \in DOMAIN got :
            got[s].rtt = Max({got[s].wire, deadline - Timeout - sent[s]})

=============================================================================
