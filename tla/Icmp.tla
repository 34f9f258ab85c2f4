-------------------------------- MODULE Icmp --------------------------------
(***************************************************************************)
(* ICMP probing: the supervisor and client of internal/probe/icmp, the     *)
(* pipes of pkg/pingproto, and the jobs of cmd/meshping.                   *)
(*                                                                         *)
(* Every child process has its own pipes and its own reading goroutine,    *)
(* which outlives its session when the hello was late.  Two slots hold the *)
(* current session and such an older one.  IDs never repeat in the code;   *)
(* here an ID that is in use nowhere stands for a new one.  Packets and    *)
(* samples are left out: a job runs until it emits its Result.             *)
(***************************************************************************)
EXTENDS Naturals, Sequences, SequencesExt

CONSTANTS
    Prober,     \* task goroutines that call Probe
    ID,         \* bound: request IDs in use at a time
    Slot,       \* bound: child processes and readers at a time
    Hello,      \* what a child may say first: "ready" or "no permission"
    None

ASSUME HelloAssumption == Hello \subseteq {"ready", "no permission"}

\* The lines of the protocol.
Message == [type : Hello, id : {None}] \cup [type : {"ping", "cancel", "result"}, id : ID]

ASSUME NoneAssumption == None \notin ID \cup Slot \cup Message

VARIABLES
    ctx,        \* the process's context was cancelled
    avail, fatal, \* Client.avail, Client.fatal
    enc,        \* Client.enc: the slot it writes to
    waiting,    \* Client.waiting: the IDs with a waiter
    answered,   \* IDs whose waiter holds a result
    run,        \* where Run and session are
    cur,        \* the slot of the session
    probe,      \* probe[p]: where Probe is, its ID, the encoder it holds
    child,      \* child[s]: the process: jobs, and whether it said hello
    stdin, stdout, \* the pipes' contents
    reader      \* reader[s]: readLoop, with the message it has taken

vars == <<ctx, avail, fatal, enc, waiting, answered, run, cur, probe, child,
          stdin, stdout, reader>>

Client == <<avail, fatal, enc, waiting, answered>>
Pipes  == <<child, stdin, stdout, reader>>

NoProbe == [at |-> "idle", id |-> None, via |-> None]
NoChild == [alive |-> FALSE, said |-> None, jobs |-> {}, stopping |-> {}]
NoRead  == [at |-> "none", msg |-> None]

Init ==
    /\ ctx = FALSE /\ avail = FALSE /\ fatal = FALSE
    /\ enc = None /\ waiting = {} /\ answered = {}
    /\ run = "start" /\ cur = None
    /\ probe = [p \in Prober |-> NoProbe]
    /\ child = [s \in Slot |-> NoChild]
    /\ stdin = [s \in Slot |-> <<>>] /\ stdout = [s \in Slot |-> <<>>]
    /\ reader = [s \in Slot |-> NoRead]

Msg(type, id) == [type |-> type, id |-> id]

-----------------------------------------------------------------------------
(* Run and session.                                                        *)

\* A child starts, and the encoder writes to it.  A slot used again is
\* another pipe: an encoder of the old one stays broken (None).
Session(s) ==
    /\ run = "start" /\ ~ctx
    /\ reader[s].at = "none" /\ ~child[s].alive
    /\ run' = "hello" /\ cur' = s /\ enc' = s
    /\ child'  = [child  EXCEPT ![s] = [NoChild EXCEPT !.alive = TRUE]]
    /\ stdin'  = [stdin  EXCEPT ![s] = <<>>]
    /\ stdout' = [stdout EXCEPT ![s] = <<>>]
    /\ reader' = [reader EXCEPT ![s].at = "reading"]
    /\ probe'  = [p \in Prober |-> [probe[p] EXCEPT !.via = IF @ = s THEN None ELSE @]]
    /\ UNCHANGED <<ctx, avail, fatal, waiting, answered>>

\* The process cannot be started.
SessionFails ==
    /\ run = "start" /\ ~ctx
    /\ run' = "ended"
    /\ UNCHANGED <<ctx, Client, cur, probe, Pipes>>

\* The hello timer fires: go on waiting for the reader, or kill the child.
HelloTimer ==
    /\ run = "hello"
    /\ run' = IF avail THEN "wait" ELSE "kill"
    /\ UNCHANGED <<ctx, Client, cur, probe, Pipes>>

\* Kill, and Wait, which closes the pipes under the reader.
Kill ==
    /\ run = "kill"
    /\ run' = "ended"
    /\ child'  = [child  EXCEPT ![cur] = NoChild]
    /\ stdin'  = [stdin  EXCEPT ![cur] = <<>>]
    /\ stdout' = [stdout EXCEPT ![cur] = <<>>]
    /\ UNCHANGED <<ctx, Client, cur, probe, reader>>

\* The reader has returned; Wait returns when the process is gone.
Reaped ==
    /\ run \in {"hello", "wait"} /\ reader[cur].at = "returned"
    /\ ~child[cur].alive
    /\ run' = "ended"
    /\ reader' = [reader EXCEPT ![cur] = NoRead]
    /\ UNCHANGED <<ctx, Client, cur, probe, child, stdin, stdout>>

Ended ==
    /\ run = "ended"
    /\ avail' = FALSE /\ run' = "fail"
    /\ UNCHANGED <<ctx, fatal, enc, waiting, answered, cur, probe, Pipes>>

\* Defect: a child that exits leaves the waiters to their time limits.
FailNoWaiters ==
    /\ run = "fail"
    /\ run' = IF ctx \/ fatal THEN "returned" ELSE "start"
    /\ UNCHANGED <<ctx, Client, cur, probe, Pipes>>

\* failAllWaiters, then another session after the back-off, or none.
FailAllWaiters ==
    /\ run = "fail"
    /\ answered' = answered \cup waiting
    /\ waiting' = {}
    /\ run' = IF ctx \/ fatal THEN "returned" ELSE "start"
    /\ UNCHANGED <<ctx, avail, fatal, enc, cur, probe, Pipes>>

Return ==
    /\ run = "start" /\ ctx
    /\ run' = "returned"
    /\ UNCHANGED <<ctx, Client, cur, probe, Pipes>>

Cancel ==
    /\ ~ctx /\ ctx' = TRUE
    /\ UNCHANGED <<Client, run, cur, probe, Pipes>>

-----------------------------------------------------------------------------
(* readLoop: take a line, then handle it.                                  *)

Take(s) ==
    /\ reader[s].at = "reading" /\ stdout[s] # <<>>
    /\ reader' = [reader EXCEPT ![s] = [at |-> "taken", msg |-> Head(stdout[s])]]
    /\ stdout' = [stdout EXCEPT ![s] = Tail(@)]
    /\ UNCHANGED <<ctx, Client, run, cur, probe, child, stdin>>

\* A reader whose session does not listen any more just ends.
Finished(s) == [NoRead EXCEPT !.at = IF s = cur /\ run \in {"hello", "wait"}
                                     THEN "returned" ELSE "none"]

EndOfFile(s) ==
    /\ reader[s].at = "reading" /\ stdout[s] = <<>> /\ ~child[s].alive
    /\ reader' = [reader EXCEPT ![s] = Finished(s)]
    /\ UNCHANGED <<ctx, Client, run, cur, probe, child, stdin, stdout>>

HandleHello(s) ==
    /\ reader[s].at = "taken" /\ reader[s].msg.type \in Hello
    /\ \/ /\ reader[s].msg.type = "ready"
          /\ avail' = TRUE
          /\ reader' = [reader EXCEPT ![s] = [at |-> "reading", msg |-> None]]
          /\ UNCHANGED fatal
       \/ /\ reader[s].msg.type = "no permission"
          /\ fatal' = TRUE
          /\ reader' = [reader EXCEPT ![s] = Finished(s)]
          /\ UNCHANGED avail
    /\ UNCHANGED <<ctx, enc, waiting, answered, run, cur, probe, child, stdin, stdout>>

\* A Result, or an Error turned into one: at most one waiter gets it.
HandleResult(s) ==
    /\ reader[s].at = "taken" /\ reader[s].msg.type = "result"
    /\ LET id == reader[s].msg.id IN
       /\ answered' = IF id \in waiting THEN answered \cup {id} ELSE answered
       /\ waiting' = waiting \ {id}
    /\ reader' = [reader EXCEPT ![s] = [at |-> "reading", msg |-> None]]
    /\ UNCHANGED <<ctx, avail, fatal, enc, run, cur, probe, child, stdin, stdout>>

-----------------------------------------------------------------------------
(* Probe.                                                                  *)

InUse == waiting \cup answered \cup {probe[p].id : p \in Prober}
         \cup (UNION {child[s].jobs : s \in Slot})
         \cup {reader[s].msg.id : s \in {t \in Slot : reader[t].msg # None}}
         \cup (UNION {{m.id : m \in ToSet(stdin[s]) \cup ToSet(stdout[s])} : s \in Slot})

Open(s) == s # None /\ child[s].alive

\* An unavailable helper fails the probe at once.
Probe(p) ==
    /\ probe[p].at = "idle" /\ avail
    /\ probe' = [probe EXCEPT ![p].at = "begun"]
    /\ UNCHANGED <<ctx, Client, run, cur, Pipes>>

\* The waiter is registered with the encoder of that moment.
Register(p) ==
    /\ probe[p].at = "begun"
    /\ \E id \in ID \ InUse :
           /\ waiting' = waiting \cup {id}
           /\ probe' = [probe EXCEPT ![p] = [at |-> "registered", id |-> id, via |-> enc]]
    /\ UNCHANGED <<ctx, avail, fatal, enc, answered, run, cur, Pipes>>

Over(p) == /\ probe' = [probe EXCEPT ![p] = NoProbe]
           /\ answered' = answered \ {probe[p].id}

\* Writing to a process that is gone fails, and the probe with it.
Send(p) ==
    /\ probe[p].at = "registered"
    /\ LET s == probe[p].via IN
       \/ /\ Open(s)
          /\ stdin' = [stdin EXCEPT ![s] = Append(@, Msg("ping", probe[p].id))]
          /\ probe' = [probe EXCEPT ![p].at = "waiting"]
          /\ UNCHANGED <<waiting, answered>>
       \/ /\ ~Open(s)
          /\ waiting' = waiting \ {probe[p].id}
          /\ Over(p)
          /\ UNCHANGED stdin
    /\ UNCHANGED <<ctx, avail, fatal, enc, run, cur, child, stdout, reader>>

Result(p) ==
    /\ probe[p].at = "waiting" /\ probe[p].id \in answered
    /\ Over(p)
    /\ UNCHANGED <<ctx, avail, fatal, enc, waiting, run, cur, Pipes>>

\* Defect: the request is dropped and the child is not told.
AbandonSilently(p) ==
    /\ probe[p].at = "waiting"
    /\ waiting' = waiting \ {probe[p].id}
    /\ Over(p)
    /\ UNCHANGED <<ctx, avail, fatal, enc, run, cur, Pipes>>

\* Defect: the entry is left in the map.
AbandonKept(p) ==
    /\ probe[p].at = "waiting"
    /\ probe' = [probe EXCEPT ![p].at = "abandoning", ![p].via = enc]
    /\ UNCHANGED <<ctx, avail, fatal, enc, waiting, answered, run, cur, Pipes>>

\* abandon, at the time limit or when the task is cancelled.
Abandon(p) ==
    /\ probe[p].at = "waiting"
    /\ waiting' = waiting \ {probe[p].id}
    /\ probe' = [probe EXCEPT ![p].at = "abandoning", ![p].via = enc]
    /\ UNCHANGED <<ctx, avail, fatal, enc, answered, run, cur, Pipes>>

SendCancel(p) ==
    /\ probe[p].at = "abandoning"
    /\ LET s == probe[p].via IN
       stdin' = IF Open(s)
                THEN [stdin EXCEPT ![s] = Append(@, Msg("cancel", probe[p].id))]
                ELSE stdin
    /\ Over(p)
    /\ UNCHANGED <<ctx, avail, fatal, enc, waiting, run, cur, child, stdout, reader>>

-----------------------------------------------------------------------------
(* meshping.                                                               *)

SayHello(s, h) ==
    /\ child[s].alive /\ child[s].said = None
    /\ child' = [child EXCEPT ![s].said = h]
    /\ stdout' = [stdout EXCEPT ![s] = Append(@, Msg(h, None))]
    /\ UNCHANGED <<ctx, Client, run, cur, probe, stdin, reader>>

\* readLoop: start a job, or report that it cannot start, or cancel one.
Dispatch(s) ==
    /\ child[s].alive /\ child[s].said = "ready" /\ stdin[s] # <<>>
    /\ stdin' = [stdin EXCEPT ![s] = Tail(@)]
    /\ LET m == Head(stdin[s]) IN
       \/ /\ m.type = "ping"
          /\ child' = [child EXCEPT ![s].jobs = @ \cup {m.id}]
          /\ UNCHANGED stdout
       \/ /\ m.type = "ping"
          /\ stdout' = [stdout EXCEPT ![s] = Append(@, Msg("result", m.id))]
          /\ UNCHANGED child
       \/ /\ m.type = "cancel"
          /\ child' = [child EXCEPT ![s].stopping = @ \cup ({m.id} \cap child[s].jobs)]
          /\ UNCHANGED stdout
    /\ UNCHANGED <<ctx, Client, run, cur, probe, reader>>

\* run: every job ends with exactly one Result, cancelled or not.
Job(s, id) ==
    /\ child[s].alive /\ id \in child[s].jobs
    /\ child' = [child EXCEPT ![s].jobs = @ \ {id}, ![s].stopping = @ \ {id}]
    /\ stdout' = [stdout EXCEPT ![s] = Append(@, Msg("result", id))]
    /\ UNCHANGED <<ctx, Client, run, cur, probe, stdin, reader>>

\* The process exits by itself or crashes, or is killed with the context;
\* what it wrote can still be read.
Die(s) ==
    /\ child[s].alive
    /\ child' = [child EXCEPT ![s] = NoChild]
    /\ stdin' = [stdin EXCEPT ![s] = <<>>]
    /\ UNCHANGED <<ctx, Client, run, cur, probe, stdout, reader>>

Supervisor == SessionFails \/ HelloTimer \/ Kill \/ Reaped \/ Ended
              \/ FailAllWaiters \/ Return \/ \E s \in Slot : Session(s)
Reader(s)  == Take(s) \/ EndOfFile(s) \/ HandleHello(s) \/ HandleResult(s)
Helper(s)  == Dispatch(s) \/ (\E id \in ID : Job(s, id))

Next ==
    \/ Supervisor \/ Cancel
    \/ \E s \in Slot : Reader(s) \/ Helper(s) \/ Die(s) \/ \E h \in Hello : SayHello(s, h)
    \/ \E p \in Prober : \/ Probe(p) \/ Register(p) \/ Send(p) \/ Result(p)
                         \/ Abandon(p) \/ SendCancel(p)

Spec == Init /\ [][Next]_vars

(***************************************************************************)
(* Fairness: the goroutines and the processes are scheduled; jobs end,     *)
(* because their packets and timeouts are counted; meshping says hello     *)
(* first of all, however late, and exits when it has no permission or its  *)
(* parent's context is cancelled.  Nothing is assumed of the time limit in *)
(* Probe, nor that a child stays alive.                                    *)
(***************************************************************************)
Fairness ==
    /\ WF_vars(Supervisor)
    /\ \A s \in Slot :
           /\ WF_vars(Reader(s)) /\ WF_vars(Dispatch(s))
           /\ \A id \in ID : WF_vars(Job(s, id))
           /\ WF_vars(\E h \in Hello : SayHello(s, h))
           /\ WF_vars((child[s].said = "no permission" \/ ctx) /\ Die(s))
    /\ \A p \in Prober : WF_vars(Register(p)) /\ WF_vars(Send(p)) /\ WF_vars(Result(p))

FairSpec == Spec /\ Fairness

-----------------------------------------------------------------------------
(* Properties.                                                             *)

\* The type of the client, the pipes and the children.
TypeOK ==
    /\ ctx \in BOOLEAN /\ avail \in BOOLEAN /\ fatal \in BOOLEAN
    /\ enc \in Slot \cup {None} /\ cur \in Slot \cup {None}
    /\ waiting \subseteq ID /\ answered \subseteq ID /\ waiting \cap answered = {}
    /\ run \in {"start", "hello", "wait", "kill", "ended", "fail", "returned"}
    /\ probe \in [Prober ->
           [at : {"idle", "begun", "registered", "waiting", "abandoning"},
            id : ID \cup {None}, via : Slot \cup {None}]]
    /\ child \in [Slot -> [alive : BOOLEAN, said : Hello \cup {None},
                          jobs : SUBSET ID, stopping : SUBSET ID]]
    /\ stdin \in [Slot -> Seq(Message)] /\ stdout \in [Slot -> Seq(Message)]
    /\ reader \in [Slot -> [at : {"none", "reading", "taken", "returned"},
                           msg : Message \cup {None}]]

\* No map entry outlives its probe, and no probe sits in its select with
\* neither a waiter nor a result: a lost, late or repeated answer, a time
\* limit and an exiting child may meet in any order.
WaitersMatch ==
    /\ waiting \cup answered \subseteq {probe[p].id : p \in Prober}
    /\ \A p \in Prober :
           probe[p].at = "waiting" => probe[p].id \in waiting \cup answered

\* The helper never works for nobody: a job belongs to a probe that waits
\* for it, or it is being cancelled, or its cancel is on the way.
JobsOwned ==
    \A s \in Slot : \A id \in child[s].jobs \ child[s].stopping :
        \/ \E p \in Prober : probe[p].id = id /\ probe[p].at \in {"waiting", "abandoning"}
        \/ Msg("cancel", id) \in ToSet(stdin[s])

\* Every probe is answered by the helper or by its exit, however often the
\* helper dies or is replaced: the time limit is only a second line.
Answered ==
    \A p \in Prober : probe[p].at = "waiting" ~> probe[p].at # "waiting"
=============================================================================
