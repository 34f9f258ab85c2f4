-------------------------- MODULE HttpSource_proofs --------------------------
(* Proofs about the HTTP provider's cache, for every set of URLs and any    *)
(* number of publications, failures, crashes and reconfigurations.          *)
EXTENDS HttpSource, TLAPS

(***************************************************************************)
(* The inductive invariant.  Versions are bounded by what a server has     *)
(* had (Known); a response in hand carries its own validator (InHand).     *)
(* While no write of the cache was cut short, set, document and sidecar    *)
(* agree (Intact).  Afterwards, while neither the server nor the           *)
(* configuration has gone back, a validator is never newer than the        *)
(* document that it stands for (Steady).                                   *)
(***************************************************************************)
KnownDoc(d) == d # None => d.ver =< top[d.url]

Known ==
    /\ \A u \in Url : server[u] =< top[u] /\ (~returned => server[u] = top[u])
    /\ KnownDoc(cached)
    /\ set # None => KnownDoc(set.doc)
    /\ body # None => KnownDoc(body.doc)
    /\ sidecar # None /\ sidecar.tag # None => sidecar.tag =< top[sidecar.url]

Holding == at \in {"received", "documented", "written"}

InHand ==
    /\ Holding => body # None /\ body.doc.url = url /\ body.tag \in {None, body.doc.ver}
    /\ at = "documented" => cached = body.doc
    /\ at = "start" => tag = None

Intact ==
    ~cut =>
        /\ tag # None => set # None /\ set.doc = [url |-> url, ver |-> tag]
        /\ sidecar # None /\ sidecar.tag # None /\ at # "documented" =>
               cached = [url |-> sidecar.url, ver |-> sidecar.tag]
        /\ set # None /\ at \notin {"documented", "written"} => cached = set.doc
        /\ at = "written" => cached = body.doc

Steady ==
    ~returned /\ ~moved /\ ~bare =>
        /\ set # None => set.doc.url = url
        /\ cached # None => cached.url = url
        /\ sidecar # None => sidecar.url = url
        /\ tag # None => set # None /\ tag =< set.doc.ver
        /\ sidecar # None /\ sidecar.tag # None => cached # None /\ sidecar.tag =< cached.ver
        /\ Holding /\ sidecar # None /\ sidecar.tag # None => sidecar.tag =< body.doc.ver

Operational ==
    /\ kept => cached # None
    /\ kept /\ at \in {"idle", "fetching", "failed"} => set # None

IInv == TypeOK /\ Known /\ InHand /\ Intact /\ Steady

-----------------------------------------------------------------------------
(* What the steps that deliver a set do.                                    *)

\* A stale report leaves everything, or delivers the cached document; then it
\* takes the validator from the sidecar, or is bare.
LEMMA ReportCases ==
    ASSUME TypeOK, ReportStale
    PROVE  /\ at = "failed" /\ at' = "idle"
           /\ UNCHANGED <<server, top, url, returned, moved, body, cached, sidecar, cut, kept>>
           /\ \/ UNCHANGED <<tag, set, bare>>
              \/ /\ cached # None /\ set' \in Delivered /\ set'.doc = cached
                 /\ ~bare' => ~bare /\ Marked
                 /\ Marked => tag' = sidecar.tag
                 /\ ~Marked => tag' = tag
<1>1. /\ at = "failed" /\ at' = "idle"
      /\ UNCHANGED <<server, top, url, returned, moved, body, cached, sidecar, cut, kept>>
  BY DEF ReportStale, world, disk
<1>2. CASE haveSet /\ cached # None /\ aged
  <2>1. set' = [doc |-> cached, stale |-> TRUE] /\ tag' = LoadedTag(tag)
    BY <1>2 DEF ReportStale
  <2>2. ~bare' => ~bare /\ Marked
    BY <1>2, Zenon DEF ReportStale
  <2>3. cached \in Document
    BY <1>2 DEF TypeOK, DataOK
  <2>4. set' \in Delivered /\ set'.doc = cached
    BY <2>1, <2>3 DEF Delivered
  <2>5. (Marked => tag' = sidecar.tag) /\ (~Marked => tag' = tag)
    BY <2>1 DEF LoadedTag
  <2> QED
    BY <1>1, <1>2, <2>2, <2>4, <2>5
<1>3. CASE ~(haveSet /\ cached # None /\ aged)
  BY <1>1, <1>3 DEF ReportStale
<1> QED
  BY <1>2, <1>3

\* The start delivers the cached document, if there is one.
LEMMA StartCases ==
    ASSUME TypeOK, InHand, Start
    PROVE  /\ at = "start" /\ at' = "idle" /\ tag = None
           /\ UNCHANGED <<server, top, url, returned, moved, body, cached, sidecar, cut, kept,
                           bare>>
           /\ \/ cached = None /\ UNCHANGED <<tag, set>>
              \/ /\ cached # None /\ set' \in Delivered /\ set'.doc = cached
                 /\ Marked => tag' = sidecar.tag
                 /\ ~Marked => tag' = None
<1>1. /\ at = "start" /\ at' = "idle" /\ tag = None
      /\ UNCHANGED <<server, top, url, returned, moved, body, cached, sidecar, cut, kept,
                           bare>>
  BY DEF Start, world, disk, past, InHand
<1>2. CASE cached # None
  <2>1. set' = [doc |-> cached, stale |-> aged] /\ tag' = LoadedTag(tag)
    BY <1>2 DEF Start
  <2>2. cached \in Document /\ aged \in BOOLEAN
    BY <1>2 DEF TypeOK, DataOK, FlagsOK
  <2>3. set' \in Delivered /\ set'.doc = cached
    BY <2>1, <2>2 DEF Delivered
  <2>4. (Marked => tag' = sidecar.tag) /\ (~Marked => tag' = None)
    BY <1>1, <2>1 DEF LoadedTag
  <2> QED
    BY <1>1, <1>2, <2>3, <2>4
<1>3. CASE cached = None
  BY <1>1, <1>3 DEF Start
<1> QED
  BY <1>2, <1>3

\* A response is delivered.
LEMMA DeliverCase ==
    ASSUME TypeOK, InHand, Deliver
    PROVE  /\ at = "written" /\ at' = "idle" /\ body \in Response /\ body' = None
           /\ UNCHANGED <<server, top, url, returned, moved, cached, sidecar, cut, kept, bare>>
           /\ tag' = body.tag /\ set' \in Delivered /\ set'.doc = body.doc
<1>1. at = "written" /\ body \in Response /\ body.doc \in Document
  BY DEF Deliver, InHand, Holding, TypeOK, DataOK, Response
<1>2. set' = [doc |-> body.doc, stale |-> FALSE]
  BY DEF Deliver
<1>3. set' \in Delivered /\ set'.doc = body.doc
  BY <1>1, <1>2 DEF Delivered
<1> QED
  BY <1>1, <1>3 DEF Deliver, world, disk, past

\* A new Provider keeps the disk, and its URL if the configuration did.
LEMMA FreshCase ==
    ASSUME TypeOK, NEW u \in Url, Crash(u) \/ Reconfigure(u)
    PROVE  /\ at' = "start" /\ tag' = None /\ body' = None /\ url' = u
           /\ UNCHANGED <<server, top, returned, cached, sidecar, kept, bare>>
           /\ ~moved' => ~moved /\ u = url
           /\ ~cut' => ~cut /\ at # "documented"
           /\ set' = None \/ (UNCHANGED set /\ at = "idle")
<1>1. ~moved' => ~moved /\ u = url
  BY Zenon DEF Crash, Reconfigure, Fresh
<1>2. ~cut' => ~cut /\ at # "documented"
  <2>1. CASE Crash(u)
    BY <2>1, Zenon DEF Crash
  <2>2. CASE Reconfigure(u)
    BY <2>2 DEF Reconfigure
  <2> QED
    BY <2>1, <2>2
<1> QED
  BY <1>1, <1>2 DEF Crash, Reconfigure, Fresh, disk

-----------------------------------------------------------------------------
(* Types.                                                                   *)

\* The first state is well typed and satisfies the invariant.
LEMMA InitIInv ==
    Init => IInv /\ Operational
<1> SUFFICES ASSUME Init
             PROVE  IInv /\ Operational
  OBVIOUS
<1>1. TypeOK
  <2>1. DataOK
    BY UrlAssumption DEF Init, DataOK
  <2>2. FlagsOK
    BY Zenon DEF Init, FlagsOK
  <2> QED
    BY <2>1, <2>2 DEF TypeOK
<1> QED
  BY <1>1 DEF Init, IInv, Known, KnownDoc, Holding, InHand, Intact, Steady, Operational

\* Every step keeps the types of the data.
LEMMA DataPreserved ==
    ASSUME TypeOK, InHand, [Next]_vars
    PROVE  DataOK'
<1> USE DEF TypeOK, DataOK, FlagsOK, InHand, Holding, Document,
           Response, Sidecar, Delivered, world, proc, disk, past
<1>1. CASE \E u \in Url : Publish(u)
  BY <1>1 DEF Publish, Published
<1>2. CASE \E u \in Url : Return(u)
  BY <1>2 DEF Return, Published
<1>3. CASE Age
  BY <1>3 DEF Age
<1>4. CASE Start
  BY <1>4 DEF Start, LoadedTag, Marked
<1>5. CASE ReportStale
  <2>1. tag' \in Nat \cup {None} /\ set' \in Delivered \cup {None}
    BY <1>5, ReportCases DEF Marked
  <2>2. used' = used /\ aged' = aged
    BY <1>5 DEF ReportStale
  <2> QED
    BY <1>5, <2>1, <2>2, ReportCases
<1>6. CASE Poll
  BY <1>6 DEF Poll
<1>7. CASE NotModified
  BY <1>7 DEF NotModified
<1>8. CASE Received
  BY <1>8 DEF Received
<1>9. CASE Failed
  BY <1>9 DEF Failed, Fault
<1>10. CASE WriteDocument
  BY <1>10 DEF WriteDocument
<1>11. CASE DocumentFails
  BY <1>11 DEF DocumentFails, Fault
<1>12. CASE WriteSidecar
  BY <1>12 DEF WriteSidecar
<1>13. CASE SidecarFails
  BY <1>13 DEF SidecarFails, Fault
<1>14. CASE Deliver
  BY <1>14 DEF Deliver
<1>15. CASE \E u \in Url : Crash(u)
  BY <1>15 DEF Crash, Fresh
<1>16. CASE \E u \in Url : Reconfigure(u)
  BY <1>16 DEF Reconfigure, Fresh
<1>17. CASE UNCHANGED vars
  BY <1>17 DEF vars
<1> QED
  BY <1>1, <1>2, <1>3, <1>4, <1>5, <1>6, <1>7, <1>8, <1>9, <1>10,
     <1>11, <1>12, <1>13, <1>14, <1>15, <1>16, <1>17
  DEF Next, Work

\* Every step keeps the types of the flags.
LEMMA FlagsPreserved ==
    ASSUME FlagsOK, [Next]_vars
    PROVE  FlagsOK'
<1> USE DEF FlagsOK, world, proc, disk, past
<1>1. CASE \E u \in Url : Publish(u)
  BY <1>1, Zenon DEF Publish, Published
<1>2. CASE \E u \in Url : Return(u)
  BY <1>2, Zenon DEF Return, Published
<1>3. CASE Age
  BY <1>3, Zenon DEF Age
<1>4. CASE Start
  BY <1>4, Zenon DEF Start
<1>5. CASE ReportStale
  BY <1>5, Zenon DEF ReportStale
<1>6. CASE Poll
  BY <1>6, Zenon DEF Poll
<1>7. CASE NotModified
  BY <1>7, Zenon DEF NotModified
<1>8. CASE Received
  BY <1>8, Zenon DEF Received
<1>9. CASE Failed
  BY <1>9, Zenon DEF Failed, Fault
<1>10. CASE WriteDocument
  BY <1>10, Zenon DEF WriteDocument
<1>11. CASE DocumentFails
  BY <1>11, Zenon DEF DocumentFails, Fault
<1>12. CASE WriteSidecar
  BY <1>12, Zenon DEF WriteSidecar
<1>13. CASE SidecarFails
  BY <1>13, Zenon DEF SidecarFails, Fault
<1>14. CASE Deliver
  BY <1>14, Zenon DEF Deliver
<1>15. CASE \E u \in Url : Crash(u)
  BY <1>15, Zenon DEF Crash, Fresh
<1>16. CASE \E u \in Url : Reconfigure(u)
  BY <1>16, Zenon DEF Reconfigure, Fresh
<1>17. CASE UNCHANGED vars
  BY <1>17, Zenon DEF vars
<1> QED
  BY <1>1, <1>2, <1>3, <1>4, <1>5, <1>6, <1>7, <1>8, <1>9, <1>10,
     <1>11, <1>12, <1>13, <1>14, <1>15, <1>16, <1>17
  DEF Next, Work

-----------------------------------------------------------------------------
(* The parts of the invariant.                                              *)

\* No document or validator is newer than what its server has had.
LEMMA KnownPreserved ==
    ASSUME TypeOK, InHand, Known, [Next]_vars
    PROVE  Known'
<1> USE NoneAssumption DEF TypeOK, DataOK, InHand, Holding, Known, KnownDoc, Document,
           Response, Sidecar, Delivered, world, proc, disk, past
<1>1. CASE \E u \in Url : Publish(u)
  BY <1>1 DEF Publish, Published
<1>2. CASE \E u \in Url : Return(u)
  BY <1>2 DEF Return, Published
<1>3. CASE Age
  BY <1>3 DEF Age
<1>4. CASE Start
  BY <1>4, StartCases DEF Marked
<1>5. CASE ReportStale
  BY <1>5, ReportCases DEF Marked
<1>6. CASE Poll
  BY <1>6 DEF Poll
<1>7. CASE NotModified
  BY <1>7 DEF NotModified
<1>8. CASE Received
  BY <1>8 DEF Received
<1>9. CASE Failed
  BY <1>9 DEF Failed, Fault
<1>10. CASE WriteDocument
  BY <1>10 DEF WriteDocument
<1>11. CASE DocumentFails
  BY <1>11 DEF DocumentFails, Fault
<1>12. CASE WriteSidecar
  BY <1>12 DEF WriteSidecar
<1>13. CASE SidecarFails
  BY <1>13 DEF SidecarFails, Fault
<1>14. CASE Deliver
  BY <1>14, DeliverCase
<1>15. CASE \E u \in Url : Crash(u)
  BY <1>15, FreshCase
<1>16. CASE \E u \in Url : Reconfigure(u)
  BY <1>16, FreshCase
<1>17. CASE UNCHANGED vars
  BY <1>17 DEF vars
<1> QED
  BY <1>1, <1>2, <1>3, <1>4, <1>5, <1>6, <1>7, <1>8, <1>9, <1>10,
     <1>11, <1>12, <1>13, <1>14, <1>15, <1>16, <1>17
  DEF Next, Work

\* A response is kept until it is delivered.
LEMMA InHandPreserved ==
    ASSUME TypeOK, InHand, [Next]_vars
    PROVE  InHand'
<1> USE NoneAssumption DEF TypeOK, DataOK, InHand, Holding, Document,
           Response, Sidecar, Delivered, world, proc, disk, past
<1>1. CASE \E u \in Url : Publish(u)
  BY <1>1 DEF Publish, Published
<1>2. CASE \E u \in Url : Return(u)
  BY <1>2 DEF Return, Published
<1>3. CASE Age
  BY <1>3 DEF Age
<1>4. CASE Start
  BY <1>4, StartCases DEF Marked
<1>5. CASE ReportStale
  BY <1>5, ReportCases DEF Marked
<1>6. CASE Poll
  BY <1>6 DEF Poll
<1>7. CASE NotModified
  BY <1>7 DEF NotModified
<1>8. CASE Received
  BY <1>8 DEF Received
<1>9. CASE Failed
  BY <1>9 DEF Failed, Fault
<1>10. CASE WriteDocument
  BY <1>10 DEF WriteDocument
<1>11. CASE DocumentFails
  BY <1>11 DEF DocumentFails, Fault
<1>12. CASE WriteSidecar
  BY <1>12 DEF WriteSidecar
<1>13. CASE SidecarFails
  BY <1>13 DEF SidecarFails, Fault
<1>14. CASE Deliver
  BY <1>14, DeliverCase
<1>15. CASE \E u \in Url : Crash(u)
  BY <1>15, FreshCase
<1>16. CASE \E u \in Url : Reconfigure(u)
  BY <1>16, FreshCase
<1>17. CASE UNCHANGED vars
  BY <1>17 DEF vars
<1> QED
  BY <1>1, <1>2, <1>3, <1>4, <1>5, <1>6, <1>7, <1>8, <1>9, <1>10,
     <1>11, <1>12, <1>13, <1>14, <1>15, <1>16, <1>17
  DEF Next, Work

\* While no write is cut short, what was delivered is what is cached.
LEMMA IntactPreserved ==
    ASSUME TypeOK, InHand, Intact, [Next]_vars
    PROVE  Intact'
<1> USE NoneAssumption DEF TypeOK, DataOK, InHand, Holding, Intact, Document,
           Response, Sidecar, Delivered, world, proc, disk, past
<1>1. CASE \E u \in Url : Publish(u)
  BY <1>1 DEF Publish, Published
<1>2. CASE \E u \in Url : Return(u)
  BY <1>2 DEF Return, Published
<1>3. CASE Age
  BY <1>3 DEF Age
<1>4. CASE Start
  BY <1>4, StartCases DEF Marked
<1>5. CASE ReportStale
  BY <1>5, ReportCases DEF Marked
<1>6. CASE Poll
  BY <1>6 DEF Poll
<1>7. CASE NotModified
  BY <1>7 DEF NotModified
<1>8. CASE Received
  BY <1>8 DEF Received
<1>9. CASE Failed
  BY <1>9 DEF Failed, Fault
<1>10. CASE WriteDocument
  BY <1>10 DEF WriteDocument
<1>11. CASE DocumentFails
  BY <1>11 DEF DocumentFails, Fault
<1>12. CASE WriteSidecar
  BY <1>12 DEF WriteSidecar
<1>13. CASE SidecarFails
  BY <1>13 DEF SidecarFails, Fault
<1>14. CASE Deliver
  BY <1>14, DeliverCase
<1>15. CASE \E u \in Url : Crash(u)
  BY <1>15, FreshCase
<1>16. CASE \E u \in Url : Reconfigure(u)
  BY <1>16, FreshCase
<1>17. CASE UNCHANGED vars
  BY <1>17 DEF vars
<1> QED
  BY <1>1, <1>2, <1>3, <1>4, <1>5, <1>6, <1>7, <1>8, <1>9, <1>10,
     <1>11, <1>12, <1>13, <1>14, <1>15, <1>16, <1>17
  DEF Next, Work

\* While nothing goes back, no validator overtakes its document.
LEMMA SteadyPreserved ==
    ASSUME TypeOK, Known, InHand, Steady, [Next]_vars
    PROVE  Steady'
<1> USE NoneAssumption DEF TypeOK, DataOK, Known, KnownDoc, InHand, Holding, Steady, Document,
           Response, Sidecar, Delivered, world, proc, disk, past
<1>1. CASE \E u \in Url : Publish(u)
  BY <1>1 DEF Publish, Published
<1>2. CASE \E u \in Url : Return(u)
  BY <1>2 DEF Return, Published
<1>3. CASE Age
  BY <1>3 DEF Age
<1>4. CASE Start
  BY <1>4, StartCases DEF Marked
<1>5. CASE ReportStale
  BY <1>5, ReportCases DEF Marked
<1>6. CASE Poll
  BY <1>6 DEF Poll
<1>7. CASE NotModified
  BY <1>7 DEF NotModified
<1>8. CASE Received
  BY <1>8 DEF Received
<1>9. CASE Failed
  BY <1>9 DEF Failed, Fault
<1>10. CASE WriteDocument
  BY <1>10 DEF WriteDocument
<1>11. CASE DocumentFails
  BY <1>11 DEF DocumentFails, Fault
<1>12. CASE WriteSidecar
  BY <1>12 DEF WriteSidecar
<1>13. CASE SidecarFails
  BY <1>13 DEF SidecarFails, Fault
<1>14. CASE Deliver
  BY <1>14, DeliverCase
<1>15. CASE \E u \in Url : Crash(u)
  BY <1>15, FreshCase
<1>16. CASE \E u \in Url : Reconfigure(u)
  BY <1>16, FreshCase
<1>17. CASE UNCHANGED vars
  BY <1>17 DEF vars
<1> QED
  BY <1>1, <1>2, <1>3, <1>4, <1>5, <1>6, <1>7, <1>8, <1>9, <1>10,
     <1>11, <1>12, <1>13, <1>14, <1>15, <1>16, <1>17
  DEF Next, Work

\* What has been cached stays cached.
LEMMA OperationalPreserved ==
    ASSUME TypeOK, InHand, Operational, [Next]_vars
    PROVE  Operational'
<1> USE NoneAssumption DEF TypeOK, DataOK, InHand, Holding, Operational, Document,
           Response, Sidecar, Delivered, world, proc, disk, past
<1>1. CASE \E u \in Url : Publish(u)
  BY <1>1 DEF Publish, Published
<1>2. CASE \E u \in Url : Return(u)
  BY <1>2 DEF Return, Published
<1>3. CASE Age
  BY <1>3 DEF Age
<1>4. CASE Start
  BY <1>4, StartCases DEF Marked
<1>5. CASE ReportStale
  BY <1>5, ReportCases DEF Marked
<1>6. CASE Poll
  BY <1>6 DEF Poll
<1>7. CASE NotModified
  BY <1>7 DEF NotModified
<1>8. CASE Received
  BY <1>8 DEF Received
<1>9. CASE Failed
  BY <1>9 DEF Failed, Fault
<1>10. CASE WriteDocument
  BY <1>10 DEF WriteDocument
<1>11. CASE DocumentFails
  BY <1>11 DEF DocumentFails, Fault
<1>12. CASE WriteSidecar
  BY <1>12 DEF WriteSidecar
<1>13. CASE SidecarFails
  BY <1>13 DEF SidecarFails, Fault
<1>14. CASE Deliver
  BY <1>14, DeliverCase
<1>15. CASE \E u \in Url : Crash(u)
  BY <1>15, FreshCase
<1>16. CASE \E u \in Url : Reconfigure(u)
  BY <1>16, FreshCase
<1>17. CASE UNCHANGED vars
  BY <1>17 DEF vars
<1> QED
  BY <1>1, <1>2, <1>3, <1>4, <1>5, <1>6, <1>7, <1>8, <1>9, <1>10,
     <1>11, <1>12, <1>13, <1>14, <1>15, <1>16, <1>17
  DEF Next, Work

-----------------------------------------------------------------------------
\* The provider, its cache and the servers are well typed in every reachable state.
THEOREM TypeCorrect == Spec => []TypeOK
<1>1. Init => TypeOK /\ InHand
  BY InitIInv DEF IInv
<1>2. TypeOK /\ InHand /\ [Next]_vars => (TypeOK /\ InHand)'
  BY DataPreserved, FlagsPreserved, InHandPreserved DEF TypeOK
<1> QED
  BY <1>1, <1>2, PTL DEF Spec

\* The inductive invariant holds in every reachable state.
THEOREM Invariance == Spec => []IInv
<1>1. Init => IInv
  BY InitIInv
<1>2. IInv /\ [Next]_vars => IInv'
  BY DataPreserved, FlagsPreserved, KnownPreserved, InHandPreserved, IntactPreserved,
     SteadyPreserved
  DEF IInv, TypeOK
<1> QED
  BY <1>1, <1>2, PTL DEF Spec

\* A 304 confirms the document that is delivered, for any number of crashes,
\* failed writes and stale reports that are not Excused.
THEOREM NotModifiedAlwaysTruthful == Spec => []NotModifiedTruthful
<1>1. IInv => NotModifiedTruthful
  <2> SUFFICES ASSUME IInv, at \in {"idle", "fetching"}, tag # None, tag = server[url], ~Excused
               PROVE  UpToDate
    BY DEF NotModifiedTruthful
  <2>1. CASE ~cut
    BY <2>1 DEF IInv, Intact, UpToDate, Current
  <2>2. CASE ~returned /\ ~moved /\ ~bare
    <3>1. set # None /\ set.doc \in Document /\ set.doc.url = url /\ tag =< set.doc.ver
      BY <2>2 DEF IInv, TypeOK, DataOK, Delivered, Steady
    <3>2. set.doc # None
      BY <3>1, NoneAssumption
    <3>3. set.doc.ver =< server[url]
      BY <2>2, <3>1, <3>2 DEF IInv, TypeOK, DataOK, Known, KnownDoc
    <3>4. set.doc.ver = server[url]
      BY <3>1, <3>3 DEF IInv, TypeOK, DataOK, Document
    <3> QED
      BY <3>1, <3>4 DEF UpToDate, Current, Document
  <2> QED
    BY <2>1, <2>2 DEF Excused
<1> QED
  BY <1>1, Invariance, PTL

\* Once a document has been cached, no request is sent before one is delivered.
THEOREM OperationalAlwaysFirst == Spec => []OperationalFirst
<1>1. Init => Operational
  BY InitIInv
<1>2. IInv /\ Operational /\ [Next]_vars => Operational'
  BY OperationalPreserved DEF IInv
<1>3. Operational => OperationalFirst
  BY DEF Operational, OperationalFirst
<1> QED
  BY <1>1, <1>2, <1>3, Invariance, PTL DEF Spec
=============================================================================
