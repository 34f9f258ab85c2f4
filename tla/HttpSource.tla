----------------------------- MODULE HttpSource -----------------------------
(***************************************************************************)
(* The HTTP inventory provider (internal/provider/http): conditional       *)
(* requests, the cached document with its sidecar of validators, and what  *)
(* survives a crash.  One goroutine runs the provider; the server, the     *)
(* clock, the file system, crashes and reconfigurations act beside it.     *)
(*                                                                         *)
(* A document is the URL it came from and its version there; a validator   *)
(* (ETag and Last-Modified together) is the version, so that two servers   *)
(* may use equal validators for different documents.                       *)
(***************************************************************************)
EXTENDS Integers

CONSTANTS
    Url,          \* the URLs that the configuration may name
    None,         \* no document, no validator
    MaxVersion,   \* bound: versions that a server publishes
    MaxChanges,   \* bound: publications
    MaxFaults,    \* bound: failed requests and failed writes
    MaxRestarts   \* bound: crashes and reconfigurations

ASSUME BoundsAssumption ==
    MaxVersion \in Nat /\ MaxChanges \in Nat /\ MaxFaults \in Nat /\ MaxRestarts \in Nat

ASSUME UrlAssumption == Url # {}

Document == [url : Url, ver : Nat]
Response == [doc : Document, tag : Nat \cup {None}]
Sidecar == [url : Url, tag : Nat \cup {None}]
Delivered == [doc : Document, stale : BOOLEAN]

ASSUME NoneAssumption == None \notin Nat \cup Document \cup Response \cup Sidecar \cup Delivered

VARIABLES
    server,    \* server[u]: the version that u serves
    top,       \* top[u]: the newest version that u has served (history)
    url,       \* the configured URL
    at,        \* where the provider's goroutine is
    tag,       \* p.meta: the validator of the last document, None if it has none
    haveSet,   \* p.haveSet
    body,      \* the document and validator of the response in hand
    set,       \* the set of this source in the inventory store
    cached,    \* the cached document on disk
    sidecar,   \* the metadata file on disk
    aged,      \* the cached document is older than cache_max_age
    used,      \* changes, faults and restarts so far (bounds)
    cut,       \* a cache write failed or was cut short (history)
    kept,      \* a document has been cached (history)
    bare,      \* an old cache without a sidecar of its URL was emitted again (history)
    returned,  \* a server went back to an earlier version (history)
    moved      \* the configured URL has changed (history)

disk == <<cached, sidecar, aged>>
proc == <<at, tag, haveSet, body>>
world == <<server, top, url, returned, moved>>
past == <<cut, kept, bare>>
vars == <<server, top, url, at, tag, haveSet, body, set, cached, sidecar, aged, used,
          cut, kept, bare, returned, moved>>

Init ==
    /\ server = [u \in Url |-> 0] /\ top = server
    /\ url \in Url
    /\ at = "start" /\ tag = None /\ haveSet = FALSE /\ body = None
    /\ set = None
    /\ cached = None /\ sidecar = None /\ aged = FALSE
    /\ used = [changes |-> 0, faults |-> 0, restarts |-> 0]
    /\ cut = FALSE /\ kept = FALSE /\ bare = FALSE /\ returned = FALSE /\ moved = FALSE

-----------------------------------------------------------------------------
(* The world.                                                              *)

Published(u, v) ==
    /\ used.changes < MaxChanges
    /\ v # server[u]
    /\ server' = [server EXCEPT ![u] = v]
    /\ used' = [used EXCEPT !.changes = @ + 1]

\* A server publishes a new document, or one that it served before.
Publish(u) ==
    /\ top[u] < MaxVersion
    /\ Published(u, top[u] + 1)
    /\ top' = [top EXCEPT ![u] = @ + 1]
    /\ UNCHANGED <<url, returned, moved, proc, set, disk, past>>

Return(u) ==
    /\ \E v \in 0 .. top[u] : Published(u, v)
    /\ returned' = TRUE
    /\ UNCHANGED <<top, url, moved, proc, set, disk, past>>

\* The cached document passes cache_max_age.
Age ==
    /\ cached # None /\ ~aged
    /\ aged' = TRUE
    /\ UNCHANGED <<world, proc, set, cached, sidecar, used, past>>

Fault == /\ used.faults < MaxFaults
         /\ used' = [used EXCEPT !.faults = @ + 1]

-----------------------------------------------------------------------------
(* The cache.                                                              *)

Marked == sidecar # None /\ sidecar.url = url

\* loadCache: the validator it leaves in p.meta.
LoadedTag(t) == IF Marked THEN sidecar.tag ELSE t

\* Run, before the loop: the cache is applied before the first fetch.
Start ==
    /\ at = "start" /\ at' = "idle"
    /\ IF cached # None
       THEN /\ tag' = LoadedTag(tag)
            /\ haveSet' = TRUE
            /\ set' = [doc |-> cached, stale |-> aged]
       ELSE UNCHANGED <<tag, haveSet, set>>
    /\ UNCHANGED <<world, body, disk, used, past>>

\* Defect: the first failure ends the loop while there is no set.
ReportStaleOrEnd ==
    /\ at = "failed" /\ haveSet /\ at' = "idle"
    /\ IF cached # None /\ aged
       THEN /\ tag' = LoadedTag(tag)
            /\ set' = [doc |-> cached, stale |-> TRUE]
            /\ bare' = (bare \/ ~Marked)
       ELSE UNCHANGED <<tag, set, bare>>
    /\ UNCHANGED <<world, haveSet, body, disk, used, cut, kept>>

\* reportStale: after a failed fetch an old cache is emitted again.
ReportStale ==
    /\ at = "failed" /\ at' = "idle"
    /\ IF haveSet /\ cached # None /\ aged
       THEN /\ tag' = LoadedTag(tag)
            /\ set' = [doc |-> cached, stale |-> TRUE]
            /\ bare' = (bare \/ ~Marked)
       ELSE UNCHANGED <<tag, set, bare>>
    /\ UNCHANGED <<world, haveSet, body, disk, used, cut, kept>>

-----------------------------------------------------------------------------
(* fetch.                                                                  *)

\* The timer or a refresh: one request with the validator in p.meta.
Poll ==
    /\ at = "idle" /\ at' = "fetching"
    /\ UNCHANGED <<world, tag, haveSet, body, set, disk, used, past>>

\* 304: the current set stays and the cache is not touched.  ETag and
\* Last-Modified are one validator, which the server compares by equality.
NotModified ==
    /\ at = "fetching" /\ at' = "idle"
    /\ tag # None /\ server[url] = tag
    /\ UNCHANGED <<world, tag, haveSet, body, set, disk, used, past>>

\* 200, with a validator or without one.
Received ==
    /\ at = "fetching" /\ at' = "received"
    /\ \E t \in {server[url], None} :
        body' = [doc |-> [url |-> url, ver |-> server[url]], tag |-> t]
    /\ UNCHANGED <<world, tag, haveSet, set, disk, used, past>>

\* No connection, another status, a body that ends early or does not parse.
Failed ==
    /\ at = "fetching" /\ at' = "failed"
    /\ Fault
    /\ UNCHANGED <<world, tag, haveSet, body, set, disk, past>>

\* writeCache, first file: a temporary file, renamed over the document.
WriteDocument ==
    /\ at = "received" /\ at' = "documented"
    /\ cached' = body.doc /\ aged' = FALSE /\ kept' = TRUE
    /\ UNCHANGED <<world, tag, haveSet, body, set, sidecar, used, cut, bare>>

\* Defect: the metadata is written although the document was not.
DocumentFailsContinues ==
    /\ at = "received" /\ at' = "documented"
    /\ Fault /\ cut' = TRUE
    /\ UNCHANGED <<world, tag, haveSet, body, set, disk, kept, bare>>

\* Defect: the document is written in place, and a failure leaves half of it.
DocumentFailsInPlace ==
    /\ at = "received" /\ at' = "written"
    /\ Fault /\ cut' = TRUE /\ cached' = None
    /\ UNCHANGED <<world, tag, haveSet, body, set, sidecar, aged, kept, bare>>

DocumentFails ==
    /\ at = "received" /\ at' = "written"
    /\ Fault /\ cut' = TRUE
    /\ UNCHANGED <<world, tag, haveSet, body, set, disk, kept, bare>>

\* writeCache, second file.
WriteSidecar ==
    /\ at = "documented" /\ at' = "written"
    /\ sidecar' = [url |-> url, tag |-> body.tag]
    /\ UNCHANGED <<world, tag, haveSet, body, set, cached, aged, used, past>>

SidecarFails ==
    /\ at = "documented" /\ at' = "written"
    /\ Fault /\ cut' = TRUE
    /\ UNCHANGED <<world, tag, haveSet, body, set, disk, kept, bare>>

\* The end of fetch and the replacement of the set, whether or not the cache
\* could be written.
Deliver ==
    /\ at = "written" /\ at' = "idle"
    /\ tag' = body.tag /\ haveSet' = TRUE /\ body' = None
    /\ set' = [doc |-> body.doc, stale |-> FALSE]
    /\ UNCHANGED <<world, disk, used, past>>

-----------------------------------------------------------------------------
(* Restarts.                                                               *)

\* A new Provider over the same cache.
Fresh(u) ==
    /\ used.restarts < MaxRestarts
    /\ used' = [used EXCEPT !.restarts = @ + 1]
    /\ at' = "start" /\ tag' = None /\ haveSet' = FALSE /\ body' = None
    /\ url' = u /\ moved' = (moved \/ u # url)
    /\ UNCHANGED <<server, top, returned, disk, kept, bare>>

\* The process dies anywhere and starts again, maybe with another configuration.
Crash(u) ==
    /\ Fresh(u)
    /\ set' = None
    /\ cut' = (cut \/ at = "documented")

\* The manager replaces the provider: stop waits for the goroutine.
Reconfigure(u) ==
    /\ at = "idle" /\ u # url
    /\ Fresh(u)
    /\ UNCHANGED <<set, cut>>

-----------------------------------------------------------------------------
Work == \/ Start \/ Poll \/ NotModified \/ Received \/ Failed \/ ReportStale
        \/ WriteDocument \/ DocumentFails \/ WriteSidecar \/ SidecarFails \/ Deliver

Next ==
    \/ Work
    \/ Age
    \/ \E u \in Url : Publish(u) \/ Return(u) \/ Crash(u) \/ Reconfigure(u)

\* The loop's timer always fires, and the client has a timeout.
Spec == Init /\ [][Next]_vars /\ WF_vars(Work)

-----------------------------------------------------------------------------
\* The types of the values and of the flags, and both.
DataOK ==
    /\ server \in [Url -> Nat] /\ top \in [Url -> Nat] /\ url \in Url
    /\ at \in {"start", "idle", "fetching", "failed", "received", "documented", "written"}
    /\ tag \in Nat \cup {None} /\ body \in Response \cup {None}
    /\ set \in Delivered \cup {None}
    /\ cached \in Document \cup {None} /\ sidecar \in Sidecar \cup {None}
    /\ used \in [changes : Nat, faults : Nat, restarts : Nat]

FlagsOK ==
    /\ haveSet \in BOOLEAN /\ aged \in BOOLEAN
    /\ cut \in BOOLEAN /\ kept \in BOOLEAN /\ bare \in BOOLEAN
    /\ returned \in BOOLEAN /\ moved \in BOOLEAN

TypeOK == DataOK /\ FlagsOK

Current == [url |-> url, ver |-> server[url]]

\* The delivered document is the one that the configured server has.
UpToDate == set # None /\ set.doc = Current

\* What makes a validator answer for another document: a cache write was cut
\* short, and then the server or the configuration went back to what it was, or
\* a stale report emitted a cached document that has no sidecar of its own.
Excused == cut /\ (returned \/ moved \/ bare)

\* "A 304 response keeps the current set": whenever the server would answer
\* 304, the delivered document is the server's, after any sequence of crashes,
\* failed writes and stale reports that is not Excused.
NotModifiedTruthful ==
    (at \in {"idle", "fetching"} /\ tag # None /\ tag = server[url]) => UpToDate \/ Excused

\* "The node is operational before the first fetch": once a document has been
\* cached, every request is sent with a document delivered, whatever was cut
\* short before.
OperationalFirst == kept /\ at = "fetching" => set # None

\* When the server is stable and answers, the node ends up with its document.
Converges == <>[](UpToDate \/ Excused)
=============================================================================
