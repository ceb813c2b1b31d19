-------------------------------- MODULE MCPaper --------------------------------
(***************************************************************************)
(* The way of a paper to the foundry, in parts that share no state: the       *)
(* pollers that discover it (HubScan, CursorLease, OaiWindow, RssFeed), its   *)
(* body (PaperPath, PdfWorker), the stores of the curator that are replaced   *)
(* (CuratorCutover), and the candidate queue of the foundry (FoundryQueue).   *)
(* The initial state says which part a behaviour is of.                      *)
(***************************************************************************)
EXTENDS FoundryQueue, Sequences, TLC

VARIABLES
    part, faults,
    hub, touches, completed, scan, blobs, poller, handled, emitted, before,
    clock, lease, leaser,
    day, stamp, cursor, run, found, since,
    feed, etag, pass, shown,
    local, old, new, snap, job, tables, schema, origin, written, mishaps,
    licence, discovered, topic, fetcher, admissions, objects, normal, failures, expired, aged,
    silver, curator,
    caller, child, down, up, given, calls, deaths

hubVars == <<hub, touches, completed, scan, blobs, poller, handled, emitted, before>>
leaseVars == <<clock, lease, leaser>>
windowVars == <<day, stamp, cursor, run, found, since>>
feedVars == <<feed, etag, pass, shown>>
cutoverVars == <<local, old, new, snap, job, tables, schema, origin, written, mishaps>>
paperVars == <<licence, discovered, topic, fetcher, admissions, objects, normal, failures,
               expired, aged, silver, curator>>
pdfVars == <<caller, child, down, up, given, calls, deaths>>

(* The constants of the parts. *)
CONSTANTS
    Repos, Blobs, Absent, Pollers, PageSize, TouchLimit, HubFaults,     \* HubScan
    Duration, ClockLimit, LeaseVersions,                                \* CursorLease
    Records, ResponseSize, DayLimit, OaiFaults,                         \* OaiWindow
    Entries, FeedVersions, FeedFaults,                                  \* RssFeed
    Papers, MaxRetries, DiscoverLimit, PathFaults, StatedRights,        \* PaperPath
    Documents, CallLimit, DeathLimit                                    \* PdfWorker

Hub == INSTANCE HubScan WITH FaultLimit <- HubFaults
Lease == INSTANCE CursorLease WITH poller <- leaser, VersionLimit <- LeaseVersions
Oai == INSTANCE OaiWindow WITH PageSize <- ResponseSize, FaultLimit <- OaiFaults
Rss == INSTANCE RssFeed WITH VersionLimit <- FeedVersions, FaultLimit <- FeedFaults
P == INSTANCE PaperPath WITH FaultLimit <- PathFaults
W == INSTANCE PdfWorker

ASSUME PaperWayAssumption ==
    /\ Hub!HubAssumption /\ Lease!LeaseAssumption /\ Oai!WindowAssumption
    /\ Rss!FeedAssumption /\ P!PaperAssumption /\ W!PdfAssumption

(* A document whose first text an earlier program took in, another text of it *)
(* and a copy under another address.                                       *)
CONSTANTS d1, d2, t1, t2, j1, j2, s1, s2
Of(d, t) == [doc |-> d, sig |-> t]
First == Of(d1, t1)
Buckets == (t1 :> {1, 2}) @@ (t2 :> {2, 3})
Kept(g) == [gen |-> g, sub |-> First, cluster |-> First, dup |-> FALSE]
Owned == [k \in 1..3 |-> IF k \in Buckets[t1] THEN First ELSE None]
BandsOnly(anchors) == [owner |-> Owned, anchored |-> anchors, signed |-> {}]
Unanchored == [owner |-> Owned, anchored |-> {}, signed |-> {First}]
Store(former, current, decisions) ==
    [decisions |-> decisions, lsh |-> (1 :> former) @@ (2 :> current)]
Empty == [clusters |-> {}, owner |-> [k \in 1..3 |-> None], legacy |-> {}]
Held(decisions, index) == [decisions |-> decisions, index |-> (1 :> Empty) @@ (2 :> index)]

Cutover == INSTANCE CuratorCutover WITH
        Docs <- {d1, d2}, Signatures <- {t1, t2}, Keys <- 1..3, KeysOf <- Buckets,
        Similar <- {<<t1, t1>>, <<t2, t2>>},
        Rank <- (First :> 0) @@ (Of(d2, t1) :> 1) @@ (Of(d1, t2) :> 2) @@ (Of(d2, t2) :> 3),
        Payloads <- {Of(d2, t1), Of(d1, t2)},
        Generations <- {1, 2}, Current <- 2,
        Inherited <- {Store(None, None, {}), Store(None, Unanchored, {Kept(2)}),
                      Store(None, BandsOnly({}), {}),
                      Store(BandsOnly({First}), Unanchored, {Kept(1), Kept(2)})},
        Earlier <- {Held({}, Empty),
                    Held({Kept(2)}, [Empty EXCEPT !.clusters = {First}, !.owner = Owned])},
        Jobs <- {j1, j2}, Dirs <- {s1, s2}, CrashLimit <- 1, RollbackLimit <- 1,
        faults <- mishaps
Interchangeable == Permutations({j1, j2}) \cup Permutations({s1, s2})

(* Every worker of the foundry writes its own name. *)
OwnNames == [w \in Workers |-> w]

-----------------------------------------------------------------------------
Unused(x) == x = 0
NoHub ==
    /\ Unused(hub) /\ Unused(touches) /\ Unused(completed) /\ Unused(scan) /\ Unused(blobs)
    /\ Unused(poller) /\ Unused(handled) /\ Unused(emitted) /\ Unused(before)
NoLeases == Unused(clock) /\ Unused(lease) /\ Unused(leaser)
NoWindow ==
    /\ Unused(day) /\ Unused(stamp) /\ Unused(cursor) /\ Unused(run) /\ Unused(found)
    /\ Unused(since)
NoFeed == Unused(feed) /\ Unused(etag) /\ Unused(pass) /\ Unused(shown)
NoCutover ==
    /\ Unused(local) /\ Unused(old) /\ Unused(new) /\ Unused(snap) /\ Unused(job)
    /\ Unused(tables) /\ Unused(schema) /\ Unused(origin) /\ Unused(written)
    /\ Unused(mishaps)
NoPaper ==
    /\ Unused(licence) /\ Unused(discovered) /\ Unused(topic) /\ Unused(fetcher) /\ Unused(admissions)
    /\ Unused(objects) /\ Unused(normal) /\ Unused(failures) /\ Unused(expired)
    /\ Unused(aged) /\ Unused(silver) /\ Unused(curator)
NoPdf ==
    /\ Unused(caller) /\ Unused(child) /\ Unused(down) /\ Unused(up) /\ Unused(given)
    /\ Unused(calls) /\ Unused(deaths)
NoQueue ==
    /\ Unused(row) /\ Unused(generation) /\ Unused(phase) /\ Unused(claim) /\ Unused(lost)
    /\ Unused(crashes)

discoveryVars == <<hubVars, leaseVars, windowVars, feedVars, cutoverVars>>
NoDiscovery == NoHub /\ NoLeases /\ NoWindow /\ NoFeed /\ NoCutover
bodyVars == <<paperVars, pdfVars, vars>>
NoBody == NoPaper /\ NoPdf /\ NoQueue
wayVars == <<part, faults, discoveryVars, bodyVars>>

(* The pollers and the cut-over. *)
IngestInit ==
    /\ NoBody
    /\ \/ part = "hub" /\ Hub!Init /\ NoLeases /\ NoWindow /\ NoFeed /\ NoCutover
       \/ /\ part = "lease" /\ Lease!Init /\ Unused(faults)
          /\ NoHub /\ NoWindow /\ NoFeed /\ NoCutover
       \/ part = "window" /\ Oai!Init /\ NoHub /\ NoLeases /\ NoFeed /\ NoCutover
       \/ part = "feed" /\ Rss!Init /\ NoHub /\ NoLeases /\ NoWindow /\ NoCutover
       \/ /\ part = "cutover" /\ Cutover!Init /\ Unused(faults)
          /\ NoHub /\ NoLeases /\ NoWindow /\ NoFeed

IngestNext ==
    /\ UNCHANGED <<part, bodyVars>>
    /\ \/ /\ part = "hub" /\ Hub!Next
          /\ UNCHANGED <<leaseVars, windowVars, feedVars, cutoverVars>>
       \/ /\ part = "lease" /\ Lease!Next
          /\ UNCHANGED <<hubVars, windowVars, feedVars, cutoverVars, faults>>
       \/ /\ part = "window" /\ Oai!Next
          /\ UNCHANGED <<hubVars, leaseVars, feedVars, cutoverVars>>
       \/ /\ part = "feed" /\ Rss!Next
          /\ UNCHANGED <<hubVars, leaseVars, windowVars, cutoverVars>>
       \/ /\ part = "cutover" /\ Cutover!Next
          /\ UNCHANGED <<hubVars, leaseVars, windowVars, feedVars, faults>>

IngestSpec == IngestInit /\ [][IngestNext]_wayVars

(* The body and the queue.  In the runs no paper states open rights: those     *)
(* that are found take the way of none, and those that a lookup misses         *)
(* conflict with the page like closed ones.                                *)
PathInit ==
    /\ NoDiscovery
    /\ \/ /\ part = "paper" /\ P!Init /\ licence \in [Papers -> StatedRights]
          /\ NoPdf /\ NoQueue
       \/ part = "pdf" /\ W!Init /\ NoPaper /\ NoQueue /\ Unused(faults)
       \/ part = "queue" /\ Init /\ NoPaper /\ NoPdf /\ Unused(faults)

PathNext ==
    /\ UNCHANGED <<part, discoveryVars>>
    /\ \/ part = "paper" /\ P!Next /\ UNCHANGED <<pdfVars, vars>>
       \/ part = "pdf" /\ W!Next /\ UNCHANGED <<paperVars, vars, faults>>
       \/ part = "queue" /\ Next /\ UNCHANGED <<paperVars, pdfVars, faults>>

(* The fairness of PaperPath!Spec, PdfWorker!Spec and FoundryQueue!FairSpec. *)
PathSpec ==
    /\ PathInit /\ [][PathNext]_wayVars
    /\ WF_paperVars(part = "paper" /\ P!Fetch)
    /\ WF_paperVars(part = "paper" /\ P!Normal)
    /\ WF_paperVars(part = "paper" /\ P!Curate /\ curator' # curator)
    /\ WF_pdfVars(part = "pdf" /\ W!Parent)
    /\ WF_vars(part = "queue" /\ Tick)
    /\ \A w \in Workers : WF_vars(part = "queue" /\ Drain(w))

-----------------------------------------------------------------------------
(* No order of requests gives a cursor two owners, see CursorLease.          *)
OneOwner == part = "lease" => Lease!TypeOK /\ Lease!OneOwner

(* What a feed shows is discovered before its cursor passes it, see          *)
(* HubScan!NothingSkipped, OaiWindow and RssFeed.                           *)
NothingMissed ==
    /\ part = "hub" => Hub!TypeOK /\ Hub!NothingSkipped
    /\ part = "window" => Oai!TypeOK /\ Oai!RecordsDiscovered
    /\ part = "feed" => Rss!TypeOK /\ Rss!EntriesDiscovered

(* A README is not emitted anew by an undisturbed pass, see HubScan.         *)
ReadmeOnce == part = "hub" => Hub!BlobOnce

(* The tables that replace the stores of the single curator hold one import    *)
(* and what came after it, and admit nothing it would have rejected, see       *)
(* CuratorCutover.                                                         *)
CutoverLosesNothing ==
    part = "cutover" => Cutover!TypeOK /\ Cutover!OneSource /\ Cutover!NothingReadmitted

(* No paper vanishes between two stages, whatever dies in between, see        *)
(* PaperPath!NothingVanishes.                                              *)
PaperComesThrough == part = "paper" => P!TypeOK /\ P!NothingVanishes

(* A document is never given the text of another one, see PdfWorker.        *)
OwnAnswer == part = "pdf" => W!TypeOK /\ W!OwnAnswer

(* The body fetcher and the normaliser come to the end of their topics, and   *)
(* every call of the PDF worker returns, see PaperPath!PartitionMoves and     *)
(* PdfWorker!CallsReturn: a behaviour is of one part, and what is read of a   *)
(* bounded topic stays read.                                               *)
Unread == part = "paper" /\ (P!HasDiscovery \/ normal.saved < Len(topic))
Calling == part = "pdf" /\ caller.pc # "free"
NormaliserMoves == []<>(~Unread /\ ~Calling)

(* The queue is never wedged: while papers wait or are pinned by a claim,    *)
(* some worker eventually holds a live claim (FoundryQueue!NeverWedged).     *)
Waiting == part = "queue" /\ \E d \in DOMAIN row : row[d].state # "absent"
Served == part = "queue" /\ \E w \in Workers : ClaimOwned(w, 0)
QueueMoves == []<>(~Waiting \/ Served)

(* src/schemas/license_admission.py:5 "explicit incompatible rights never    *)
(* reach extraction or curation": no body of a paper is handed on after it    *)
(* was refused for its rights, see PaperPath!RefusedStaysOut.               *)
RefusedStaysOut ==
    [][part = "paper" => \A s \in admissions : s.rights = "closed" =>
          \A i \in DOMAIN topic' \ DOMAIN topic :
              topic'[i].kind \in P!Bodies => topic'[i].paper # s.paper]_topic

(* src/processor/curate.py:1591 "The arXiv fulltext worker consumes it and     *)
(* deliberately refetches the PDF": every retry envelope is answered, see     *)
(* PaperPath!RetriesConsumed.                                              *)
RetriesConsumed == []<>~(part = "paper" /\ \E i \in DOMAIN topic : P!Unanswered(i))
=============================================================================
