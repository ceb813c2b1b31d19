-------------------------------- MODULE HubScan --------------------------------
(***************************************************************************)
(* The poller of one Hugging Face catalogue (ingest/hf_poller/poller.py).   *)
(* The catalogue lists repositories, the last modified first, in pages.  A   *)
(* scan goes from its head down to the watermark of the last complete scan,  *)
(* emits every README it has not emitted before, and makes the head it       *)
(* started from the new watermark.  Where it stands is stored after every    *)
(* item, so that another process resumes it.  A revision of a repository is  *)
(* named by the repository and its time of modification.                    *)
(***************************************************************************)
EXTENDS Integers, FiniteSets, FiniteSetsExt

CONSTANTS
    Repos,          \* numbers: ties in time are listed by repository
    Blobs,          \* what a README may be
    Absent,         \* no README at the revision
    Pollers,        \* processes; two work at once only when a lease has run out
    PageSize,       \* limit
    TouchLimit, FaultLimit      \* bounds: changes of repositories, failures

HubAssumption ==
    /\ Repos \subseteq Nat /\ IsFiniteSet(Repos) /\ IsFiniteSet(Pollers)
    /\ Blobs # {} /\ Absent \notin Blobs
    /\ PageSize \in Nat \ {0} /\ TouchLimit \in Nat /\ FaultLimit \in Nat

VARIABLES
    hub,            \* of a repository: when it was modified, and its README
    touches,
    completed, scan,    \* the stored state: the watermark and the scan under way
    blobs,          \* the stored checkpoints: READMEs that were emitted
    poller,
    handled,        \* auxiliary: revisions that were emitted or had nothing new
    emitted,        \* auxiliary: how often a README was emitted
    before,         \* auxiliary: revisions that a scan without a watermark left behind
    faults

world == <<hub, touches>>
store == <<completed, scan, blobs>>
history == <<handled, emitted, before>>
vars == <<world, store, poller, history, faults>>

(* A watermark: the newest time listed, and the revisions of that time.     *)
NoMark == [time |-> 0, keys |-> {}]
Top == <<0, 0>>     \* the first page; other pages follow a revision
NoScan == [on |-> FALSE, boundary |-> NoMark, cursor |-> Top, processed |-> {}, head |-> NoMark]
Idle == [pc |-> "idle", completed |-> NoMark, scan |-> NoScan, items |-> {},
         crossed |-> FALSE, more |-> FALSE, last |-> Top, full |-> FALSE, blob |-> Absent]

Init ==
    /\ hub \in [Repos -> [time : 1..2, blob : {CHOOSE b \in Blobs : TRUE}]] /\ touches = 0
    /\ completed = NoMark /\ scan = NoScan /\ blobs = {}
    /\ poller = [p \in Pollers |-> Idle]
    /\ handled = {} /\ emitted = [e \in Repos \X Blobs |-> 0] /\ before = {} /\ faults = 0

-----------------------------------------------------------------------------
Revision(r) == <<hub[r].time, r>>
Listed == {Revision(r) : r \in Repos}

(* _catalogue_order: descending time, then the name. *)
Before(x, y) == x[1] > y[1] \/ (x[1] = y[1] /\ x[2] < y[2])
After(cursor) == IF cursor = Top THEN Listed ELSE {x \in Listed : Before(cursor, x)}
Page(cursor) == {x \in After(cursor) : Cardinality({y \in After(cursor) : Before(y, x)}) < PageSize}
FirstOf(S) == CHOOSE x \in S : \A y \in S \ {x} : Before(x, y)
LastOf(S) == CHOOSE x \in S : \A y \in S \ {x} : Before(y, x)

(* A commit to a repository: it moves to the head of the catalogue, at the    *)
(* time of the newest or later.  The README need not change.               *)
Touch(r) ==
    LET today == Max({hub[q].time : q \in Repos}) IN
    /\ touches < TouchLimit /\ touches' = touches + 1
    /\ \E t \in {today, today + 1} \ {hub[r].time}, b \in Blobs \cup {Absent} :
          hub' = [hub EXCEPT ![r] = [time |-> t, blob |-> b]]
    /\ UNCHANGED <<store, poller, history, faults>>

-----------------------------------------------------------------------------
At(p, pc) == poller[p].pc = pc
Fault == faults < FaultLimit /\ faults' = faults + 1

(* state_store.put of the whole state, and what the process goes on with.   *)
Store(p, c, s, rest) ==
    /\ completed' = c /\ scan' = s
    /\ poller' = [poller EXCEPT ![p] = [rest EXCEPT !.completed = c, !.scan = s]]

(* _new_scan_state: the scan that is stored is resumed, or a new one begins. *)
Begin(p) ==
    LET new == [NoScan EXCEPT !.on = TRUE, !.boundary = completed] IN
    /\ At(p, "idle")
    /\ IF \A q \in Pollers : At(q, "idle") THEN UNCHANGED faults ELSE Fault
    /\ Store(p, completed, IF scan.on THEN scan ELSE new, [Idle EXCEPT !.pc = "list"])
    /\ UNCHANGED <<world, blobs, history>>

(* _update_scan_head *)
Head(mark, items) ==
    LET newest == Max({mark.time} \cup {x[1] : x \in items}) IN
    [time |-> newest, keys |-> {x \in items : x[1] = newest}
                               \cup (IF mark.time = newest THEN mark.keys ELSE {})]

(* One request; the link to the next page may be missing by a fault.        *)
List(p) ==
    LET s == poller[p].scan  page == Page(s.cursor)
        more == page # {} /\ After(LastOf(page)) # {} IN
    /\ At(p, "list")
    /\ \E link \in {more, FALSE} :
          /\ IF link = more THEN UNCHANGED faults ELSE Fault
          /\ Store(p, poller[p].completed, [s EXCEPT !.head = Head(@, page)],
                   [poller[p] EXCEPT !.pc = "items", !.items = page, !.crossed = FALSE,
                        !.more = link, !.last = IF page = {} THEN Top ELSE LastOf(page),
                        !.full = Cardinality(page) >= PageSize])
    /\ UNCHANGED <<world, blobs, history>>

(* Mutant of Older: no ties, what has the time of the watermark is done.    *)
OlderOrTied(x, mark) == x[1] <= mark.time

(* _boundary_relation: older than the watermark, or part of it.             *)
Older(x, mark) == x[1] < mark.time
Known(x, mark) == x \in mark.keys

Item(p) == FirstOf(poller[p].items)
Working(p) == At(p, "items") /\ poller[p].items # {}
Crosses(p) == Older(Item(p), poller[p].scan.boundary)
Skipped(p) == Known(Item(p), poller[p].scan.boundary) \/ Item(p) \in poller[p].scan.processed

PassOver(p) ==
    /\ Working(p) /\ Crosses(p)
    /\ poller' = [poller EXCEPT ![p].items = @ \ {Item(p)}, ![p].crossed = TRUE]
    /\ UNCHANGED <<world, store, history, faults>>

(* The item is done, and the state is stored. *)
Done(p) ==
    Store(p, poller[p].completed, [poller[p].scan EXCEPT !.processed = @ \cup {Item(p)}],
          [poller[p] EXCEPT !.pc = "items", !.items = @ \ {Item(p)}])

AlreadyDone(p) ==
    /\ Working(p) /\ ~Crosses(p) /\ Skipped(p)
    /\ Done(p)
    /\ UNCHANGED <<world, blobs, history, faults>>

(* HEAD of the README at the revision that was listed.  One that answers HEAD  *)
(* and is gone at the GET that follows (401, 403, 404) is Absent here if its  *)
(* repository was touched meanwhile, and is left out otherwise.             *)
BlobOf(x) == IF x = Revision(x[2]) THEN {hub[x[2]].blob} ELSE Blobs \cup {Absent}

(* Mutant of Remembered: one checkpoint for each repository.                *)
LastRemembered(x, b) == {e \in blobs : e[1] # x[2]} \cup {<<x[2], b>>}

(* The checkpoint of a README, which is kept for ever. *)
Remembered(x, b) == blobs \cup {<<x[2], b>>}

NothingNew(p) ==
    /\ Working(p) /\ ~Crosses(p) /\ ~Skipped(p)
    /\ \E b \in BlobOf(Item(p)) : b = Absent \/ <<Item(p)[2], b>> \in blobs
    /\ Done(p)
    /\ handled' = handled \cup {Item(p)}
    /\ UNCHANGED <<world, blobs, emitted, before, faults>>

(* _emit_payload: the admission, the object and the record. *)
Emit(p) ==
    /\ Working(p) /\ ~Crosses(p) /\ ~Skipped(p)
    /\ \E b \in BlobOf(Item(p)) \ {Absent} :
          /\ <<Item(p)[2], b>> \notin blobs
          /\ emitted' = [emitted EXCEPT ![<<Item(p)[2], b>>] = @ + 1]
          /\ poller' = [poller EXCEPT ![p].pc = "emitted", ![p].blob = b]
    /\ handled' = handled \cup {Item(p)}
    /\ UNCHANGED <<world, store, before, faults>>

(* The checkpoint and the state of the scan, two puts of one process.        *)
Remember(p) ==
    /\ At(p, "emitted")
    /\ blobs' = Remembered(Item(p), poller[p].blob)
    /\ Done(p)
    /\ UNCHANGED <<world, history, faults>>

-----------------------------------------------------------------------------
PageDone(p) == At(p, "items") /\ poller[p].items = {}
Bootstrap(p) == poller[p].scan.boundary = NoMark
Finished(p) == Bootstrap(p) \/ poller[p].crossed

NextPage(p) ==
    /\ PageDone(p) /\ ~Finished(p) /\ poller[p].more
    /\ Store(p, poller[p].completed,
             [poller[p].scan EXCEPT !.cursor = poller[p].last, !.processed = {}],
             [poller[p] EXCEPT !.pc = "list"])
    /\ UNCHANGED <<world, blobs, history, faults>>

(* The head becomes the watermark. *)
Complete(p) ==
    LET head == poller[p].scan.head
        mark == IF head = NoMark THEN poller[p].completed ELSE head IN
    /\ PageDone(p) /\ (Finished(p) \/ ~(poller[p].more \/ poller[p].full))
    /\ completed' = mark /\ scan' = NoScan
    /\ before' = IF Bootstrap(p) THEN before \cup {x \in Listed : Before(poller[p].last, x)}
                 ELSE before
    /\ poller' = [poller EXCEPT ![p] = Idle]
    /\ UNCHANGED <<world, blobs, handled, emitted, faults>>

(* A full page without a link before the watermark: the pass fails.         *)
GapFound(p) ==
    /\ PageDone(p) /\ ~Finished(p) /\ ~poller[p].more /\ poller[p].full
    /\ poller' = [poller EXCEPT ![p] = Idle]
    /\ UNCHANGED <<world, store, history, faults>>

(* Any request fails, or the process dies. *)
Abort(p) ==
    /\ ~At(p, "idle") /\ Fault
    /\ poller' = [poller EXCEPT ![p] = Idle]
    /\ UNCHANGED <<world, store, history>>

Next ==
    \/ \E r \in Repos : Touch(r)
    \/ \E p \in Pollers :
          \/ Begin(p) \/ List(p) \/ PassOver(p) \/ AlreadyDone(p) \/ NothingNew(p)
          \/ Emit(p) \/ Remember(p) \/ NextPage(p) \/ Complete(p) \/ GapFound(p) \/ Abort(p)

Spec == Init /\ [][Next]_vars
-----------------------------------------------------------------------------
TypeOK ==
    /\ touches \in 0..TouchLimit /\ faults \in 0..FaultLimit
    /\ blobs \subseteq Repos \X Blobs /\ completed.time \in 0..(TouchLimit + 2)
    /\ \A p \in Pollers : poller[p].pc \in {"idle", "list", "items", "emitted"}

(* poller.py:657-661: the watermark is never ahead of the work.  A revision   *)
(* that the catalogue still shows is handled before a watermark covers it,  *)
(* whatever was touched, resumed or repeated meanwhile; only a scan that had *)
(* no watermark leaves some behind, those after its page.                   *)
Covered(x) == x[1] < completed.time \/ x \in completed.keys
NothingSkipped == \A x \in Listed : Covered(x) => x \in handled \cup before

(* poller.py:533-535: a README is emitted again only by a pass that failed   *)
(* between its record and its checkpoint.                                  *)
BlobOnce == \A e \in DOMAIN emitted : emitted[e] <= 1 + faults
=============================================================================
