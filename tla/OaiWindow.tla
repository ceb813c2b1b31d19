------------------------------- MODULE OaiWindow -------------------------------
(***************************************************************************)
(* The OAI poller (ingest/oaipmh_poller) of one feed, by the holder of its  *)
(* cursor.  It lists the records of a window of days page by page,           *)
(* publishes them, and stores the token of the next page; the next window   *)
(* begins with the last day of this one.                                   *)
(***************************************************************************)
EXTENDS Integers, FiniteSets

CONSTANTS
    Records,        \* an update gives a record a new datestamp
    PageSize,       \* records of a response
    DayLimit, FaultLimit    \* bounds

WindowAssumption == PageSize \in Nat \ {0} /\ DayLimit \in Nat \ {0} /\ FaultLimit \in Nat

VARIABLES
    day,
    stamp,          \* of a record: its datestamp, or 0
    cursor,         \* the stored state
    run,            \* the pass under way
    found,          \* what was published of the records, with the datestamp
    since,          \* auxiliary: the first day that was asked for
    faults

vars == <<day, stamp, cursor, run, found, since, faults>>

(* What the server still has to deliver under a resumption token is named by *)
(* the token; NoToken is the end of the list.                                *)
NoToken == {}
NoCursor == [from |-> 0, until |-> 0, token |-> NoToken]
NoRun == [pc |-> "off", from |-> 0, until |-> 0, token |-> NoToken, page |-> {}]

Init ==
    /\ day = 1 /\ stamp = [r \in Records |-> 0]
    /\ cursor = NoCursor /\ run = NoRun /\ found = {} /\ since = 0
    /\ faults = 0

-----------------------------------------------------------------------------
Fault == faults < FaultLimit /\ faults' = faults + 1

NextDay ==
    /\ day < DayLimit /\ day' = day + 1
    /\ UNCHANGED <<stamp, cursor, run, found, since, faults>>

(* arXiv adds or updates a record: its datestamp is today.                  *)
Stamp(r) ==
    /\ stamp[r] # day
    /\ stamp' = [stamp EXCEPT ![r] = day]
    /\ UNCHANGED <<day, cursor, run, found, since, faults>>

-----------------------------------------------------------------------------

(* poll_feed: the window that is stored, or from the end of the last one to  *)
(* today; without any state the first window is today.                     *)
WindowFrom(c) == IF c.token # NoToken THEN c.from ELSE IF c.until # 0 THEN c.until ELSE day
WindowUntil(c) == IF c.token # NoToken THEN c.until ELSE day

BeginWindow ==
    /\ run.pc = "off"
    /\ run' = [pc |-> "request", from |-> WindowFrom(cursor), until |-> WindowUntil(cursor),
               token |-> cursor.token, page |-> {}]
    /\ since' = IF cursor = NoCursor THEN day ELSE since
    /\ UNCHANGED <<day, stamp, cursor, found, faults>>

(* One request of list_pages: the first fixes what the tokens will deliver.  *)
InWindow == {<<r, stamp[r]>> : r \in {r \in Records : stamp[r] \in run.from..run.until}}
Request ==
    LET list == IF run.token = NoToken THEN InWindow ELSE run.token IN
    /\ run.pc = "request"
    /\ \E page \in SUBSET list :
          /\ Cardinality(page) = PageSize \/ (page = list /\ Cardinality(list) <= PageSize)
          /\ run' = [run EXCEPT !.pc = "page", !.page = page,
                        !.token = IF page = list THEN NoToken ELSE list \ page]
    /\ UNCHANGED <<day, stamp, cursor, found, since, faults>>

(* publish_discovery_payload *)
PublishRecord ==
    /\ run.pc = "page"
    /\ \E x \in run.page :
          run' = [run EXCEPT !.page = @ \ {x}] /\ found' = found \cup {x}
    /\ UNCHANGED <<day, stamp, cursor, since, faults>>

(* The page is done: its token is stored, or the end of the window.  The     *)
(* pass goes on, or pauses after max_pages.                                *)
PageDone ==
    /\ run.pc = "page" /\ run.page = {}
    /\ IF run.token = NoToken
       THEN cursor' = [NoCursor EXCEPT !.until = run.until] /\ run' = NoRun
       ELSE /\ cursor' = [from |-> run.from, until |-> run.until, token |-> run.token]
            /\ run' \in {[run EXCEPT !.pc = "request"], NoRun}
    /\ UNCHANGED <<day, stamp, found, since, faults>>

(* A request or a record fails, max_records are reached within a page, or    *)
(* the process dies.                                                       *)
PassFails ==
    /\ run.pc # "off" /\ Fault
    /\ run' = NoRun
    /\ UNCHANGED <<day, stamp, cursor, found, since>>

Next ==
    \/ NextDay \/ (\E r \in Records : Stamp(r))
    \/ BeginWindow \/ Request \/ PublishRecord \/ PageDone \/ PassFails

Spec == Init /\ [][Next]_vars
-----------------------------------------------------------------------------
TypeOK ==
    /\ day \in 1..DayLimit /\ stamp \in [Records -> 0..day]
    /\ found \subseteq Records \X (1..DayLimit) /\ faults \in 0..FaultLimit
    /\ run.pc \in {"off", "request", "page"} /\ run.until <= day /\ cursor.until <= day

(* oaipmh_poller/poller.py:1-7: a record that keeps its datestamp is         *)
(* discovered once the window that ends after that day is complete, however *)
(* the window was paused, resumed or repeated.                             *)
RecordsDiscovered ==
    cursor.token = NoToken =>
        \A r \in Records :
            stamp[r] >= since /\ stamp[r] < cursor.until => <<r, stamp[r]>> \in found
=============================================================================
