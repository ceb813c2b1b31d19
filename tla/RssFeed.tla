-------------------------------- MODULE RssFeed --------------------------------
(***************************************************************************)
(* The RSS poller (ingest/rss_poller) of one feed, by the holder of its      *)
(* cursor: it publishes all entries that the feed shows, and stores the     *)
(* ETag of the response when every one of them was published.               *)
(***************************************************************************)
EXTENDS Integers

CONSTANTS
    Entries,
    VersionLimit, FaultLimit    \* bounds

FeedAssumption == VersionLimit \in Nat /\ FaultLimit \in Nat

VARIABLES
    feed,           \* its ETag and its entries
    etag,           \* the stored ETag, or 0
    pass,           \* the pass under way
    shown,          \* published entries
    faults

vars == <<feed, etag, pass, shown, faults>>

NoPass == [pc |-> "off", etag |-> 0, left |-> {}, failed |-> FALSE]

Init ==
    /\ feed \in [etag : {1}, entries : SUBSET Entries]
    /\ etag = 0 /\ pass = NoPass /\ shown = {} /\ faults = 0

-----------------------------------------------------------------------------
Fault == faults < FaultLimit /\ faults' = faults + 1

(* The feed shows other entries, under another ETag. *)
Refresh ==
    /\ feed.etag < VersionLimit
    /\ \E S \in SUBSET Entries : feed' = [etag |-> feed.etag + 1, entries |-> S]
    /\ UNCHANGED <<etag, pass, shown, faults>>

(* poll_feed: 304 for the ETag that is stored. *)
FetchFeed ==
    /\ pass.pc = "off" /\ feed.etag # etag
    /\ pass' = [pc |-> "entries", etag |-> feed.etag, left |-> feed.entries, failed |-> FALSE]
    /\ UNCHANGED <<feed, etag, shown, faults>>

PublishEntry ==
    /\ pass.pc = "entries"
    /\ \E e \in pass.left :
          pass' = [pass EXCEPT !.left = @ \ {e}] /\ shown' = shown \cup {e}
    /\ UNCHANGED <<feed, etag, faults>>

(* An entry that is not published does not stop the others. *)
EntryFails ==
    /\ pass.pc = "entries" /\ Fault
    /\ \E e \in pass.left : pass' = [pass EXCEPT !.left = @ \ {e}, !.failed = TRUE]
    /\ UNCHANGED <<feed, etag, shown>>

(* An exception for a pass with failures comes before state_store.put.      *)
Stored == IF pass.failed THEN etag ELSE pass.etag

FeedDone ==
    /\ pass.pc = "entries" /\ pass.left = {}
    /\ etag' = Stored
    /\ pass' = NoPass
    /\ UNCHANGED <<feed, shown, faults>>

FeedFails ==
    /\ pass.pc # "off" /\ Fault
    /\ pass' = NoPass
    /\ UNCHANGED <<feed, etag, shown>>

Next == Refresh \/ FetchFeed \/ PublishEntry \/ EntryFails \/ FeedDone \/ FeedFails

Spec == Init /\ [][Next]_vars
-----------------------------------------------------------------------------
TypeOK ==
    /\ shown \subseteq Entries /\ etag <= feed.etag /\ faults \in 0..FaultLimit
    /\ pass.pc \in {"off", "entries"} /\ pass.left \subseteq Entries

(* rss_poller/poller.py:142-147: what the feed shows under the stored ETag   *)
(* was published.                                                          *)
EntriesDiscovered == feed.etag = etag => feed.entries \subseteq shown
=============================================================================
