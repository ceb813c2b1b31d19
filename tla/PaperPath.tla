------------------------------- MODULE PaperPath -------------------------------
(***************************************************************************)
(* The way of an arXiv paper from its discovery to a normalised record.  The *)
(* body fetcher (ingest/arxiv_html_fetcher) reads arxiv.discovery, where the *)
(* pollers publish, looks up the rights, publishes the admission decision,   *)
(* fetches a body, stores it and publishes a body record on raw.fetched.     *)
(* The normaliser (processor/fetcher.py) reads that topic and publishes      *)
(* documents; the curator asks for another extraction of an incomplete one   *)
(* with a retry envelope on raw.fetched.  The topics are those that the      *)
(* chart gives the three: no retry envelope comes to the body fetcher, and   *)
(* what it would do with one (force_pdf) is left out.  Each of the three may *)
(* die at any point and resumes from its last committed position.           *)
(***************************************************************************)
EXTENDS Integers, Sequences

CONSTANTS
    Papers,
    MaxRetries,                             \* S2P_CURATOR_MAX_EXTRACTION_RETRIES
    DiscoverLimit, FaultLimit               \* bounds

PaperAssumption == MaxRetries \in Nat /\ DiscoverLimit \in Nat /\ FaultLimit \in Nat

VARIABLES
    licence,        \* of a paper, as arXiv states it
    discovered,     \* arxiv.discovery
    topic,          \* raw.fetched
    fetcher,        \* the committed offset and the record under way
    admissions,     \* what was published of the rights of papers
    objects,        \* keys of Bronze objects
    normal,         \* the normaliser: next offset, and the one of its snapshot
    failures,       \* the offsets in the ledger of processing failures
    expired,        \* the index of keys whose object is gone
    aged,           \* auxiliary: offsets that were too old to be processed
    silver,         \* docs.normalized
    curator,        \* the curator's position in silver
    faults

vars == <<licence, discovered, topic, fetcher, admissions, objects, normal, failures,
          expired, aged, silver, curator, faults>>

Rights == {"open", "none", "closed"}
Bodies == {"html", "pdf"}
Idle == [pc |-> "idle", rights |-> "none", body |-> <<>>]

Init ==
    /\ licence \in [Papers -> Rights]
    /\ discovered = <<>> /\ topic = <<>> /\ silver = <<>>
    /\ fetcher = [done |-> 0, job |-> Idle]
    /\ normal = [next |-> 0, saved |-> 0] /\ curator = 0
    /\ admissions = {} /\ objects = {} /\ failures = {} /\ expired = {} /\ aged = {}
    /\ faults = 0

-----------------------------------------------------------------------------
Fault == faults < FaultLimit /\ faults' = faults + 1

(* decide_license_admission: the purpose that the rights allow.             *)
Status(rights) ==
    CASE rights = "open" -> "admitted"
      [] rights = "none" -> "posttrain_transform_only"
      [] OTHER -> "quarantined"
FetchAllowed(rights) == Status(rights) # "quarantined"

(* A poller publishes a paper under the name of its feed: one that the body   *)
(* fetcher follows, or the feed of a category that was added in the values.  *)
Feeds == {"arxiv", "other"}
Discover(p) ==
    /\ Len(discovered) < DiscoverLimit
    /\ \E feed \in Feeds : discovered' = Append(discovered, [paper |-> p, feed |-> feed])
    /\ UNCHANGED <<licence, topic, fetcher, admissions, objects, normal, failures, expired,
                   aged, silver, curator, faults>>

(* A record of raw.fetched.  Auxiliary: the discovery that a body is from,    *)
(* which the code does not keep.                                           *)
Envelope(kind, paper, attempt, rights, from) ==
    [kind |-> kind, paper |-> paper, attempt |-> attempt, rights |-> rights, from |-> from]

(* bronze_object_key names the paper, the day and the form: within a day a    *)
(* second fetch of a form replaces the object.                              *)
Key(e) == <<e.paper, e.kind>>

(* An object is removed: the lifecycle rule of the bucket, or an operator.   *)
LoseObject ==
    /\ Fault
    /\ \E k \in objects : objects' = objects \ {k}
    /\ UNCHANGED <<licence, discovered, topic, fetcher, admissions, normal, failures,
                   expired, aged, silver, curator>>

-----------------------------------------------------------------------------
Reading == fetcher.done + 1
Current == discovered[Reading]
HasDiscovery == fetcher.done < Len(discovered)
FetcherAt(pc) == fetcher.job.pc = pc
Proceed(job) == fetcher' = [fetcher EXCEPT !.job = job]
FetcherOnly ==
    UNCHANGED <<licence, discovered, normal, failures, expired, aged, silver, curator>>

(* stream_ids_from_topic: an envelope of a feed with another name is         *)
(* committed at once.                                                      *)
Foreign == Current.feed = "other"
Ignore ==
    /\ FetcherAt("idle") /\ HasDiscovery /\ Foreign
    /\ fetcher' = [fetcher EXCEPT !.done = @ + 1]
    /\ UNCHANGED <<topic, admissions, objects, faults>> /\ FetcherOnly

(* fetch_arxiv_license_with_source: the abstract page, then the Atom API; a   *)
(* lookup that fails on both is one that found no rights.                   *)
LookUp == {licence[Current.paper], "none"}

(* The decision is published before anything is fetched.  Auxiliary: the      *)
(* discovery that it is about.                                             *)
Publish(rights) ==
    admissions' = admissions \cup
                    {[paper |-> Current.paper, rights |-> rights, from |-> Reading]}
Admit ==
    /\ FetcherAt("idle") /\ HasDiscovery /\ ~Foreign
    /\ \E rights \in LookUp :
          /\ Publish(rights)
          /\ Proceed([Idle EXCEPT !.rights = rights,
                         !.pc = IF FetchAllowed(rights) THEN "fetch" ELSE "commit"])
    /\ UNCHANGED <<topic, objects, faults>> /\ FetcherOnly

(* Mutant of FetchFails: run_for_ids without raise_on_fetch_error, its        *)
(* default, goes on to the next paper.                                     *)
FetchFailsQuietly == FetcherAt("fetch") /\ Proceed([fetcher.job EXCEPT !.pc = "commit"])

(* An error of the transport ends the process: the record is read again.     *)
FetchFails == FetcherAt("fetch") /\ Proceed(Idle)

(* make_bronze_record: the pipeline of a first fetch names no attempt.        *)
Body(form) == Envelope(form, Current.paper, 0, fetcher.job.rights, Reading)

(* fetch_one: HTML from arXiv or from its mirror, or the PDF; an answer       *)
(* other than "not there" ends the search with a metadata stub.  The object   *)
(* is stored before its record is sent.                                     *)
Obtainable == Bodies \cup {"stub"}
FetchBody ==
    /\ FetcherAt("fetch")
    /\ \E form \in Obtainable :
          /\ objects' = objects \cup {Key(Body(form))}
          /\ Proceed([fetcher.job EXCEPT !.pc = "emit", !.body = <<Body(form)>>])
    /\ UNCHANGED <<topic, admissions, faults>> /\ FetcherOnly

(* The HTML page states other rights than the lookup: a second, refusing      *)
(* decision; the body is dropped.                                          *)
Conflict ==
    /\ FetcherAt("fetch")
    /\ licence[Current.paper] \notin {"none", fetcher.job.rights}
    /\ Publish("conflict")
    /\ Proceed([fetcher.job EXCEPT !.pc = "commit"])
    /\ UNCHANGED <<topic, objects, faults>> /\ FetcherOnly

Emit ==
    /\ FetcherAt("emit")
    /\ topic' = topic \o fetcher.job.body
    /\ Proceed([fetcher.job EXCEPT !.pc = "commit", !.body = <<>>])
    /\ UNCHANGED <<admissions, objects, faults>> /\ FetcherOnly

(* _commit_consumed_record *)
Commit ==
    /\ FetcherAt("commit")
    /\ fetcher' = [done |-> fetcher.done + 1, job |-> Idle]
    /\ UNCHANGED <<topic, admissions, objects, faults>> /\ FetcherOnly

FetchError == Fault /\ FetchFails /\ UNCHANGED <<topic, admissions, objects>> /\ FetcherOnly
FetcherDies ==
    /\ Fault /\ ~FetcherAt("idle") /\ Proceed(Idle)
    /\ UNCHANGED <<topic, admissions, objects>> /\ FetcherOnly

Fetch == Ignore \/ Admit \/ FetchBody \/ Conflict \/ Emit \/ Commit

-----------------------------------------------------------------------------
NormalOnly ==
    UNCHANGED <<licence, discovered, topic, fetcher, admissions, objects, curator>>
Next1 == normal.next + 1
Input == topic[Next1]
HasInput == normal.next < Len(topic)
Passed == normal' = [normal EXCEPT !.next = @ + 1]

(* process_bronze_payload: metadata envelopes and records whose rights allow *)
(* no purpose have no document; nor has a record whose object is known to be *)
(* gone.                                                                   *)
Skipped(e) == e.kind \notin Bodies \/ ~FetchAllowed(e.rights) \/ Key(e) \in expired
Skip ==
    /\ HasInput /\ Skipped(Input) /\ Passed
    /\ UNCHANGED <<failures, expired, aged, silver, faults>> /\ NormalOnly

(* WorkCutoff: by the time it is read, a record may be too old.             *)
TooOld ==
    /\ HasInput /\ ~Skipped(Input) /\ Passed
    /\ aged' = aged \cup {Next1}
    /\ UNCHANGED <<failures, expired, silver, faults>> /\ NormalOnly

(* Mutant of IsMissing: NoSuchKey like any other error of the store, which  *)
(* stops the flow.                                                         *)
NeverMissing(e) == FALSE

(* fetch_raw_bytes: RawObjectMissing; the ledger, then the index of keys.   *)
IsMissing(e) == Key(e) \notin objects
Missing ==
    /\ HasInput /\ ~Skipped(Input) /\ IsMissing(Input) /\ Passed
    /\ failures' = failures \cup {Next1}
    /\ expired' = expired \cup {Key(Input)}
    /\ UNCHANGED <<aged, silver, faults>> /\ NormalOnly

(* ValueError, DeterministicProcessingError, and PDF processing switched off, *)
(* which comes before the object is read.                                  *)
Recorded(i) == failures \cup {i}
Undoable ==
    /\ HasInput /\ ~Skipped(Input) /\ Passed
    /\ failures' = Recorded(Next1)
    /\ UNCHANGED <<expired, aged, silver, faults>> /\ NormalOnly

Normalise ==
    /\ HasInput /\ ~Skipped(Input) /\ Key(Input) \in objects /\ Passed
    /\ silver' = Append(silver, [paper |-> Input.paper, attempt |-> Input.attempt,
                                 raw |-> Next1])
    /\ UNCHANGED <<failures, expired, aged, faults>> /\ NormalOnly

(* run_bytewax_flow: progress is kept with a snapshot; any other error, that *)
(* of the failure ledger too, stops the flow before it.                     *)
SaveNormal ==
    /\ normal.saved # normal.next /\ normal' = [normal EXCEPT !.saved = normal.next]
    /\ UNCHANGED <<failures, expired, aged, silver, faults>> /\ NormalOnly
NormalDies ==
    /\ Fault /\ normal.saved # normal.next /\ normal' = [normal EXCEPT !.next = normal.saved]
    /\ UNCHANGED <<failures, expired, aged, silver>> /\ NormalOnly

Normal == Skip \/ Missing \/ Normalise \/ SaveNormal

-----------------------------------------------------------------------------

(* The curator's retry of an incomplete extraction, a metadata envelope; the  *)
(* silver record keeps the attempt in its pipeline.  A curator that dies      *)
(* after its output reads the document again.                              *)
MayRetry(s) == s.attempt < MaxRetries
Curate ==
    /\ curator < Len(silver)
    /\ \E complete \in BOOLEAN :
          LET s == silver[curator + 1] IN
          topic' = IF complete \/ ~MayRetry(s) THEN topic
                   ELSE Append(topic, Envelope("retry", s.paper, s.attempt + 1, "none", 0))
    /\ \/ curator' = curator + 1 /\ UNCHANGED faults
       \/ UNCHANGED curator /\ Fault
    /\ UNCHANGED <<licence, discovered, fetcher, admissions, objects, normal, failures,
                   expired, aged, silver>>

Next ==
    \/ \E p \in Papers : Discover(p)
    \/ LoseObject
    \/ Fetch \/ FetchError \/ FetcherDies
    \/ Normal \/ Undoable \/ TooOld \/ NormalDies
    \/ Curate

(* The consumers keep reading while their processes run; a process that dies *)
(* is started again.  Nothing makes a record too old or its body undoable.   *)
Spec ==
    /\ Init /\ [][Next]_vars
    /\ WF_vars(Fetch) /\ WF_vars(Normal) /\ WF_vars(Curate /\ curator' # curator)

-----------------------------------------------------------------------------
TypeOK ==
    /\ licence \in [Papers -> Rights] /\ faults \in 0..FaultLimit
    /\ fetcher.done \in 0..Len(discovered)
    /\ fetcher.job.pc \in {"idle", "fetch", "emit", "commit"}
    /\ normal.saved \in 0..normal.next /\ normal.next \in 0..Len(topic)
    /\ curator \in 0..Len(silver)
    /\ failures \cup aged \subseteq 1..Len(topic)

(* What a committed discovery came to: a decision about it that refuses the   *)
(* paper, or a record of a body or of the lack of one.                      *)
Fetched(i) ==
    \/ \E a \in admissions : a.from = i /\ ~FetchAllowed(a.rights)
    \/ \E j \in DOMAIN topic : topic[j].from = i /\ topic[j].paper = discovered[i].paper

(* What a body that the normaliser's snapshot has passed came to.            *)
Processed(i) ==
    \/ i \in failures \cup aged \/ Key(topic[i]) \in expired
    \/ \E k \in DOMAIN silver : silver[k].raw = i

(* No record vanishes between two stages: whatever dies in between, a        *)
(* discovery that was acknowledged has been refused or fetched for, and a     *)
(* body that a snapshot has passed has a document, an entry in the ledger of  *)
(* failures, or was dropped for its age.                                    *)
NothingVanishes ==
    /\ \A i \in 1..fetcher.done : discovered[i].feed = "arxiv" => Fetched(i)
    /\ \A i \in 1..normal.saved : topic[i].kind \in Bodies => Processed(i)

(* Both readers come to the end of their topics: a body that is gone does     *)
(* not hold up what is behind it.                                          *)
PartitionMoves == <>[](fetcher.done = Len(discovered) /\ normal.saved = Len(topic))

(* A retry that is not answered: by a body, or the lack of one, that names    *)
(* its attempt, or by a refusal of the paper.                               *)
Unanswered(i) ==
    /\ topic[i].kind = "retry"
    /\ \A j \in DOMAIN topic :
          ~(/\ topic[j].kind \in Obtainable
            /\ topic[j].paper = topic[i].paper /\ topic[j].attempt = topic[i].attempt)
    /\ \A a \in admissions : a.paper = topic[i].paper => FetchAllowed(a.rights)

(* "The arXiv fulltext worker consumes it and deliberately refetches the PDF" *)
(* (processor/curate.py): every retry is answered.  False: the envelope goes  *)
(* to a topic that the worker does not read.                                *)
RetriesConsumed == <>[](\A i \in DOMAIN topic : ~Unanswered(i))

(* "explicit incompatible rights never reach extraction or curation"         *)
(* (schemas/license_admission.py): after a paper was refused for the rights  *)
(* that it states, no body of it is handed to the normaliser.               *)
RefusedStaysOut ==
    [][\A a \in admissions : a.rights = "closed" =>
          \A i \in DOMAIN topic' \ DOMAIN topic :
              topic'[i].kind \in Bodies => topic'[i].paper # a.paper]_topic
=============================================================================
