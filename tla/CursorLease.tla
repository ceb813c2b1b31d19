------------------------------ MODULE CursorLease ------------------------------
(***************************************************************************)
(* KubernetesCursorLease and cursor_lease (ingest/common/state.py): one     *)
(* poller of a feed at a time.  A lease object names its holder and the time *)
(* it was renewed; it is free when it has no holder or was not renewed for   *)
(* Duration.  Every write is accepted by the API server only for the version *)
(* of the object that was read before it.  A lease is taken under a name of  *)
(* its own, so that a process that died does not find its former lease.     *)
(***************************************************************************)
EXTENDS Integers

CONSTANTS
    Pollers,
    Duration,                   \* S2P_CURSOR_LEASE_DURATION_SECONDS
    ClockLimit, VersionLimit    \* bounds

Nobody == "nobody"
Former == "former"      \* an owner that died without giving the lease back

LeaseAssumption ==
    /\ Nobody \notin Pollers /\ Former \notin Pollers
    /\ Duration \in Nat /\ ClockLimit \in Nat /\ VersionLimit \in Nat

VARIABLES clock, lease, poller

vars == <<clock, lease, poller>>

NoLease == [holder |-> Nobody, renewed |-> 0, version |-> 0]
Off == [pc |-> "off", view |-> NoLease, at |-> 0, held |-> 0]

Init == clock = 0 /\ lease = NoLease /\ poller = [p \in Pollers |-> Off]

-----------------------------------------------------------------------------
At(p, pc) == poller[p].pc = pc
Become(p, pc) == poller' = [poller EXCEPT ![p].pc = pc]

Tick ==
    /\ clock < ClockLimit
    /\ clock' = clock + 1
    /\ UNCHANGED <<lease, poller>>

(* The read of the object; now is the clock of that moment.                *)
Reading(p, pc) ==
    poller' = [poller EXCEPT ![p].pc = pc, ![p].view = lease, ![p].at = clock]

(* _lease_available, of what was read *)
Available(p) ==
    LET seen == poller[p].view IN
    seen.holder \in {Nobody, p} \/ seen.renewed + Duration <= poller[p].at

(* Mutant of IsCurrent: an object is replaced whatever its version is.      *)
IsThere(p) == lease.version >= poller[p].view.version

(* The API server: 409 for a version that has been replaced, and for the     *)
(* creation of an object that is there.                                    *)
IsCurrent(p) == lease.version = poller[p].view.version

Replace(holder, time) ==
    /\ lease.version < VersionLimit
    /\ lease' = [holder |-> holder, renewed |-> time, version |-> lease.version + 1]

(* This process is the holder as of the time its request names.            *)
Own(p) ==
    /\ Replace(p, poller[p].at)
    /\ poller' = [poller EXCEPT ![p].pc = "owner", ![p].held = poller[p].at]

(* try_acquire *)
BeginTake(p) == At(p, "off") /\ Reading(p, "taking") /\ UNCHANGED <<clock, lease>>
Take(p) == At(p, "taking") /\ Available(p) /\ IsCurrent(p) /\ Own(p) /\ UNCHANGED clock
NotTaken(p) ==
    /\ At(p, "taking") /\ ~(Available(p) /\ IsCurrent(p))
    /\ Become(p, "off")
    /\ UNCHANGED <<clock, lease>>

(* renew, from a task of its own *)
BeginRenew(p) == At(p, "owner") /\ Reading(p, "renewing") /\ UNCHANGED <<clock, lease>>
Renew(p) ==
    /\ At(p, "renewing") /\ poller[p].view.holder = p /\ IsCurrent(p)
    /\ Own(p)
    /\ UNCHANGED clock

(* Lost, or the API server fails: the poll is cancelled, and comes to its    *)
(* end at the next point where it waits.                                   *)
RenewalLost(p) ==
    /\ At(p, "renewing")
    /\ Become(p, "cancelled")
    /\ UNCHANGED <<clock, lease>>

(* The poll ends: release, of a lease that still names this process.        *)
Leave(p) ==
    /\ poller[p].pc \in {"owner", "renewing", "cancelled"}
    /\ IF lease.holder = p THEN Replace(Nobody, clock) ELSE UNCHANGED lease
    /\ poller' = [poller EXCEPT ![p] = Off]
    /\ UNCHANGED clock

(* The process dies, or the release fails. *)
Die(p) ==
    /\ poller[p].pc # "off"
    /\ lease' = [lease EXCEPT !.holder = IF @ = p THEN Former ELSE @]
    /\ poller' = [poller EXCEPT ![p] = Off]
    /\ UNCHANGED clock

Next ==
    \/ Tick
    \/ \E p \in Pollers :
          \/ BeginTake(p) \/ Take(p) \/ NotTaken(p) \/ BeginRenew(p) \/ Renew(p)
          \/ RenewalLost(p) \/ Leave(p) \/ Die(p)

Spec == Init /\ [][Next]_vars
-----------------------------------------------------------------------------
TypeOK ==
    /\ clock \in 0..ClockLimit /\ lease.version \in 0..VersionLimit
    /\ lease.holder \in Pollers \cup {Nobody, Former} /\ lease.renewed <= clock
    /\ \A p \in Pollers :
          /\ poller[p].pc \in {"off", "taking", "owner", "renewing", "cancelled"}
          /\ poller[p].view.version <= lease.version /\ poller[p].at <= clock

Working(p) == poller[p].pc \in {"owner", "renewing", "cancelled"}

(* state.py:139-140 and the name cursor_lease: two pollers work on one feed  *)
(* only when one of them has not renewed its lease for Duration, whatever    *)
(* the order of their requests.  All read one clock.                        *)
OneOwner ==
    \A p, q \in Pollers :
        p # q /\ Working(p) /\ Working(q)
        => \E r \in {p, q} : poller[r].held + Duration <= clock
=============================================================================
