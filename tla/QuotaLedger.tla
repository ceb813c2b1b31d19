---------------------------- MODULE QuotaLedger ----------------------------
(***************************************************************************)
(* The ledger of provider quota that every foundry replica shares          *)
(* (processor/foundry/quota.py) and the controlled call around it          *)
(* (ProviderControlPlane.call in control.py, the transport loop of         *)
(* providers.py).  A call reserves the most it may use in the minute and   *)
(* the day it starts in, keeps the reservation's lease alive while it      *)
(* runs, and settles it with what it used; replicas charge the             *)
(* reservations whose lease has run out.                                   *)
(*                                                                         *)
(* One provider.  Every transaction is one step; input and output tokens   *)
(* are kept the same way and are one resource here.                        *)
(***************************************************************************)
EXTENDS Integers, FiniteSets, Sequences, FiniteSetsExt

CONSTANTS
    Workers,
    None,
    Attempts,       \* max_retries + 1: transport attempts of a call
    Estimates,      \* tokens that calls reserve
    Usages,         \* tokens that providers report, 0 when they report none
    Limit,          \* of each window kind and resource; None is unlimited
    MinuteTicks, DayTicks,
    LeaseTicks,     \* reservation_lease_seconds
    Horizon,        \* bound: the last tick
    CallLimit,      \* bound: reservations made
    FaultLimit      \* bound: crashes and failed transactions

Kind == {"minute", "day"}
Resource == {"requests", "tokens"}
Amount == [Resource -> Nat]

QuotaAssumption ==
    /\ Attempts \in Nat \ {0} /\ Estimates \subseteq Nat /\ Usages \subseteq Nat
    /\ Limit \in [Kind -> [Resource -> Nat \cup {None}]]
    /\ MinuteTicks \in Nat \ {0} /\ DayTicks \in Nat \ {0} /\ DayTicks % MinuteTicks = 0
    /\ LeaseTicks \in Nat \ {0} /\ Horizon \in Nat
    /\ CallLimit \in Nat /\ FaultLimit \in Nat
    /\ None \notin Int

VARIABLES
    now,            \* the clock
    windows,        \* quota_windows: a row not yet inserted counts nothing
    reservations,   \* quota_reservations, in the order they were made
    calls,          \* the call each worker is in
    sent,           \* external: requests sent under a reservation in a minute
    faults          \* faults so far

vars == <<now, windows, reservations, calls, sent, faults>>

Instant == 0..Horizon
Minute == {t \in Instant : t % MinuteTicks = 0}
Day == {t \in Instant : t % DayTicks = 0}
Window == ({"minute"} \X Minute) \cup ({"day"} \X Day)

Reservation == [state: {"reserved", "reconciled", "reconciled_after_restart"},
                amount: Amount, minute: Minute, day: Day, lease: Nat]

(* pc: the point of ProviderControlPlane.call; current: the clock read for  *)
(* the reservation; lost: the event that the renewal thread sets.          *)
Idle == [pc |-> "idle", current |-> 0, id |-> 0, attempts |-> 0, tokens |-> 0, lost |-> FALSE]

Nothing == [x \in Resource |-> 0]

Init ==
    /\ now = 0
    /\ windows = [w \in Window |-> [used |-> Nothing, reserved |-> Nothing]]
    /\ reservations = <<>>
    /\ calls = [w \in Workers |-> Idle]
    /\ sent = [r \in 1..CallLimit |-> [m \in Minute |-> 0]]
    /\ faults = 0

-----------------------------------------------------------------------------
MinuteOf(t) == t - (t % MinuteTicks)
DayOf(t) == t - (t % DayTicks)
WindowsOf(r) == {<<"minute", r.minute>>, <<"day", r.day>>}

Plus(a, b) == [x \in Resource |-> a[x] + b[x]]
MinusAtLeastZero(a, b) == [x \in Resource |-> IF a[x] < b[x] THEN 0 ELSE a[x] - b[x]]

(* What some reservations come to. *)
SumOf(amount, rows) ==
    [x \in Resource |-> SumFunctionOnSet([i \in rows |-> amount[i][x]], rows)]

Amounts == [i \in DOMAIN reservations |-> reservations[i].amount]

(* The UPDATE quota_windows of reconcile, and of the abandoned sweep row by  *)
(* row: to take what is there at most from each row is to take it from all. *)
Charged(rows, actual) ==
    [w \in Window |->
        LET mine == {i \in rows : w \in WindowsOf(reservations[i])}
        IN  [used |-> Plus(windows[w].used, SumOf(actual, mine)),
             reserved |-> MinusAtLeastZero(windows[w].reserved, SumOf(Amounts, mine))]]

Lapsed == {i \in DOMAIN reservations :
              reservations[i].state = "reserved" /\ reservations[i].lease <= now}

(* reconcile_abandoned_reservations: charges what was reserved.  A row that *)
(* another transaction has locked is skipped.                              *)
ReconcileAbandoned ==
    \E charged \in SUBSET Lapsed :
        /\ windows' = Charged(charged, Amounts)
        /\ reservations' = [i \in DOMAIN reservations |->
              IF i \in charged THEN [reservations[i] EXCEPT !.state = "reconciled_after_restart"]
              ELSE reservations[i]]

(* reserve begins with the sweep, in a transaction of its own, then reads  *)
(* the clock that decides on the windows and on the lease.                 *)
BeginCall(w) ==
    /\ calls[w].pc = "idle" /\ Len(reservations) < CallLimit
    /\ ReconcileAbandoned
    /\ calls' = [calls EXCEPT ![w] = [Idle EXCEPT !.pc = "reserving", !.current = now]]
    /\ UNCHANGED <<now, sent, faults>>

Requested(w, estimate) ==
    [state |-> "reserved", amount |-> [x \in Resource |-> IF x = "requests" THEN Attempts ELSE estimate],
     minute |-> MinuteOf(calls[w].current), day |-> DayOf(calls[w].current),
     lease |-> calls[w].current + LeaseTicks]

(* Mutant of HasCapacity: what other calls have reserved is not counted. *)
HasUnusedCapacity(r) ==
    \A win \in WindowsOf(r), x \in Resource :
        LET limit == Limit[win[1]][x] IN
            limit # None => windows[win].used[x] + r.amount[x] <= limit

(* _assert_capacity of both windows. *)
HasCapacity(r) ==
    \A win \in WindowsOf(r), x \in Resource :
        LET limit == Limit[win[1]][x]
        IN  limit # None => windows[win].used[x] + windows[win].reserved[x] + r.amount[x] <= limit

(* The counters of both windows and the row of the reservation. *)
Insert(r) ==
    /\ reservations' = Append(reservations, r)
    /\ windows' = [win \in Window |->
          IF win \in WindowsOf(r) THEN [windows[win] EXCEPT !.reserved = Plus(@, r.amount)]
          ELSE windows[win]]

(* reserve: the capacity of both windows is checked under their locks. *)
Reserve(w) ==
    /\ calls[w].pc = "reserving" /\ Len(reservations) < CallLimit
    /\ \E estimate \in Estimates :
          IF HasCapacity(Requested(w, estimate))
          THEN /\ Insert(Requested(w, estimate))
               /\ calls' = [calls EXCEPT ![w].pc = "reserved", ![w].id = Len(reservations) + 1]
          ELSE calls' = [calls EXCEPT ![w] = Idle] /\ UNCHANGED <<reservations, windows>>
    /\ UNCHANGED <<now, sent, faults>>

-----------------------------------------------------------------------------
Mine(w) == reservations[calls[w].id]
Goto(w, pc) == calls' = [calls EXCEPT ![w].pc = pc]

(* renew: only a reservation that is not settled and whose lease runs. *)
Renewable(w) == Mine(w).state = "reserved" /\ Mine(w).lease > now
Renewed(w) == [reservations EXCEPT ![calls[w].id].lease = now + LeaseTicks]

(* keepalive renews before the call starts, or raises QuotaLeaseLostError. *)
KeepAlive(w) ==
    /\ calls[w].pc = "reserved"
    /\ IF Renewable(w) THEN reservations' = Renewed(w) /\ Goto(w, "calling")
       ELSE UNCHANGED reservations /\ Goto(w, "failed")
    /\ UNCHANGED <<now, windows, sent, faults>>

(* The renewal thread: the first refusal sets lost and ends it; the call   *)
(* itself goes on.                                                         *)
Heartbeat(w) ==
    /\ calls[w].pc = "calling" /\ ~calls[w].lost
    /\ IF Renewable(w) THEN reservations' = Renewed(w) /\ UNCHANGED calls
       ELSE calls' = [calls EXCEPT ![w].lost = TRUE] /\ UNCHANGED reservations
    /\ UNCHANGED <<now, windows, sent, faults>>

(* An attempt of the transport loop. *)
Send(w) ==
    /\ calls[w].pc = "calling" /\ calls[w].attempts < Attempts
    /\ sent' = [sent EXCEPT ![calls[w].id][MinuteOf(now)] = @ + 1]
    /\ calls' = [calls EXCEPT ![w].attempts = @ + 1]
    /\ UNCHANGED <<now, windows, reservations, faults>>

(* The provider answers and keepalive renews once more: the trace exists    *)
(* only if the lease was held to the end.                                  *)
Answer(w) ==
    /\ calls[w].pc = "calling" /\ calls[w].attempts > 0
    /\ \E usage \in Usages :
          IF ~calls[w].lost /\ Renewable(w)
          THEN /\ reservations' = Renewed(w)
               /\ calls' = [calls EXCEPT ![w].pc = "succeeded", ![w].tokens = usage]
          ELSE UNCHANGED reservations /\ Goto(w, "failed")
    /\ UNCHANGED <<now, windows, sent, faults>>

(* The provider refused, drifted or timed out, after any attempt. *)
Fail(w) ==
    /\ calls[w].pc = "calling"
    /\ Goto(w, "failed")
    /\ UNCHANGED <<now, windows, reservations, sent, faults>>

(* What reconcile charges: the trace, or all that was reserved. *)
Actual(w) ==
    [x \in Resource |->
        IF calls[w].pc = "succeeded" /\ x = "requests" THEN calls[w].attempts
        ELSE IF calls[w].pc = "succeeded" /\ calls[w].tokens > 0 THEN calls[w].tokens
        ELSE Mine(w).amount[x]]

(* Mutant of Settle: whether the reservation is still open is not asked. *)
SettleAgain(w) ==
    /\ windows' = Charged({calls[w].id}, [i \in {calls[w].id} |-> Actual(w)])
    /\ reservations' = [reservations EXCEPT ![calls[w].id].state = "reconciled"]

(* reconcile: nothing happens to a reservation that the sweep has charged. *)
Settle(w) ==
    IF Mine(w).state = "reserved"
    THEN /\ windows' = Charged({calls[w].id}, [i \in {calls[w].id} |-> Actual(w)])
         /\ reservations' = [reservations EXCEPT ![calls[w].id].state = "reconciled"]
    ELSE UNCHANGED <<windows, reservations>>

(* The finally of call: reconcile, a lapsed lease or not. *)
Reconcile(w) ==
    /\ calls[w].pc \in {"succeeded", "failed"}
    /\ Settle(w)
    /\ calls' = [calls EXCEPT ![w] = Idle]
    /\ UNCHANGED <<now, sent, faults>>

-----------------------------------------------------------------------------
(* A transaction fails: nothing is reserved or settled, a renewal at either *)
(* end of the call makes it fail.                                          *)
StoreUnavailable(w) ==
    /\ calls[w].pc \notin {"idle", "down"} /\ faults < FaultLimit
    /\ faults' = faults + 1
    /\ IF calls[w].pc \in {"reserved", "calling"} THEN Goto(w, "failed")
       ELSE calls' = [calls EXCEPT ![w] = Idle]
    /\ UNCHANGED <<now, windows, reservations, sent>>

(* The reservation was committed and the reply was lost. *)
ReplyLost(w) ==
    /\ calls[w].pc = "reserving" /\ Len(reservations) < CallLimit /\ faults < FaultLimit
    /\ faults' = faults + 1
    /\ \E estimate \in Estimates :
          HasCapacity(Requested(w, estimate)) /\ Insert(Requested(w, estimate))
    /\ calls' = [calls EXCEPT ![w] = Idle]
    /\ UNCHANGED <<now, sent>>

Crash(w) ==
    /\ calls[w].pc # "down" /\ faults < FaultLimit
    /\ faults' = faults + 1
    /\ calls' = [calls EXCEPT ![w] = [Idle EXCEPT !.pc = "down"]]
    /\ UNCHANGED <<now, windows, reservations, sent>>

(* A worker that starts sweeps first. *)
Restart(w) ==
    /\ calls[w].pc = "down"
    /\ ReconcileAbandoned
    /\ calls' = [calls EXCEPT ![w] = Idle]
    /\ UNCHANGED <<now, sent, faults>>

Tick ==
    /\ now < Horizon
    /\ now' = now + 1
    /\ UNCHANGED <<windows, reservations, calls, sent, faults>>

Next ==
    \/ \E w \in Workers :
          \/ BeginCall(w) \/ Reserve(w) \/ KeepAlive(w) \/ Heartbeat(w) \/ Send(w)
          \/ Answer(w) \/ Fail(w) \/ Reconcile(w)
          \/ StoreUnavailable(w) \/ ReplyLost(w) \/ Crash(w) \/ Restart(w)
    \/ Tick

Spec == Init /\ [][Next]_vars
-----------------------------------------------------------------------------
(* Type correctness; a call that holds a reservation id holds one that exists. *)
TypeOK ==
    /\ now \in Instant /\ faults \in 0..FaultLimit
    /\ windows \in [Window -> [used: Amount, reserved: Amount]]
    /\ \A i \in DOMAIN reservations : reservations[i] \in Reservation
    /\ sent \in [1..CallLimit -> [Minute -> Nat]]
    /\ \A w \in Workers :
          /\ calls[w].attempts \in 0..Attempts
          /\ calls[w].pc \in {"reserved", "calling", "succeeded", "failed"} =>
                 calls[w].id \in DOMAIN reservations

(* The open reservations of a window. *)
Open(win) == {i \in DOMAIN reservations :
                 reservations[i].state = "reserved" /\ win \in WindowsOf(reservations[i])}

(* What a window counts as reserved is the sum of its open reservations:    *)
(* a late reconcile, a sweep of another replica, a crash or a lost reply    *)
(* never settles one twice, and MAX(0, ...) never hides a difference.      *)
LedgerBalances ==
    \A win \in Window : windows[win].reserved = SumOf(Amounts, Open(win))

(* The replicas together never use and reserve more requests of a window    *)
(* than its limit, whatever they read before their transaction.            *)
RequestsWithinLimit ==
    \A win \in Window :
        LET limit == Limit[win[1]]["requests"] IN
            limit # None => windows[win].used["requests"] + windows[win].reserved["requests"] <= limit

(* What a reservation covers was counted: the requests sent under the       *)
(* reservations of a window, also of calls that failed, died or lost their *)
(* lease while they ran, are at most what the window shows.                *)
SentUnder(i) == SumFunction(sent[i])
Of(win) == {i \in DOMAIN reservations : win \in WindowsOf(reservations[i])}
NeverUndercharged ==
    \A win \in Window :
        SumFunctionOnSet([i \in Of(win) |-> SentUnder(i)], Of(win))
            <= windows[win].used["requests"] + windows[win].reserved["requests"]
=============================================================================
