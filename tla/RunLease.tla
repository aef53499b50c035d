------------------------------- MODULE RunLease --------------------------------
(***************************************************************************)
(* The lease on one run, record by record, beside the clock: Acquire,      *)
(* Renew and Release of LocalLeaseManager, each under its mutex, and the   *)
(* goroutine that renews the lease of a loop.  Every lookup is by resource,*)
(* so the leases of two runs do not meet.                                  *)
(***************************************************************************)
EXTENDS Integers, Sequences

CONSTANTS
  Calls,       \* goroutines that drive the run
  Activities,  \* core-loop, and one for each source of a resume
  None,
  TTL,         \* runLeaseTTL, in ticks of the clock
  Second,      \* ticks in a second, the precision of the records
  Slack,       \* how late a renewal may be without a stall
  MaxClock,    \* bound on the clock
  MaxLeases,   \* bound on the records
  MaxMishaps   \* bound on cancelled contexts, refused calls, stalls and crashes

(* A renewal is due every half TTL; with the precision of the records this *)
(* keeps the lease only if TTL is long enough.                             *)
Period == TTL \div 2

ASSUME RunLeaseAssumption ==
  /\ {TTL, Slack, MaxClock, MaxLeases, MaxMishaps} \subseteq Nat
  /\ Second \in Nat \ {0}
  /\ Slack < Period
  /\ Period + Slack + Second <= TTL
  /\ None \notin Activities

VARIABLES
  clock,
  leases,   \* the records, oldest first
  call,     \* call[c]: where c is, and with what lease
  orphans,  \* history: leases whose Release never came or was refused
  faults,   \* history: the faults that void the promise of the lease
  mishaps   \* history: how many things went wrong

vars == <<clock, leases, call, orphans, faults, mishaps>>

(* RFC3339 keeps whole seconds. *)
Truncated(t) == t - (t % Second)

Lease == [holder : Activities, acquiredAt : Nat, expiresAt : Nat, released : BOOLEAN]
NoCall == [pc |-> "idle", activity |-> None, lease |-> 0, due |-> 0, ctx |-> FALSE]
Indices == 1..Len(leases)

(* GetActiveLeaseByResource, newest first. *)
Active(l) == ~leases[l].released /\ leases[l].expiresAt > clock
ActiveLeases == {l \in Indices : Active(l)}
Newest == {l \in ActiveLeases :
             \A k \in ActiveLeases : leases[k].acquiredAt <= leases[l].acquiredAt}

Driving(c) == call[c].pc = "driving" /\ call[c].ctx
(* The goroutine of startLeaseRenewal lives until its cancel function runs. *)
Renewing(c) == call[c].pc \in {"driving", "released"} /\ call[c].ctx
GivenBack(c) == leases[call[c].lease].released

Init ==
  /\ clock = 0
  /\ leases = <<>>
  /\ call = [c \in Calls |-> NoCall]
  /\ orphans = {}
  /\ faults = {}
  /\ mishaps = 0

(* Something outside the program goes wrong. *)
Mishap ==
  /\ mishaps < MaxMishaps
  /\ mishaps' = mishaps + 1

(***************************************************************************)
(* Acquire                                                                 *)
(***************************************************************************)

(* startLeaseRenewal starts its ticker as soon as the lease is there. *)
Drive(c, a, l) ==
  call' = [call EXCEPT ![c] = [pc |-> "driving", activity |-> a, lease |-> l,
                               due |-> clock + Period, ctx |-> TRUE]]

PutNewLease(c, a) ==
  /\ call[c].pc = "idle"
  /\ Len(leases) < MaxLeases
  /\ leases' = Append(leases, [holder |-> a, acquiredAt |-> Truncated(clock),
                               expiresAt |-> Truncated(clock + TTL), released |-> FALSE])
  /\ Drive(c, a, Len(leases) + 1)
  /\ UNCHANGED <<clock, orphans>>

(* Variant: only an activity's own lease is looked for. *)
AcquireIgnoringOthers(c, a) ==
  /\ \A l \in ActiveLeases : leases[l].holder # a
  /\ PutNewLease(c, a)
  /\ UNCHANGED <<faults, mishaps>>

(* No lease is active.  One that is, of another activity, refuses the call, *)
(* which changes nothing here.                                              *)
Acquire(c, a) ==
  /\ ActiveLeases = {}
  /\ PutNewLease(c, a)
  /\ UNCHANGED <<faults, mishaps>>

(* renewLease reads the record and puts it back with a later expiry, the    *)
(* record of a released lease too.                                          *)
RenewLease(l) ==
  leases' = [leases EXCEPT ![l].expiresAt = Truncated(clock + TTL)]

(* The active lease is of the same activity: it is shared and renewed. *)
AcquireShared(c, a) ==
  \E l \in Newest :
    /\ call[c].pc = "idle"
    /\ leases[l].holder = a
    /\ RenewLease(l)
    /\ Drive(c, a, l)
    /\ orphans' = orphans \ {l}
    /\ UNCHANGED <<clock, faults, mishaps>>

(* The lookup fails and the put does not: Acquire takes the error for the   *)
(* absence of a lease.                                                      *)
AcquireUnread(c, a) ==
  /\ Mishap
  /\ PutNewLease(c, a)
  /\ faults' = faults \cup {"unread"}

(***************************************************************************)
(* Renew and Release                                                       *)
(***************************************************************************)

(* A ticker drops the ticks its reader missed. *)
NextDue(due) ==
  IF clock < due + Period THEN due + Period
  ELSE due + Period * (((clock - due) \div Period) + 1)

RenewTick(c) == call' = [call EXCEPT ![c].due = NextDue(@)]

(* Variant: the record is written anew, without the time of its release. *)
RenewReviving(c) ==
  /\ Renewing(c)
  /\ clock >= call[c].due
  /\ leases' = [leases EXCEPT ![call[c].lease].expiresAt = Truncated(clock + TTL),
                              ![call[c].lease].released = FALSE]
  /\ RenewTick(c)
  /\ UNCHANGED <<clock, orphans, faults, mishaps>>

(* Variant: one renewal in a whole time to live. *)
RenewTooRarely(c) ==
  /\ Renewing(c)
  /\ clock >= call[c].due
  /\ RenewLease(call[c].lease)
  /\ call' = [call EXCEPT ![c].due = clock + TTL]
  /\ UNCHANGED <<clock, orphans, faults, mishaps>>

Renew(c) ==
  /\ Renewing(c)
  /\ clock >= call[c].due
  /\ RenewLease(call[c].lease)
  /\ RenewTick(c)
  /\ UNCHANGED <<clock, orphans, faults, mishaps>>

(* The deferred Release; the renewal is cancelled only after it. *)
Release(c) ==
  /\ Driving(c)
  /\ leases' = [leases EXCEPT ![call[c].lease].released = TRUE,
                              ![call[c].lease].expiresAt = Truncated(clock)]
  /\ call' = [call EXCEPT ![c].pc = "released"]
  /\ UNCHANGED <<clock, orphans, faults, mishaps>>

(* The store refuses it, as it always does to a cancelled context. *)
ReleaseRefused(c) ==
  /\ Mishap
  /\ call[c].pc = "driving"
  /\ call' = [call EXCEPT ![c].pc = "released"]
  /\ orphans' = orphans \cup {call[c].lease}
  /\ UNCHANGED <<clock, leases, faults>>

(* The cancel function of startLeaseRenewal, and the call returns. *)
CancelRenewal(c) ==
  /\ call[c].pc = "released"
  /\ call' = [call EXCEPT ![c] = NoCall]
  /\ UNCHANGED <<clock, leases, orphans, faults, mishaps>>

(***************************************************************************)
(* The clock and the faults                                                *)
(***************************************************************************)

Overdue(c) == Renewing(c) /\ clock >= call[c].due + Slack

Advance ==
  /\ clock < MaxClock
  /\ clock' = clock + 1
  /\ UNCHANGED <<leases, call, orphans>>

(* Renewals run at most Slack late ... *)
Tick ==
  /\ \A c \in Calls : ~Overdue(c)
  /\ Advance
  /\ UNCHANGED <<faults, mishaps>>

(* ... unless the process or the store stalls. *)
Stall ==
  /\ Mishap
  /\ \E c \in Calls : Overdue(c)
  /\ Advance
  /\ faults' = faults \cup {"late"}

CancelContext(c) ==
  /\ Mishap
  /\ Renewing(c)
  /\ call' = [call EXCEPT ![c].ctx = FALSE]
  /\ UNCHANGED <<clock, leases, orphans, faults>>

Crash ==
  /\ Mishap
  /\ \E c \in Calls : call[c].pc # "idle"
  /\ orphans' = orphans \cup {call[c].lease : c \in {d \in Calls : call[d].pc = "driving"}}
  /\ call' = [c \in Calls |-> NoCall]
  /\ UNCHANGED <<clock, leases, faults>>

Next ==
  \/ \E c \in Calls, a \in Activities :
       Acquire(c, a) \/ AcquireShared(c, a) \/ AcquireUnread(c, a)
  \/ \E c \in Calls : Renew(c) \/ Release(c) \/ ReleaseRefused(c)
  \/ \E c \in Calls : CancelRenewal(c) \/ CancelContext(c)
  \/ Tick \/ Stall \/ Crash

Spec == Init /\ [][Next]_vars

(***************************************************************************)
(* Properties                                                              *)
(***************************************************************************)

(* Every record and every call keeps its type. *)
LeaseTypeOK ==
  /\ clock \in Nat
  /\ leases \in Seq(Lease)
  /\ call \in [Calls -> [pc : {"idle", "driving", "released"},
                         activity : Activities \cup {None},
                         lease : Nat, due : Int, ctx : BOOLEAN]]
  /\ \A c \in Calls : call[c].pc # "idle" => call[c].lease \in Indices
  /\ orphans \subseteq Indices
  /\ faults \subseteq {"late", "unread"}
  /\ mishaps \in 0..MaxMishaps

(* The renewals of startLeaseRenewal keep the lease of a loop that is being *)
(* driven from lapsing, the truncation of its expiry to seconds included,   *)
(* unless they are late by more than Slack; only a Release ends it.         *)
LeaseNeverLapses ==
  \A c \in Calls :
    Driving(c) /\ ~GivenBack(c) /\ "late" \notin faults => Active(call[c].lease)

(* Two loops whose leases nobody gave back work for one activity: Acquire   *)
(* never lets a second activity into a run that is being driven, whatever   *)
(* was cancelled, refused or lost in a crash before.                        *)
OneActivityDrives ==
  faults = {} =>
    \A c, d \in Calls :
      Driving(c) /\ Driving(d) /\ ~GivenBack(c) /\ ~GivenBack(d) =>
        call[c].activity = call[d].activity

(* After a loop that released its lease the run is free at once: an active  *)
(* lease has a call that drives the run, or one that was lost.  The renewal *)
(* that outlives Release must not bring the lease back.                     *)
ActiveLeaseHasHolder ==
  \A l \in ActiveLeases :
    l \in orphans \/ \E c \in Calls : call[c].pc = "driving" /\ call[c].lease = l

(* The run of a call that crashed or was cancelled becomes free when its    *)
(* time to live has passed: nobody extends the life of a lease that no call *)
(* with a live context renews.                                              *)
AbandonedNotExtended ==
  [][\A l \in Indices :
       (\A c \in Calls : ~(Renewing(c) /\ call[c].lease = l)
                         /\ ~(Renewing(c) /\ call[c].lease = l)')
         => leases'[l].expiresAt <= leases[l].expiresAt]_vars

(* The leases implement the lock that SessionLifecycle takes them for, as   *)
(* long as no fault voids it.                                               *)
Keepers == {c \in Calls : Driving(c) /\ ~GivenBack(c)}
Holder ==
  IF ActiveLeases = {} THEN None
  ELSE leases[CHOOSE l \in ActiveLeases : TRUE].holder

Lock == INSTANCE RunLock WITH
  holder  <- IF faults = {} THEN Holder ELSE None,
  keepers <- IF faults = {} THEN Keepers ELSE {}

ImplementsLock == Lock!Spec
================================================================================
