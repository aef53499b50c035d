----------------------------- MODULE RunLeaseProofs ----------------------------
(***************************************************************************)
(* RunLease, proved for any number of calls, activities, records and       *)
(* mishaps, and for every time to live that RunLeaseAssumption admits.     *)
(***************************************************************************)
EXTENDS RunLease, TLAPS

(* What a call in progress knows of its lease. *)
CallOwns ==
  \A c \in Calls :
    call[c].pc # "idle" =>
      /\ call[c].activity \in Activities
      /\ leases[call[c].lease].holder = call[c].activity

(* A renewal is never later than Slack, and its lease lasts until then. *)
InTime(c) ==
  /\ call[c].due <= clock + Period
  /\ clock <= call[c].due + Slack
  /\ ~GivenBack(c) => leases[call[c].lease].expiresAt > call[c].due + Slack

RenewedInTime == "late" \notin faults => \A c \in Calls : Renewing(c) => InTime(c)

(* Without a fault one lease is active. *)
OneActive == faults = {} => \A l, k \in ActiveLeases : l = k

(* A lease that was not given back has a call, or its call was lost. *)
Held ==
  \A l \in Indices :
    ~leases[l].released =>
      l \in orphans \/ \E c \in Calls : call[c].pc = "driving" /\ call[c].lease = l

(* The inductive invariant. *)
LInv == LeaseTypeOK /\ CallOwns /\ RenewedInTime /\ OneActive /\ Held

--------------------------------------------------------------------------------
(* The constants, and the precision of the records *)

LEMMA ConstantFacts ==
  /\ TTL \in Nat /\ Slack \in Nat /\ Second \in Nat /\ Second > 0
  /\ Period \in Nat /\ Slack < Period /\ Period + Slack + Second <= TTL
<1>1. TTL \in Nat /\ Slack \in Nat /\ Second \in Nat \ {0} /\ Slack < Period
      /\ Period + Slack + Second <= TTL
  BY RunLeaseAssumption
<1>2. Period \in Int
  BY <1>1 DEF Period
<1> QED
  BY <1>1, <1>2

(* A time in a record is the time it stands for, or less than a second before it. *)
LEMMA TruncatedBounds ==
  ASSUME NEW t \in Nat
  PROVE  Truncated(t) \in Nat /\ t - Second < Truncated(t) /\ Truncated(t) <= t
<1>1. Second \in Nat /\ Second > 0
  BY ConstantFacts
<1>2. t % Second \in 0 .. Second - 1
  BY <1>1
<1>3. t % Second <= t
  BY <1>1
<1> QED
  BY <1>1, <1>2, <1>3 DEF Truncated

(* The expiry of a record written now is past the next renewal. *)
LEMMA NewExpiry ==
  ASSUME clock \in Nat
  PROVE  /\ Truncated(clock + TTL) \in Nat
         /\ Truncated(clock + TTL) > clock + Period + Slack
<1>1. clock + TTL \in Nat
  BY ConstantFacts
<1> QED
  BY <1>1, TruncatedBounds, ConstantFacts

LEMMA NextDueIsInt ==
  ASSUME clock \in Nat, NEW due \in Int
  PROVE  NextDue(due) \in Int
<1>1. Period \in Nat /\ Period > 0
  BY ConstantFacts
<1>2. (clock - due) \div Period \in Int
  BY <1>1
<1> QED
  BY <1>1, <1>2 DEF NextDue

(* What the invariant says of a lease in use: it is active. *)
LEMMA KeptIsActive ==
  ASSUME LeaseTypeOK, RenewedInTime, NEW c \in Calls,
         Renewing(c), ~GivenBack(c), "late" \notin faults
  PROVE  call[c].lease \in ActiveLeases
<1>1. call[c].lease \in Indices /\ call[c].pc # "idle"
  BY DEF LeaseTypeOK, Renewing
<1>2. InTime(c)
  BY DEF RenewedInTime
<1>3. leases[call[c].lease] \in Lease
  BY <1>1 DEF LeaseTypeOK, Indices
<1>4. clock \in Nat /\ call[c].due \in Int /\ Slack \in Nat
  BY ConstantFacts DEF LeaseTypeOK
<1> QED
  BY <1>1, <1>2, <1>3, <1>4 DEF InTime, ActiveLeases, Active, GivenBack, Lease

--------------------------------------------------------------------------------
(* The initial state *)

LEMMA InitLInv == Init => LInv
<1> SUFFICES ASSUME Init PROVE LInv
  OBVIOUS
<1>1. Indices = {}
  BY DEF Init, Indices
<1>2. LeaseTypeOK
  BY <1>1, RunLeaseAssumption DEF Init, LeaseTypeOK, NoCall
<1>3. CallOwns /\ RenewedInTime
  BY DEF Init, CallOwns, RenewedInTime, Renewing, NoCall
<1>4. OneActive /\ Held
  BY <1>1 DEF OneActive, Held, ActiveLeases
<1> QED
  BY <1>2, <1>3, <1>4 DEF LInv

--------------------------------------------------------------------------------
(* The steps *)

(* A put of a new record, whoever looked before it. *)
LEMMA PutKeeps ==
  ASSUME LInv, NEW c \in Calls, NEW a \in Activities, PutNewLease(c, a),
         faults \subseteq faults', faults' \subseteq {"late", "unread"},
         mishaps' \in 0..MaxMishaps,
         faults' = {} => ActiveLeases = {}
  PROVE  LInv'
<1> DEFINE l == Len(leases) + 1
           new == [holder |-> a, acquiredAt |-> Truncated(clock),
                   expiresAt |-> Truncated(clock + TTL), released |-> FALSE]
           taken == [pc |-> "driving", activity |-> a, lease |-> l,
                     due |-> clock + Period, ctx |-> TRUE]
<1>1. /\ clock \in Nat /\ clock' = clock /\ Len(leases) \in Nat
      /\ leases \in Seq(Lease)
      /\ Truncated(clock) \in Nat
      /\ Truncated(clock + TTL) \in Nat /\ Truncated(clock + TTL) > clock + Period + Slack
      /\ Period \in Nat /\ Slack \in Nat
  BY NewExpiry, TruncatedBounds, ConstantFacts DEF LInv, LeaseTypeOK, PutNewLease
<1>2. new \in Lease
  BY <1>1 DEF Lease
<1>3. /\ leases' \in Seq(Lease)
      /\ Len(leases') = l
      /\ leases'[l] = new
      /\ \A k \in Indices : leases'[k] = leases[k]
      /\ Indices' = Indices \cup {l} /\ l \notin Indices
  <2>1. leases' = Append(leases, new)
    BY DEF PutNewLease
  <2> HIDE DEF new
  <2> QED
    BY <1>1, <1>2, <2>1 DEF Indices
<1>4. /\ call[c].pc = "idle"
      /\ call' = [call EXCEPT ![c] = taken]
      /\ call'[c] = taken
      /\ \A d \in Calls \ {c} : call'[d] = call[d]
  BY DEF PutNewLease, Drive, LInv, LeaseTypeOK
<1>5. LeaseTypeOK'
  <2>1. call' \in [Calls -> [pc : {"idle", "driving", "released"},
                             activity : Activities \cup {None},
                             lease : Nat, due : Int, ctx : BOOLEAN]]
    BY <1>1, <1>4 DEF LInv, LeaseTypeOK
  <2>2. \A d \in Calls : call'[d].pc # "idle" => call'[d].lease \in Indices'
    BY <1>3, <1>4 DEF LInv, LeaseTypeOK
  <2>3. orphans' \subseteq Indices'
    BY <1>3 DEF LInv, LeaseTypeOK, PutNewLease
  <2> QED
    BY <1>1, <1>3, <2>1, <2>2, <2>3 DEF LInv, LeaseTypeOK
<1>6. CallOwns'
  BY <1>3, <1>4 DEF LInv, LeaseTypeOK, CallOwns
<1>7. RenewedInTime'
  <2> SUFFICES ASSUME "late" \notin faults', NEW d \in Calls, Renewing(d)'
               PROVE  InTime(d)'
    BY DEF RenewedInTime
  <2>1. CASE d = c
    BY <1>1, <1>3, <1>4, <2>1 DEF InTime
  <2>2. CASE d # c
    <3>1. call'[d] = call[d] /\ Renewing(d) /\ call[d].lease \in Indices
      BY <1>4, <2>2 DEF Renewing, LInv, LeaseTypeOK
    <3>2. InTime(d)
      BY <3>1 DEF LInv, RenewedInTime
    <3> QED
      BY <1>1, <1>3, <3>1, <3>2 DEF InTime, GivenBack
  <2> QED
    BY <2>1, <2>2
<1>8. OneActive'
  <2> SUFFICES ASSUME faults' = {}, NEW k \in ActiveLeases' PROVE k = l
    BY DEF OneActive
  <2>1. k \in Indices => k \in ActiveLeases
    BY <1>1, <1>3 DEF ActiveLeases, Active
  <2> QED
    BY <1>3, <2>1 DEF ActiveLeases
<1>9. Held'
  <2> SUFFICES ASSUME NEW k \in Indices', ~leases'[k].released
               PROVE  k \in orphans' \/ \E d \in Calls : call'[d].pc = "driving" /\ call'[d].lease = k
    BY DEF Held
  <2>1. orphans' = orphans
    BY DEF PutNewLease
  <2>2. CASE k = l
    BY <1>4, <2>2
  <2>3. CASE k \in Indices
    <3>1. k \in orphans \/ \E d \in Calls : call[d].pc = "driving" /\ call[d].lease = k
      BY <1>3, <2>3 DEF LInv, Held
    <3> QED
      BY <1>4, <2>1, <3>1
  <2> QED
    BY <1>3, <2>2, <2>3
<1> QED
  BY <1>5, <1>6, <1>7, <1>8, <1>9 DEF LInv

LEMMA AcquireKeeps ==
  ASSUME LInv, NEW c \in Calls, NEW a \in Activities, Acquire(c, a) \/ AcquireUnread(c, a)
  PROVE  LInv'
<1>1. CASE Acquire(c, a)
  BY <1>1, PutKeeps DEF Acquire, LInv, LeaseTypeOK
<1>2. CASE AcquireUnread(c, a)
  <2>1. faults' # {} /\ faults \subseteq faults' /\ faults' \subseteq {"late", "unread"}
    BY <1>2 DEF AcquireUnread, LInv, LeaseTypeOK
  <2>2. mishaps' \in 0..MaxMishaps
    BY <1>2, RunLeaseAssumption DEF AcquireUnread, Mishap, LInv, LeaseTypeOK
  <2> QED
    BY <1>2, <2>1, <2>2, PutKeeps DEF AcquireUnread
<1> QED
  BY <1>1, <1>2

(* Renewing one record keeps the rest of them, and does not wake a dead lease up. *)
LEMMA RenewLeaseEffect ==
  ASSUME LInv, NEW l \in Indices, RenewLease(l), clock' = clock
  PROVE  /\ leases' \in Seq(Lease) /\ Indices' = Indices
         /\ \A k \in Indices : /\ leases'[k].holder = leases[k].holder
                               /\ leases'[k].released = leases[k].released
                               /\ leases'[k].expiresAt \in Nat
                               /\ k # l => leases'[k] = leases[k]
         /\ leases'[l].expiresAt > clock + Period + Slack
         /\ l \in ActiveLeases => ActiveLeases' = ActiveLeases
         /\ leases[l].released => ActiveLeases' = ActiveLeases
<1> DEFINE e == Truncated(clock + TTL)
<1>1. e \in Nat /\ e > clock + Period + Slack /\ clock \in Nat /\ Period \in Nat /\ Slack \in Nat
  BY NewExpiry, ConstantFacts DEF LInv, LeaseTypeOK
<1>2. leases' = [leases EXCEPT ![l].expiresAt = e]
  BY DEF RenewLease
<1> HIDE DEF e
<1>3. leases \in Seq(Lease)
  BY DEF LInv, LeaseTypeOK
<1>5. \A k \in Indices : leases[k] \in Lease
  BY <1>3 DEF Indices
<1> DEFINE rec == [leases[l] EXCEPT !.expiresAt = e]
<1>3a. /\ rec \in Lease /\ rec.holder = leases[l].holder
       /\ rec.released = leases[l].released /\ rec.expiresAt = e
  BY <1>1, <1>5 DEF Lease
<1>3b. leases' = [leases EXCEPT ![l] = rec]
  BY <1>2
<1> HIDE DEF rec
<1>4. /\ leases' \in Seq(Lease) /\ Indices' = Indices
      /\ \A k \in Indices : k # l => leases'[k] = leases[k]
      /\ leases'[l] = rec
  BY <1>3, <1>3a, <1>3b DEF Indices
<1>6. \A k \in Indices : /\ leases'[k].holder = leases[k].holder
                         /\ leases'[k].released = leases[k].released
                         /\ leases'[k].expiresAt \in Nat
  BY <1>1, <1>3a, <1>4, <1>5 DEF Lease
<1>7. leases'[l].expiresAt = e
  BY <1>3a, <1>4
<1>8. l \in ActiveLeases => ActiveLeases' = ActiveLeases
  BY <1>1, <1>4, <1>6, <1>7 DEF ActiveLeases, Active
<1>9. leases[l].released => ActiveLeases' = ActiveLeases
  BY <1>4, <1>6 DEF ActiveLeases, Active
<1> QED
  BY <1>1, <1>4, <1>6, <1>7, <1>8, <1>9

LEMMA AcquireSharedKeeps ==
  ASSUME LInv, NEW c \in Calls, NEW a \in Activities, AcquireShared(c, a)
  PROVE  LInv'
<1>1. PICK l \in Newest :
        /\ call[c].pc = "idle" /\ leases[l].holder = a
        /\ RenewLease(l) /\ Drive(c, a, l)
        /\ orphans' = orphans \ {l} /\ clock' = clock
        /\ faults' = faults /\ mishaps' = mishaps
  BY DEF AcquireShared
<1>2. l \in Indices /\ l \in ActiveLeases
  BY DEF Newest, ActiveLeases
<1> DEFINE taken == [pc |-> "driving", activity |-> a, lease |-> l,
                     due |-> clock + Period, ctx |-> TRUE]
<1>3. /\ call' = [call EXCEPT ![c] = taken]
      /\ call'[c] = taken
      /\ \A d \in Calls \ {c} : call'[d] = call[d]
  BY <1>1 DEF Drive, LInv, LeaseTypeOK
<1>4. /\ leases' \in Seq(Lease) /\ Indices' = Indices
      /\ \A k \in Indices : /\ leases'[k].holder = leases[k].holder
                            /\ leases'[k].released = leases[k].released
                            /\ k # l => leases'[k] = leases[k]
      /\ leases'[l].expiresAt > clock + Period + Slack
      /\ leases'[l].expiresAt \in Nat
      /\ ActiveLeases' = ActiveLeases
  BY <1>1, <1>2, RenewLeaseEffect
<1>5. clock \in Nat /\ Period \in Nat /\ Slack \in Nat /\ l \in Nat
  BY <1>2, ConstantFacts DEF LInv, LeaseTypeOK, Indices
<1>6. LeaseTypeOK'
  <2>1. call' \in [Calls -> [pc : {"idle", "driving", "released"},
                             activity : Activities \cup {None},
                             lease : Nat, due : Int, ctx : BOOLEAN]]
    BY <1>3, <1>5 DEF LInv, LeaseTypeOK
  <2>2. \A d \in Calls : call'[d].pc # "idle" => call'[d].lease \in Indices'
    BY <1>2, <1>3, <1>4 DEF LInv, LeaseTypeOK
  <2> QED
    BY <1>1, <1>4, <2>1, <2>2 DEF LInv, LeaseTypeOK
<1>7. CallOwns'
  BY <1>1, <1>2, <1>3, <1>4 DEF LInv, LeaseTypeOK, CallOwns
<1>8. RenewedInTime'
  <2> SUFFICES ASSUME "late" \notin faults', NEW d \in Calls, Renewing(d)'
               PROVE  InTime(d)'
    BY DEF RenewedInTime
  <2>1. CASE d = c
    BY <1>1, <1>3, <1>4, <1>5, <2>1 DEF InTime
  <2>2. CASE d # c
    <3>1. call'[d] = call[d] /\ Renewing(d) /\ call[d].lease \in Indices /\ call[d].due \in Int
      BY <1>3, <2>2 DEF Renewing, LInv, LeaseTypeOK
    <3>2. InTime(d)
      BY <1>1, <3>1 DEF LInv, RenewedInTime
    <3>3. CASE call[d].lease = l
      BY <1>1, <1>4, <1>5, <3>1, <3>2, <3>3 DEF InTime, GivenBack
    <3>4. CASE call[d].lease # l
      BY <1>1, <1>4, <1>5, <3>1, <3>2, <3>4 DEF InTime, GivenBack
    <3> QED
      BY <3>3, <3>4
  <2> QED
    BY <2>1, <2>2
<1>9. OneActive'
  BY <1>1, <1>4 DEF LInv, OneActive
<1>10. Held'
  <2> SUFFICES ASSUME NEW k \in Indices', ~leases'[k].released
               PROVE  k \in orphans' \/ \E d \in Calls : call'[d].pc = "driving" /\ call'[d].lease = k
    BY DEF Held
  <2>1. CASE k = l
    BY <1>3, <2>1
  <2>2. CASE k # l
    <3>1. k \in orphans \/ \E d \in Calls : call[d].pc = "driving" /\ call[d].lease = k
      BY <1>4, <2>2 DEF LInv, Held
    <3> QED
      BY <1>1, <1>3, <2>2, <3>1
  <2> QED
    BY <2>1, <2>2
<1> QED
  BY <1>6, <1>7, <1>8, <1>9, <1>10 DEF LInv

LEMMA RenewKeeps ==
  ASSUME LInv, NEW c \in Calls, Renew(c)
  PROVE  LInv'
<1> DEFINE l == call[c].lease
           due == call[c].due
<1>1. /\ Renewing(c) /\ clock >= due /\ RenewLease(l) /\ RenewTick(c)
      /\ clock' = clock /\ orphans' = orphans /\ faults' = faults /\ mishaps' = mishaps
  BY DEF Renew
<1>2. l \in Indices /\ clock \in Nat /\ due \in Int /\ Period \in Nat /\ Slack \in Nat
      /\ Slack < Period /\ NextDue(due) \in Int
  BY <1>1, ConstantFacts, NextDueIsInt DEF LInv, LeaseTypeOK, Renewing
<1> DEFINE CallSet == [pc : {"idle", "driving", "released"}, activity : Activities \cup {None},
                       lease : Nat, due : Int, ctx : BOOLEAN]
           rec == [call[c] EXCEPT !.due = NextDue(due)]
<1>3. /\ call \in [Calls -> CallSet] /\ rec \in CallSet
      /\ call' = [call EXCEPT ![c] = rec]
      /\ rec.due = NextDue(due) /\ rec.pc = call[c].pc /\ rec.lease = call[c].lease
      /\ rec.activity = call[c].activity /\ rec.ctx = call[c].ctx
  <2>1. call \in [Calls -> CallSet]
    BY DEF LInv, LeaseTypeOK
  <2>2. call' = [call EXCEPT ![c] = rec]
    BY <1>1 DEF RenewTick
  <2>3. call[c] \in CallSet
    BY <2>1
  <2> QED
    BY <1>2, <2>1, <2>2, <2>3
<1> HIDE DEF rec
<1>4. \A d \in Calls : /\ call'[d].pc = call[d].pc /\ call'[d].lease = call[d].lease
                       /\ call'[d].activity = call[d].activity /\ call'[d].ctx = call[d].ctx
                       /\ call'[d].due \in Int
                       /\ d # c => call'[d].due = call[d].due
                       /\ d = c => call'[d].due = NextDue(due)
  <2>1. call'[c] = rec /\ \A d \in Calls \ {c} : call'[d] = call[d]
    BY <1>3
  <2>2. \A d \in Calls : call[d] \in CallSet
    BY <1>3
  <2> QED
    BY <1>2, <1>3, <2>1, <2>2
<1>5. /\ leases' \in Seq(Lease) /\ Indices' = Indices
      /\ \A k \in Indices : /\ leases'[k].holder = leases[k].holder
                            /\ leases'[k].released = leases[k].released
                            /\ leases'[k].expiresAt \in Nat
                            /\ k # l => leases'[k] = leases[k]
      /\ leases'[l].expiresAt > clock + Period + Slack
      /\ l \in ActiveLeases => ActiveLeases' = ActiveLeases
      /\ leases[l].released => ActiveLeases' = ActiveLeases
  BY <1>1, <1>2, RenewLeaseEffect
<1>6. LeaseTypeOK'
  <2>1. call' \in [Calls -> CallSet]
    BY <1>3
  <2> QED
    BY <1>1, <1>4, <1>5, <2>1 DEF LInv, LeaseTypeOK
<1>7. CallOwns'
  BY <1>4, <1>5 DEF LInv, LeaseTypeOK, CallOwns
<1>8. RenewedInTime'
  <2> SUFFICES ASSUME "late" \notin faults', NEW d \in Calls, Renewing(d)'
               PROVE  InTime(d)'
    BY DEF RenewedInTime
  <2>1. Renewing(d) /\ InTime(d) /\ InTime(c)
    BY <1>1, <1>4 DEF Renewing, LInv, RenewedInTime
  <2>2. call[d].lease \in Indices /\ call[d].due \in Int
    BY <2>1 DEF LInv, LeaseTypeOK, Renewing
  <2>3. NextDue(due) = due + Period
    BY <1>2, <2>1 DEF InTime, NextDue
  <2>4. call'[d].due <= clock + Period /\ clock <= call'[d].due + Slack
    <3>1. CASE d = c
      <4>1. call'[d].due = due + Period
        BY <1>4, <2>3, <3>1
      <4> QED
        BY <1>1, <1>2, <2>1, <4>1 DEF InTime
    <3>2. CASE d # c
      BY <1>4, <2>1, <3>2 DEF InTime
    <3> QED
      BY <3>1, <3>2
  <2>5. ~GivenBack(d)' => leases'[call'[d].lease].expiresAt > call'[d].due + Slack
    <3>1. CASE call[d].lease = l
      BY <1>2, <1>4, <1>5, <2>2, <2>4, <3>1
    <3>2. CASE call[d].lease # l
      BY <1>4, <1>5, <2>1, <2>2, <3>2 DEF GivenBack, InTime
    <3> QED
      BY <3>1, <3>2
  <2> QED
    BY <1>1, <2>4, <2>5 DEF InTime
<1>9. OneActive'
  <2> SUFFICES ASSUME faults' = {} PROVE \A k, m \in ActiveLeases' : k = m
    BY DEF OneActive
  <2>1. ~GivenBack(c) => l \in ActiveLeases
    BY <1>1, KeptIsActive DEF LInv
  <2>2. ActiveLeases' = ActiveLeases
    BY <1>5, <2>1 DEF GivenBack
  <2> QED
    BY <1>1, <2>2 DEF LInv, OneActive
<1>10. Held'
  BY <1>1, <1>4, <1>5 DEF LInv, Held
<1> QED
  BY <1>6, <1>7, <1>8, <1>9, <1>10 DEF LInv

(* Release ends a record, for every call that shared it. *)
LEMMA ReleaseEffect ==
  ASSUME LInv, NEW c \in Calls, Release(c)
  PROVE  /\ call[c].lease \in Indices
         /\ leases' \in Seq(Lease) /\ Indices' = Indices
         /\ \A k \in Indices : /\ leases'[k].holder = leases[k].holder
                               /\ k # call[c].lease => leases'[k] = leases[k]
         /\ leases'[call[c].lease].released
         /\ ActiveLeases' = ActiveLeases \ {call[c].lease}
         /\ \A d \in Calls : /\ call'[d].activity = call[d].activity
                             /\ call'[d].lease = call[d].lease
                             /\ call'[d].due = call[d].due
                             /\ call'[d].ctx = call[d].ctx
                             /\ d # c => call'[d].pc = call[d].pc
         /\ call'[c].pc = "released"
         /\ LeaseTypeOK'
<1> DEFINE l == call[c].lease
           e == Truncated(clock)
           rec == [leases[l] EXCEPT !.released = TRUE, !.expiresAt = e]
<1>1. l \in Indices /\ e \in Nat /\ clock' = clock /\ clock \in Nat /\ leases \in Seq(Lease)
  BY TruncatedBounds DEF LInv, LeaseTypeOK, Release, Driving
<1>2. leases' = [leases EXCEPT ![l] = rec]
  BY DEF Release
<1>3. leases[l] \in Lease
  BY <1>1 DEF Indices
<1>4. rec \in Lease /\ rec.holder = leases[l].holder /\ rec.released
  BY <1>1, <1>3 DEF Lease
<1> HIDE DEF rec, e
<1>5. /\ leases' \in Seq(Lease) /\ Indices' = Indices
      /\ \A k \in Indices : k # l => leases'[k] = leases[k]
      /\ leases'[l] = rec
  BY <1>1, <1>2, <1>4 DEF Indices
<1>6. \A k \in Indices : leases'[k].holder = leases[k].holder
  BY <1>4, <1>5
<1>7. ActiveLeases' = ActiveLeases \ {l}
  BY <1>1, <1>4, <1>5 DEF ActiveLeases, Active
<1>8. call' = [call EXCEPT ![c].pc = "released"]
  BY DEF Release
<1>9. /\ \A d \in Calls : /\ call'[d].activity = call[d].activity
                          /\ call'[d].lease = call[d].lease
                          /\ call'[d].due = call[d].due
                          /\ call'[d].ctx = call[d].ctx
                          /\ d # c => call'[d].pc = call[d].pc
      /\ call'[c].pc = "released"
  BY <1>8 DEF LInv, LeaseTypeOK
<1>10. call' \in [Calls -> [pc : {"idle", "driving", "released"},
                           activity : Activities \cup {None},
                           lease : Nat, due : Int, ctx : BOOLEAN]]
  BY <1>8 DEF LInv, LeaseTypeOK
<1>11. \A d \in Calls : call'[d].pc # "idle" => call'[d].lease \in Indices'
  BY <1>1, <1>5, <1>9 DEF LInv, LeaseTypeOK
<1>12. LeaseTypeOK'
  BY <1>1, <1>5, <1>10, <1>11 DEF LInv, LeaseTypeOK, Release
<1> QED
  BY <1>1, <1>4, <1>5, <1>6, <1>7, <1>9, <1>12

LEMMA ReleaseKeeps ==
  ASSUME LInv, NEW c \in Calls, Release(c)
  PROVE  LInv'
<1> DEFINE l == call[c].lease
<1>1. /\ l \in Indices /\ Indices' = Indices
      /\ \A k \in Indices : /\ leases'[k].holder = leases[k].holder
                            /\ k # l => leases'[k] = leases[k]
      /\ leases'[l].released
      /\ ActiveLeases' = ActiveLeases \ {l}
      /\ call'[c].pc = "released"
      /\ LeaseTypeOK'
  BY ReleaseEffect
<1>2. \A d \in Calls : /\ call'[d].activity = call[d].activity
                       /\ call'[d].lease = call[d].lease
                       /\ call'[d].due = call[d].due
                       /\ call'[d].ctx = call[d].ctx
                       /\ d # c => call'[d].pc = call[d].pc
  BY ReleaseEffect
<1>3. /\ call[c].pc = "driving" /\ clock' = clock /\ orphans' = orphans /\ faults' = faults
  BY DEF Release, Driving
<1>4. CallOwns'
  BY <1>1, <1>2, <1>3 DEF LInv, LeaseTypeOK, CallOwns
<1>5. RenewedInTime'
  <2> SUFFICES ASSUME "late" \notin faults', NEW d \in Calls, Renewing(d)'
               PROVE  InTime(d)'
    BY DEF RenewedInTime
  <2>1. Renewing(d)
    BY <1>2, <1>3 DEF Renewing
  <2>2. InTime(d) /\ call[d].lease \in Indices
    BY <1>3, <2>1 DEF LInv, RenewedInTime, LeaseTypeOK, Renewing
  <2> QED
    BY <1>1, <1>2, <1>3, <2>2 DEF InTime, GivenBack
<1>6. OneActive'
  BY <1>1, <1>3 DEF LInv, OneActive
<1>7. Held'
  <2> SUFFICES ASSUME NEW k \in Indices', ~leases'[k].released
               PROVE  k \in orphans' \/ \E d \in Calls : call'[d].pc = "driving" /\ call'[d].lease = k
    BY DEF Held
  <2>1. k # l /\ k \in Indices /\ ~leases[k].released
    BY <1>1
  <2>2. k \in orphans \/ \E d \in Calls : call[d].pc = "driving" /\ call[d].lease = k
    BY <2>1 DEF LInv, Held
  <2> QED
    BY <1>2, <1>3, <2>1, <2>2
<1> QED
  BY <1>1, <1>4, <1>5, <1>6, <1>7 DEF LInv

(* The steps that leave the records alone: calls go, or time passes. *)
LEMMA ActiveShrinks ==
  ASSUME LInv, leases' = leases, clock' \in Nat, clock' >= clock
  PROVE  /\ Indices' = Indices /\ ActiveLeases' \subseteq ActiveLeases
         /\ clock' = clock => ActiveLeases' = ActiveLeases
<1>1. clock \in Nat /\ \A k \in Indices : leases[k] \in Lease
  BY DEF LInv, LeaseTypeOK, Indices
<1> QED
  BY <1>1 DEF Indices, ActiveLeases, Active, Lease

LEMMA CallGoesKeeps ==
  ASSUME LInv, NEW c \in Calls,
         ReleaseRefused(c) \/ CancelRenewal(c) \/ CancelContext(c)
  PROVE  LInv'
<1>1. /\ clock' = clock /\ leases' = leases /\ faults' = faults /\ call[c].pc # "idle"
      /\ clock \in Nat
  BY DEF ReleaseRefused, CancelRenewal, CancelContext, Renewing, LInv, LeaseTypeOK
<1>2. Indices' = Indices /\ ActiveLeases' = ActiveLeases
  BY <1>1, ActiveShrinks
<1>3. /\ \A d \in Calls \ {c} : call'[d] = call[d]
      /\ call' \in [Calls -> [pc : {"idle", "driving", "released"},
                              activity : Activities \cup {None},
                              lease : Nat, due : Int, ctx : BOOLEAN]]
  <2>1. CASE ReleaseRefused(c)
    BY <2>1 DEF ReleaseRefused, LInv, LeaseTypeOK
  <2>2. CASE CancelRenewal(c)
    BY <2>2 DEF CancelRenewal, NoCall, LInv, LeaseTypeOK
  <2>3. CASE CancelContext(c)
    BY <2>3 DEF CancelContext, LInv, LeaseTypeOK
  <2> QED
    BY <2>1, <2>2, <2>3
<1>4. /\ call'[c].pc # "idle" => call'[c].lease = call[c].lease
                                /\ call'[c].activity = call[c].activity
                                /\ call'[c].due = call[c].due
      /\ Renewing(c)' => Renewing(c)
      /\ call'[c].pc = "driving" => call[c].pc = "driving" /\ call'[c].lease = call[c].lease
  BY <1>1 DEF ReleaseRefused, CancelRenewal, CancelContext, NoCall, LInv, LeaseTypeOK, Renewing
<1>5. /\ orphans' \subseteq Indices /\ orphans \subseteq orphans'
      /\ call[c].pc = "driving" => call'[c].pc = "driving" \/ call[c].lease \in orphans'
      /\ call'[c].pc = "driving" => call'[c].lease = call[c].lease
      /\ mishaps' \in 0..MaxMishaps
  BY <1>4, RunLeaseAssumption
     DEF ReleaseRefused, CancelRenewal, CancelContext, Mishap, LInv, LeaseTypeOK
<1>6. LeaseTypeOK'
  <2>1. \A d \in Calls : call'[d].pc # "idle" => call'[d].lease \in Indices'
    BY <1>1, <1>2, <1>3, <1>4 DEF LInv, LeaseTypeOK
  <2> QED
    BY <1>1, <1>2, <1>3, <1>5, <2>1 DEF LInv, LeaseTypeOK
<1>7. CallOwns'
  BY <1>1, <1>3, <1>4 DEF LInv, CallOwns
<1>8. RenewedInTime'
  <2> SUFFICES ASSUME "late" \notin faults', NEW d \in Calls, Renewing(d)'
               PROVE  InTime(d)'
    BY DEF RenewedInTime
  <2>1. Renewing(d) /\ call'[d].pc # "idle"
    BY <1>3, <1>4 DEF Renewing
  <2>2. InTime(d)
    BY <1>1, <2>1 DEF LInv, RenewedInTime
  <2>3. call'[d].lease = call[d].lease /\ call'[d].due = call[d].due
    BY <1>3, <1>4, <2>1
  <2> QED
    BY <1>1, <2>2, <2>3 DEF InTime, GivenBack
<1>9. OneActive'
  BY <1>1, <1>2 DEF LInv, OneActive
<1>10. Held'
  <2> SUFFICES ASSUME NEW k \in Indices', ~leases'[k].released
               PROVE  k \in orphans' \/ \E d \in Calls : call'[d].pc = "driving" /\ call'[d].lease = k
    BY DEF Held
  <2>1. k \in orphans \/ \E d \in Calls : call[d].pc = "driving" /\ call[d].lease = k
    BY <1>1, <1>2 DEF LInv, Held
  <2> QED
    BY <1>3, <1>5, <2>1
<1> QED
  BY <1>6, <1>7, <1>8, <1>9, <1>10 DEF LInv

LEMMA TimePassesKeeps ==
  ASSUME LInv, Tick \/ Stall
  PROVE  LInv'
<1>1. /\ clock \in Nat /\ clock' = clock + 1 /\ leases' = leases /\ call' = call
      /\ orphans' = orphans
  BY DEF Tick, Stall, Advance, LInv, LeaseTypeOK
<1>2. /\ faults \subseteq faults' /\ faults' \subseteq {"late", "unread"}
      /\ mishaps' \in 0..MaxMishaps
  <2>1. CASE Tick
    BY <2>1 DEF Tick, LInv, LeaseTypeOK
  <2>2. CASE Stall
    BY <2>2, RunLeaseAssumption DEF Stall, Mishap, LInv, LeaseTypeOK
  <2> QED
    BY <2>1, <2>2
<1>3. Indices' = Indices /\ ActiveLeases' \subseteq ActiveLeases
  BY <1>1, ActiveShrinks
<1>4. LeaseTypeOK' /\ CallOwns' /\ Held'
  BY <1>1, <1>2, <1>3 DEF LInv, LeaseTypeOK, CallOwns, Held
<1>5. OneActive'
  BY <1>2, <1>3 DEF LInv, OneActive
<1>6. RenewedInTime'
  <2> SUFFICES ASSUME "late" \notin faults', NEW c \in Calls, Renewing(c)'
               PROVE  InTime(c)'
    BY DEF RenewedInTime
  <2>1. Renewing(c) /\ InTime(c) /\ call[c].due \in Int
    BY <1>1, <1>2 DEF Renewing, LInv, RenewedInTime, LeaseTypeOK
  <2>2. ~Overdue(c)
    BY DEF Tick, Stall
  <2> QED
    BY <1>1, <2>1, <2>2, ConstantFacts DEF InTime, GivenBack, Overdue
<1> QED
  BY <1>4, <1>5, <1>6 DEF LInv

LEMMA CrashKeeps ==
  ASSUME LInv, Crash
  PROVE  LInv'
<1>1. /\ clock' = clock /\ leases' = leases /\ faults' = faults /\ clock \in Nat
      /\ orphans' = orphans \cup {call[c].lease : c \in {d \in Calls : call[d].pc = "driving"}}
      /\ call' = [c \in Calls |-> NoCall] /\ mishaps' \in 0..MaxMishaps
  BY RunLeaseAssumption DEF Crash, Mishap, LInv, LeaseTypeOK
<1>2. Indices' = Indices /\ ActiveLeases' = ActiveLeases
  BY <1>1, ActiveShrinks
<1>3. LeaseTypeOK'
  <2>1. orphans' \subseteq Indices'
    BY <1>1, <1>2 DEF LInv, LeaseTypeOK
  <2> QED
    BY <1>1, <1>2, <2>1 DEF LInv, LeaseTypeOK, NoCall
<1>4. CallOwns' /\ RenewedInTime'
  BY <1>1 DEF CallOwns, RenewedInTime, Renewing, NoCall
<1>5. OneActive'
  BY <1>1, <1>2 DEF LInv, OneActive
<1>6. Held'
  BY <1>1, <1>2 DEF LInv, Held
<1> QED
  BY <1>3, <1>4, <1>5, <1>6 DEF LInv

LEMMA NextKeepsLInv == LInv /\ [Next]_vars => LInv'
<1> SUFFICES ASSUME LInv, [Next]_vars PROVE LInv'
  OBVIOUS
<1>1. ASSUME NEW c \in Calls, NEW a \in Activities,
             Acquire(c, a) \/ AcquireShared(c, a) \/ AcquireUnread(c, a)
      PROVE  LInv'
  BY <1>1, AcquireKeeps, AcquireSharedKeeps
<1>2. ASSUME NEW c \in Calls, Renew(c) \/ Release(c) \/ ReleaseRefused(c)
      PROVE  LInv'
  BY <1>2, RenewKeeps, ReleaseKeeps, CallGoesKeeps
<1>3. ASSUME NEW c \in Calls, CancelRenewal(c) \/ CancelContext(c)
      PROVE  LInv'
  BY <1>3, CallGoesKeeps
<1>4. CASE Tick \/ Stall \/ Crash
  BY <1>4, TimePassesKeeps, CrashKeeps
<1>5. CASE UNCHANGED vars
  BY <1>5 DEF vars, LInv, LeaseTypeOK, CallOwns, RenewedInTime, Renewing, InTime, GivenBack,
              OneActive, ActiveLeases, Active, Indices, Held
<1> QED
  BY <1>1, <1>2, <1>3, <1>4, <1>5 DEF Next

(* The invariant: what relates the calls in progress, the records and the   *)
(* clock holds of any number of calls, leases and mishaps.                  *)
THEOREM LeaseInductive == Spec => []LInv
<1> QED
  BY InitLInv, NextKeepsLInv, PTL DEF Spec

--------------------------------------------------------------------------------
(* What the runs check *)

(* Every record and every call of Acquire keeps its type. *)
THEOREM LeaseTypeCorrect == Spec => []LeaseTypeOK
<1>1. LInv => LeaseTypeOK
  BY DEF LInv
<1> QED
  BY <1>1, LeaseInductive, PTL

LEMMA LapsesNot == LInv => LeaseNeverLapses
<1> SUFFICES ASSUME LInv, NEW c \in Calls, Driving(c), ~GivenBack(c), "late" \notin faults
             PROVE  Active(call[c].lease)
  BY DEF LeaseNeverLapses
<1>1. Renewing(c)
  BY DEF Driving, Renewing
<1> QED
  BY <1>1, KeptIsActive DEF LInv, ActiveLeases

(* The renewals of startLeaseRenewal keep the lease of a driven loop, for   *)
(* every time to live that leaves half of it, the slack and a second.       *)
THEOREM NeverLapses == Spec => []LeaseNeverLapses
<1> QED
  BY LapsesNot, LeaseInductive, PTL

LEMMA KeepersShare == LInv => OneActivityDrives
<1> SUFFICES ASSUME LInv, faults = {}, NEW c \in Calls, NEW d \in Calls,
                    Driving(c), Driving(d), ~GivenBack(c), ~GivenBack(d)
             PROVE  call[c].activity = call[d].activity
  BY DEF OneActivityDrives
<1>1. call[c].lease \in ActiveLeases /\ call[d].lease \in ActiveLeases
  BY KeptIsActive DEF LInv, Driving, Renewing
<1>2. call[c].lease = call[d].lease
  BY <1>1 DEF LInv, OneActive
<1> QED
  BY <1>2 DEF LInv, CallOwns, Driving

(* Acquire lets one activity at a time into a run. *)
THEOREM OneDrives == Spec => []OneActivityDrives
<1> QED
  BY KeepersShare, LeaseInductive, PTL

(* A lease that is active has a call that drives the run, or lost it. *)
THEOREM HasHolder == Spec => []ActiveLeaseHasHolder
<1>1. LInv => ActiveLeaseHasHolder
  BY DEF LInv, Held, ActiveLeaseHasHolder, ActiveLeases, Active
<1> QED
  BY <1>1, LeaseInductive, PTL

(* Nobody extends the life of a lease that no call with a live context renews. *)
THEOREM AbandonedSafe == Spec => AbandonedNotExtended
<1> DEFINE A == \A l \in Indices :
                  (\A c \in Calls : ~(Renewing(c) /\ call[c].lease = l)
                                    /\ ~(Renewing(c) /\ call[c].lease = l)')
                    => leases'[l].expiresAt <= leases[l].expiresAt
<1>1. LInv /\ [Next]_vars => [A]_vars
  <2> SUFFICES ASSUME LInv, Next, NEW l \in Indices,
                      \A c \in Calls : ~(Renewing(c) /\ call[c].lease = l)
                                       /\ ~(Renewing(c) /\ call[c].lease = l)'
               PROVE  leases'[l].expiresAt <= leases[l].expiresAt
    OBVIOUS
  <2>1. leases[l].expiresAt \in Nat
    <3>1. leases[l] \in Lease
      BY DEF LInv, LeaseTypeOK, Indices
    <3> QED
      BY <3>1 DEF Lease
  <2>2. SUFFICES leases'[l] = leases[l]
    BY <2>1, <2>2
  <2>3. ASSUME NEW c \in Calls, NEW a \in Activities, PutNewLease(c, a)
        PROVE  leases'[l] = leases[l]
    <3> DEFINE new == [holder |-> a, acquiredAt |-> Truncated(clock),
                       expiresAt |-> Truncated(clock + TTL), released |-> FALSE]
    <3>1. leases' = Append(leases, new) /\ leases \in Seq(Lease) /\ l \in 1..Len(leases)
      BY <2>3 DEF PutNewLease, LInv, LeaseTypeOK, Indices
    <3> HIDE DEF new
    <3> QED
      BY <3>1
  <2>4. ASSUME NEW c \in Calls, NEW a \in Activities, AcquireShared(c, a)
        PROVE  leases'[l] = leases[l]
    <3>1. PICK k \in Newest : RenewLease(k) /\ Drive(c, a, k) /\ clock' = clock
      BY <2>4 DEF AcquireShared
    <3>2. k \in Indices
      BY DEF Newest, ActiveLeases
    <3>3. k # l
      BY <3>1 DEF Drive, Renewing, LInv, LeaseTypeOK
    <3> QED
      BY <3>1, <3>2, <3>3, RenewLeaseEffect
  <2>5. ASSUME NEW c \in Calls, Renew(c)
        PROVE  leases'[l] = leases[l]
    <3>1. RenewLease(call[c].lease) /\ call[c].lease # l /\ call[c].lease \in Indices
          /\ clock' = clock
      BY <2>5 DEF Renew, Renewing, LInv, LeaseTypeOK
    <3> QED
      BY <3>1, RenewLeaseEffect
  <2>6. ASSUME NEW c \in Calls, Release(c)
        PROVE  leases'[l] = leases[l]
    <3>1. call[c].lease # l
      BY <2>6 DEF Release, Driving, Renewing
    <3> QED
      BY <2>6, <3>1, ReleaseEffect
  <2>7. ASSUME NEW c \in Calls, ReleaseRefused(c) \/ CancelRenewal(c) \/ CancelContext(c)
        PROVE  leases' = leases
    BY <2>7 DEF ReleaseRefused, CancelRenewal, CancelContext
  <2>8. CASE Tick \/ Stall \/ Crash
    BY <2>8 DEF Tick, Stall, Advance, Crash
  <2> QED
    BY <2>3, <2>4, <2>5, <2>6, <2>7, <2>8 DEF Next, Acquire, AcquireUnread
<1>2. Spec => [][A]_vars
  BY <1>1, LeaseInductive, PTL DEF Spec
<1> QED
  BY <1>2 DEF AbandonedNotExtended

--------------------------------------------------------------------------------
(* The refinement *)

LEMMA HolderOf ==
  ASSUME NEW S, NEW f, NEW l, S = {l}
  PROVE  (IF S = {} THEN None ELSE f[CHOOSE k \in S : TRUE].holder) = f[l].holder
<1>1. (CHOOSE k \in S : TRUE) = l
  BY Zenon
<1> QED
  BY <1>1, Zenon

(* Without a fault the run is free, or has one active lease and its holder. *)
LEMMA HolderCases ==
  ASSUME LInv, faults = {}
  PROVE  \/ ActiveLeases = {} /\ Holder = None
         \/ \E l \in Indices : ActiveLeases = {l} /\ Holder = leases[l].holder
<1>1. CASE ActiveLeases = {}
  BY <1>1 DEF Holder
<1>2. CASE ActiveLeases # {}
  <2>1. PICK l \in Indices : l \in ActiveLeases
    BY <1>2 DEF ActiveLeases
  <2>2. ActiveLeases = {l}
    BY <2>1 DEF LInv, OneActive
  <2> QED
    BY <2>2, HolderOf DEF Holder
<1> QED
  BY <1>1, <1>2

LEMMA HolderCasesNext ==
  ASSUME LInv', faults' = {}
  PROVE  \/ ActiveLeases' = {} /\ Holder' = None
         \/ \E l \in Indices' : ActiveLeases' = {l} /\ Holder' = leases'[l].holder
<1>1. CASE ActiveLeases' = {}
  BY <1>1 DEF Holder
<1>2. CASE ActiveLeases' # {}
  <2>1. PICK l \in Indices' : l \in ActiveLeases'
    BY <1>2 DEF ActiveLeases
  <2>2. ActiveLeases' = {l}
    BY <2>1 DEF LInv, OneActive
  <2> QED
    BY <2>2, HolderOf DEF Holder
<1> QED
  BY <1>1, <1>2

(* Every keeper has an active lease. *)
LEMMA KeepersActive ==
  ASSUME LInv, faults = {}, NEW c \in Keepers
  PROVE  call[c].lease \in ActiveLeases
<1> QED
  BY KeptIsActive DEF LInv, Keepers, Driving, Renewing

LEMMA KeepersActiveNext ==
  ASSUME LInv', faults' = {}, NEW c \in Keepers'
  PROVE  call'[c].lease \in ActiveLeases'
<1>1. c \in Calls /\ Renewing(c)' /\ ~GivenBack(c)' /\ InTime(c)'
  BY DEF LInv, RenewedInTime, Keepers, Driving, Renewing
<1>2. call'[c].lease \in Indices' /\ leases' \in Seq(Lease) /\ clock' \in Nat /\ call'[c].due \in Int
  BY <1>1 DEF LInv, LeaseTypeOK, Renewing
<1>3. leases'[call'[c].lease] \in Lease
  BY <1>2 DEF Indices
<1>4. leases'[call'[c].lease].expiresAt > clock'
  <2>1. /\ leases'[call'[c].lease].expiresAt \in Nat /\ Slack \in Nat
        /\ clock' <= call'[c].due + Slack
        /\ leases'[call'[c].lease].expiresAt > call'[c].due + Slack
    BY <1>1, <1>3, ConstantFacts DEF InTime, GivenBack, Lease
  <2> QED
    BY <1>2, <2>1
<1> QED
  BY <1>1, <1>2, <1>4 DEF ActiveLeases, Active, GivenBack

LEMMA LockStep ==
  ASSUME LInv, LInv', Next, faults = {}, faults' = {}
  PROVE  \/ \E c \in Calls :
              \/ c \in Keepers /\ Holder' = None /\ Keepers' = {}
              \/ \E a \in Activities :
                   Holder \in {None, a} /\ Holder' = a /\ Keepers' = Keepers \cup {c}
         \/ \E C \in SUBSET Calls : Keepers' = Keepers \ C /\ Holder' = Holder
         \/ Keepers = {} /\ Holder' = None /\ Keepers' = Keepers
<1> DEFINE Taken == \E c \in Calls, a \in Activities :
                      Holder \in {None, a} /\ Holder' = a /\ Keepers' = Keepers \cup {c}
           Returned == \E c \in Calls : c \in Keepers /\ Holder' = None /\ Keepers' = {}
           Lost == \E C \in SUBSET Calls : Keepers' = Keepers \ C /\ Holder' = Holder
           Lapsed == Keepers = {} /\ Holder' = None /\ Keepers' = Keepers
<1> SUFFICES Taken \/ Returned \/ Lost \/ Lapsed
  OBVIOUS
<1>0. Keepers \subseteq Calls
  BY DEF Keepers
<1>1. ASSUME leases' = leases, clock' = clock, Keepers' \subseteq Keepers
      PROVE  Lost
  <2>1. Holder' = Holder
    <3>1. clock' \in Nat /\ clock' >= clock
      BY <1>1 DEF LInv, LeaseTypeOK
    <3>2. ActiveLeases' = ActiveLeases
      BY <1>1, <3>1, ActiveShrinks
    <3> QED
      BY <1>1, <3>2, HolderCases, HolderCasesNext
  <2>2. Keepers' = Keepers \ (Keepers \ Keepers') /\ (Keepers \ Keepers') \in SUBSET Calls
    BY <1>0, <1>1
  <2> QED
    BY <2>1, <2>2
<1>2. ASSUME NEW c \in Calls, NEW a \in Activities, Acquire(c, a)
      PROVE  Taken
  <2> DEFINE l == Len(leases) + 1
  <2>1. ActiveLeases = {} /\ Holder = None
    BY <1>2, HolderCases DEF Acquire
  <2>2. Keepers = {}
    BY <2>1, KeepersActive
  <2>3. /\ Len(leases') = l /\ leases \in Seq(Lease) /\ Len(leases) \in Nat
        /\ \A k \in Indices : leases'[k] = leases[k]
        /\ leases'[l].holder = a /\ ~leases'[l].released
    <3> DEFINE new == [holder |-> a, acquiredAt |-> Truncated(clock),
                       expiresAt |-> Truncated(clock + TTL), released |-> FALSE]
    <3>1. leases' = Append(leases, new) /\ leases \in Seq(Lease) /\ Len(leases) \in Nat
      BY <1>2 DEF Acquire, PutNewLease, LInv, LeaseTypeOK
    <3>2. new.holder = a /\ ~new.released
      OBVIOUS
    <3> HIDE DEF new
    <3>3. leases'[l] = new /\ Len(leases') = l /\ \A k \in Indices : leases'[k] = leases[k]
      BY <3>1 DEF Indices
    <3> QED
      BY <3>1, <3>2, <3>3
  <2>4. /\ call[c].pc = "idle" /\ clock' = clock
        /\ \A d \in Calls \ {c} : call'[d] = call[d]
        /\ call'[c].pc = "driving" /\ call'[c].ctx /\ call'[c].lease = l
    BY <1>2 DEF Acquire, PutNewLease, Drive, LInv, LeaseTypeOK
  <2>5. Keepers' = {c}
    <3>1. c \in Keepers'
      BY <2>3, <2>4 DEF Keepers, Driving, GivenBack
    <3>2. ASSUME NEW d \in Keepers', d # c PROVE FALSE
      <4>1. call'[d] = call[d] /\ Driving(d) /\ call[d].lease \in Indices
        BY <2>4, <3>2 DEF Keepers, Driving, LInv, LeaseTypeOK
      <4> QED
        BY <2>2, <2>3, <3>2, <4>1 DEF Keepers, GivenBack
    <3> QED
      BY <3>1, <3>2
  <2>6. call'[c].lease \in ActiveLeases'
    BY <2>5, KeepersActiveNext
  <2>7. Holder' = a
    BY <2>3, <2>4, <2>6, HolderCasesNext
  <2> QED
    BY <2>1, <2>2, <2>5, <2>7
<1>3. ASSUME NEW c \in Calls, NEW a \in Activities, AcquireShared(c, a)
      PROVE  Taken
  <2>1. PICK l \in Newest :
          /\ call[c].pc = "idle" /\ leases[l].holder = a
          /\ RenewLease(l) /\ Drive(c, a, l) /\ clock' = clock
    BY <1>3 DEF AcquireShared
  <2>2. l \in Indices /\ l \in ActiveLeases /\ ~leases[l].released
    BY DEF Newest, ActiveLeases, Active
  <2>3. /\ ActiveLeases' = ActiveLeases /\ Indices' = Indices
        /\ \A k \in Indices : /\ leases'[k].holder = leases[k].holder
                              /\ leases'[k].released = leases[k].released
    BY <2>1, <2>2, RenewLeaseEffect
  <2>4. Holder = a /\ Holder' = a
    BY <2>1, <2>2, <2>3, HolderCases, HolderCasesNext
  <2>5. /\ \A d \in Calls \ {c} : call'[d] = call[d]
        /\ call'[c].pc = "driving" /\ call'[c].ctx /\ call'[c].lease = l
    BY <2>1 DEF Drive, LInv, LeaseTypeOK
  <2>6. Keepers' = Keepers \cup {c}
    <3>1. c \in Keepers'
      BY <2>2, <2>3, <2>5 DEF Keepers, Driving, GivenBack
    <3>2. ASSUME NEW d \in Calls, d # c PROVE d \in Keepers' <=> d \in Keepers
      <4>1. call'[d] = call[d] /\ (Driving(d) => call[d].lease \in Indices)
        BY <2>5, <3>2 DEF Driving, LInv, LeaseTypeOK
      <4> QED
        BY <2>3, <4>1 DEF Keepers, Driving, GivenBack
    <3> QED
      BY <3>1, <3>2 DEF Keepers
  <2> QED
    BY <2>4, <2>6
<1>4. ASSUME NEW c \in Calls, Renew(c)
      PROVE  Lost
  <2> DEFINE l == call[c].lease
  <2>1. l \in Indices /\ RenewLease(l) /\ clock' = clock /\ Renewing(c)
    BY <1>4 DEF Renew, Renewing, LInv, LeaseTypeOK
  <2>2. /\ Indices' = Indices
        /\ \A k \in Indices : /\ leases'[k].holder = leases[k].holder
                              /\ leases'[k].released = leases[k].released
        /\ l \in ActiveLeases => ActiveLeases' = ActiveLeases
        /\ leases[l].released => ActiveLeases' = ActiveLeases
    BY <2>1, RenewLeaseEffect
  <2>3. ActiveLeases' = ActiveLeases
    BY <2>1, <2>2, KeptIsActive DEF LInv, GivenBack
  <2>4. Holder' = Holder
    BY <2>2, <2>3, HolderCases, HolderCasesNext
  <2>5. \A d \in Calls : /\ call'[d].pc = call[d].pc /\ call'[d].ctx = call[d].ctx
                         /\ call'[d].lease = call[d].lease
    BY <1>4 DEF Renew, RenewTick, LInv, LeaseTypeOK
  <2>6. Keepers' = Keepers
    <3>1. \A d \in Calls : Driving(d) => call[d].lease \in Indices
      BY DEF Driving, LInv, LeaseTypeOK
    <3> QED
      BY <2>2, <2>5, <3>1 DEF Keepers, Driving, GivenBack
  <2>7. Keepers' = Keepers \ {} /\ {} \in SUBSET Calls
    BY <2>6
  <2> QED
    BY <2>4, <2>7
<1>5. ASSUME NEW c \in Calls, Release(c)
      PROVE  Returned \/ Lost
  <2> DEFINE l == call[c].lease
  <2>1. /\ l \in Indices /\ Indices' = Indices
        /\ \A k \in Indices : /\ leases'[k].holder = leases[k].holder
                              /\ k # l => leases'[k] = leases[k]
        /\ leases'[l].released
        /\ ActiveLeases' = ActiveLeases \ {l}
    BY <1>5, ReleaseEffect
  <2>2. /\ \A d \in Calls : /\ call'[d].lease = call[d].lease
                            /\ call'[d].ctx = call[d].ctx
                            /\ d # c => call'[d].pc = call[d].pc
        /\ call'[c].pc = "released"
    BY <1>5, ReleaseEffect
  <2>3. Driving(c)
    BY <1>5 DEF Release
  <2>4. CASE GivenBack(c)
    <3>1. ActiveLeases' = ActiveLeases
      BY <2>1, <2>4 DEF GivenBack, ActiveLeases, Active
    <3>2. Holder' = Holder
      BY <2>1, <3>1, HolderCases, HolderCasesNext
    <3>3. Keepers' = Keepers
      <4>1. c \notin Keepers /\ c \notin Keepers'
        BY <2>2, <2>4 DEF Keepers, Driving
      <4>2. ASSUME NEW d \in Calls, d # c PROVE d \in Keepers' <=> d \in Keepers
        <5>1. Driving(d) => call[d].lease \in Indices
          BY DEF Driving, LInv, LeaseTypeOK
        <5>2. Driving(d)' <=> Driving(d)
          BY <2>2, <4>2 DEF Driving
        <5>3. Driving(d) => (GivenBack(d)' <=> GivenBack(d))
          <6>1. CASE call[d].lease = l
            BY <2>1, <2>2, <2>4, <6>1 DEF GivenBack
          <6>2. CASE call[d].lease # l
            BY <2>1, <2>2, <5>1, <6>2 DEF GivenBack
          <6> QED
            BY <6>1, <6>2
        <5> QED
          BY <5>2, <5>3 DEF Keepers
      <4> QED
        BY <4>1, <4>2 DEF Keepers
    <3>4. Keepers' = Keepers \ {} /\ {} \in SUBSET Calls
      BY <3>3
    <3> QED
      BY <3>2, <3>4
  <2>5. CASE ~GivenBack(c)
    <3>1. c \in Keepers /\ l \in ActiveLeases
      BY <2>3, <2>5, KeepersActive DEF Keepers
    <3>2. ActiveLeases' = {}
      BY <2>1, <3>1 DEF LInv, OneActive
    <3>3. Holder' = None
      BY <3>2, HolderCasesNext
    <3>4. Keepers' = {}
      BY <3>2, KeepersActiveNext
    <3> QED
      BY <3>1, <3>3, <3>4
  <2> QED
    BY <2>4, <2>5
<1>6. ASSUME NEW c \in Calls, ReleaseRefused(c) \/ CancelRenewal(c) \/ CancelContext(c)
      PROVE  Lost
  <2>1. leases' = leases /\ clock' = clock
    BY <1>6 DEF ReleaseRefused, CancelRenewal, CancelContext
  <2>2. \A d \in Calls : Driving(d)' => Driving(d) /\ call'[d].lease = call[d].lease
    <3>1. CASE ReleaseRefused(c)
      BY <3>1 DEF ReleaseRefused, Driving, LInv, LeaseTypeOK
    <3>2. CASE CancelRenewal(c)
      BY <3>2 DEF CancelRenewal, NoCall, Driving, LInv, LeaseTypeOK
    <3>3. CASE CancelContext(c)
      BY <3>3 DEF CancelContext, Driving, LInv, LeaseTypeOK
    <3> QED
      BY <1>6, <3>1, <3>2, <3>3
  <2>3. Keepers' \subseteq Keepers
    BY <2>1, <2>2 DEF Keepers, GivenBack
  <2> QED
    BY <1>1, <2>1, <2>3
<1>7. CASE Crash
  <2>1. leases' = leases /\ clock' = clock /\ call' = [c \in Calls |-> NoCall]
    BY <1>7 DEF Crash
  <2>2. Keepers' = {}
    BY <2>1 DEF Keepers, Driving, NoCall
  <2> QED
    BY <1>1, <2>1, <2>2
<1>8. CASE Tick \/ Stall
  <2>1. leases' = leases /\ call' = call /\ clock' \in Nat /\ clock' >= clock
    BY <1>8 DEF Tick, Stall, Advance, LInv, LeaseTypeOK
  <2>2. Keepers' = Keepers
    BY <2>1 DEF Keepers, Driving, GivenBack
  <2>3. Indices' = Indices /\ ActiveLeases' \subseteq ActiveLeases
    BY <2>1, ActiveShrinks
  <2>4. CASE ActiveLeases' = {}
    BY <2>2, <2>4, HolderCasesNext, KeepersActiveNext
  <2>5. CASE ActiveLeases' # {}
    <3>1. Holder' = Holder
      BY <2>1, <2>3, <2>5, HolderCases, HolderCasesNext
    <3>2. Keepers' = Keepers \ {} /\ {} \in SUBSET Calls
      BY <2>2
    <3> QED
      BY <3>1, <3>2
  <2> QED
    BY <2>4, <2>5
<1>9. ASSUME NEW c \in Calls, NEW a \in Activities, AcquireUnread(c, a)
      PROVE  FALSE
  BY <1>9 DEF AcquireUnread
<1> QED
  BY <1>2, <1>3, <1>4, <1>5, <1>6, <1>7, <1>8, <1>9 DEF Next

(* Faults only gather. *)
LEMMA FaultsStay == Next => faults \subseteq faults'
<1> QED
  BY DEF Next, Acquire, AcquireShared, AcquireUnread, Renew, Release, ReleaseRefused,
         CancelRenewal, CancelContext, Tick, Stall, Crash

(* The records implement the lock, which SessionLifecycle takes them for. *)
THEOREM RefinesLock == Spec => ImplementsLock
<1>1. Init => Lock!Init
  BY DEF Init, Lock!Init, Holder, ActiveLeases, Indices, Keepers, Driving, NoCall
<1>2. LInv /\ LInv' /\ [Next]_vars => [Lock!Next]_Lock!vars
  <2> SUFFICES ASSUME LInv, LInv', [Next]_vars PROVE [Lock!Next]_Lock!vars
    OBVIOUS
  <2>1. CASE Next /\ faults = {} /\ faults' = {}
    BY <2>1, LockStep DEF Lock!Next, Lock!GiveBack, Lock!Take, Lock!Lose, Lock!Lapse
  <2>2. CASE Next /\ faults = {} /\ faults' # {}
    BY <2>2 DEF Lock!Next, Lock!GiveBack, Lock!Lapse, Keepers
  <2>3. CASE Next /\ faults # {}
    BY <2>3, FaultsStay DEF Lock!vars
  <2>4. CASE UNCHANGED vars
    BY <2>4 DEF vars, Lock!vars, Holder, Keepers, Driving, GivenBack, ActiveLeases, Active, Indices
  <2> QED
    BY <2>1, <2>2, <2>3, <2>4
<1> QED
  BY <1>1, <1>2, LeaseInductive, PTL DEF Spec, ImplementsLock, Lock!Spec
================================================================================
