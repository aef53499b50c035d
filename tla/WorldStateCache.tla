---------------------------- MODULE WorldStateCache ----------------------------
(***************************************************************************)
(* WorldState queries and the cache behind them, beside concurrent Emit    *)
(* calls.  The owner of the runtime makes one query at a time; Emit is     *)
(* safe from any goroutine and tells the cache of an event after the event *)
(* is in the journal and the mutex is free.                                *)
(***************************************************************************)
EXTENDS EventJournal

CONSTANT Relevant  \* the projection-relevant event kinds

ASSUME CacheAssumption == Relevant \subseteq Kinds

VARIABLES
  projSeq,   \* projSeq[r]: the highest relevant sequence observed
  entries,   \* entries[r]: the cached snapshot and its upToProjSeq
  query,     \* the query in progress
  raced      \* history: raced[r], the sequences appended during a fill

cacheVars == <<projSeq, entries, query, raced>>
vars == <<journalVars, cacheVars>>

(* What buildWorldStateSnapshot derives from: the relevant events. *)
RelevantSeqs(r) == {n \in Sequences(r) : journal[r][n] \in Relevant}

NoEntry == [snapshot |-> {}, upToProjSeq |-> 0, cached |-> FALSE]
NoQuery == [pc |-> "idle", run |-> None, seen |-> 0, snapshot |-> {}, must |-> {}]

Quiet == \A e \in Emitters : At(e, "idle")
InQuery(pc) == query.pc = pc

CacheInit ==
  /\ projSeq = [r \in Runs |-> 0]
  /\ entries = [r \in Runs |-> NoEntry]
  /\ query = NoQuery
  /\ raced = [r \in Runs |-> {}]

Init == JournalInit /\ CacheInit

(***************************************************************************)
(* Emit, with the cache                                                    *)
(***************************************************************************)
Emit(e, r, k, s) ==
  /\ BeginEmit(e, r, k, s)
  /\ UNCHANGED cacheVars

(* A fill that has listed the events of r and not yet stored its snapshot. *)
Filling(r) == query.run = r /\ query.pc \in {"stamping", "storing"}

(* An event appended now is not in the snapshot of a fill under way.       *)
AppendToJournal(e) ==
  LET d == emit[e] IN
  /\ AppendEvent(e)
  /\ raced' = [raced EXCEPT ![d.run] =
                 IF Filling(d.run) THEN @ \cup {d.seq} ELSE @]
  /\ UNCHANGED <<projSeq, entries, query>>

(* Variant: every event observed is the watermark, a lower one too.        *)
ObserveLatest(e) ==
  LET d == emit[e] IN
  /\ EmitReturns(e)
  /\ projSeq' = [projSeq EXCEPT ![d.run] = IF d.kind \in Relevant THEN d.seq ELSE @]
  /\ UNCHANGED <<entries, query, raced>>

(* observeEvent: only a relevant kind, and only upwards.                   *)
ObserveEvent(e) ==
  LET d == emit[e] IN
  /\ EmitReturns(e)
  /\ projSeq' = [projSeq EXCEPT ![d.run] =
                   IF d.kind \in Relevant /\ d.seq > @ THEN d.seq ELSE @]
  /\ UNCHANGED <<entries, query, raced>>

OtherEmitStep(e) ==
  /\ Allocate(e) \/ AllocateFails(e) \/ EmitFails(e)
  /\ UNCHANGED cacheVars

(***************************************************************************)
(* WorldState                                                              *)
(***************************************************************************)

(* currentProjSeq, the first half of get.  "must" is a history: the        *)
(* relevant events whose Emit returned before the query began.             *)
BeginQuery(r) ==
  /\ InQuery("idle")
  /\ query' = [pc |-> "looking", run |-> r, seen |-> projSeq[r],
               snapshot |-> {},
               must |-> {n \in RelevantSeqs(r) :
                           ~\E e \in Emitters : At(e, "observing")
                                 /\ emit[e].run = r /\ emit[e].seq = n}]
  /\ UNCHANGED <<journalVars, projSeq, entries, raced>>

(* Variant: a present entry is served, however old.                        *)
LookupIgnoringWatermark ==
  LET entry == entries[query.run] IN
  /\ InQuery("looking")
  /\ IF entry.cached
       THEN query' = [query EXCEPT !.pc = "answering", !.snapshot = entry.snapshot]
       ELSE query' = [query EXCEPT !.pc = "listing"]
  /\ UNCHANGED <<journalVars, projSeq, entries, raced>>

(* The second half of get: an entry as fresh as the watermark that was read. *)
Lookup ==
  LET entry == entries[query.run] IN
  /\ InQuery("looking")
  /\ IF entry.cached /\ entry.upToProjSeq >= query.seen
       THEN query' = [query EXCEPT !.pc = "answering", !.snapshot = entry.snapshot]
       ELSE query' = [query EXCEPT !.pc = "listing"]
  /\ UNCHANGED <<journalVars, projSeq, entries, raced>>

(* ListEvents, and the snapshot built from what it returned.               *)
ListAndBuild ==
  /\ InQuery("listing")
  /\ query' = [query EXCEPT !.pc = "stamping", !.snapshot = RelevantSeqs(query.run)]
  /\ UNCHANGED <<journalVars, projSeq, entries, raced>>

(* put reads the watermark the run has now, not the one it had then.       *)
StampEntry ==
  /\ InQuery("stamping")
  /\ query' = [query EXCEPT !.pc = "storing", !.seen = projSeq[query.run]]
  /\ UNCHANGED <<journalVars, projSeq, entries, raced>>

StoreEntry ==
  /\ InQuery("storing")
  /\ entries' = [entries EXCEPT ![query.run] =
                   [snapshot |-> query.snapshot, upToProjSeq |-> query.seen,
                    cached |-> TRUE]]
  /\ query' = [query EXCEPT !.pc = "answering"]
  /\ UNCHANGED <<journalVars, projSeq, raced>>

(* WorldState returns its snapshot, or ListEvents failed.                  *)
EndQuery ==
  /\ query.pc \in {"answering", "listing"}
  /\ query' = NoQuery
  /\ UNCHANGED <<journalVars, projSeq, entries, raced>>

(* The cache lives in memory. *)
Restart ==
  /\ RestartJournal
  /\ projSeq' = [r \in Runs |-> 0]
  /\ entries' = [r \in Runs |-> NoEntry]
  /\ query' = NoQuery
  /\ UNCHANGED raced

QueryStep ==
  Lookup \/ ListAndBuild \/ StampEntry \/ StoreEntry \/ EndQuery

CacheNext ==
  \/ \E e \in Emitters :
       \/ \E r \in Runs, k \in Kinds, s \in {0} \cup ExplicitSeqs : Emit(e, r, k, s)
       \/ AppendToJournal(e) \/ ObserveEvent(e) \/ OtherEmitStep(e)
  \/ \E r \in Runs : BeginQuery(r)
  \/ QueryStep
  \/ Restart

CacheSpec == Init /\ [][CacheNext]_vars

(***************************************************************************)
(* Properties                                                              *)
(***************************************************************************)
(* The cache's two maps and the local values of a query. *)
CacheTypeOK ==
  /\ JournalTypeOK
  /\ projSeq \in [Runs -> 0 .. MaxSeq]
  /\ entries \in [Runs -> [snapshot : SUBSET (1 .. MaxSeq), upToProjSeq : 0 .. MaxSeq,
                           cached : BOOLEAN]]
  /\ query \in [pc : {"idle", "looking", "listing", "stamping", "storing",
                      "answering"},
                run : Runs \cup {None}, seen : 0 .. MaxSeq,
                snapshot : SUBSET (1 .. MaxSeq), must : SUBSET (1 .. MaxSeq)]
  /\ raced \in [Runs -> SUBSET (1 .. MaxSeq)]

(* A query answers with every relevant event whose Emit had returned when  *)
(* it began.  It fails only for an event that was appended while an        *)
(* earlier query was between its ListEvents and its put.                   *)
AnswerMissesOnlyRaced ==
  InQuery("answering") =>
    query.must \subseteq query.snapshot \cup raced[query.run]

(* When no Emit is in progress, the watermark is the highest relevant      *)
(* sequence of the journal (of this process): no order in which concurrent *)
(* Emits append and then tell the cache leaves it behind or takes it back. *)
WatermarkExactWhenQuiet ==
  restarts = 0 /\ Quiet => \A r \in Runs :
    /\ \A n \in RelevantSeqs(r) : n <= projSeq[r]
    /\ projSeq[r] \in {0} \cup RelevantSeqs(r)

(* README: WorldState is always consistent with the journal.  A query      *)
(* answers with every relevant event whose Emit had returned before.       *)
WorldStateConsistentWithJournal ==
  InQuery("answering") => query.must \subseteq query.snapshot

================================================================================
