----------------------------- MODULE EventJournal -----------------------------
(***************************************************************************)
(* Runtime.Emit, called from several goroutines at once: the mutex around  *)
(* the allocation of a sequence and the append, and the store with its     *)
(* unique index on (run_id, sequence), which may refuse any write.  A      *)
(* draft may carry a sequence of its own.                                  *)
(***************************************************************************)
EXTENDS Naturals

CONSTANTS
  Runs,          \* runs with a record, which ensureRunExists accepts
  Emitters,      \* calls of Emit in progress at once
  Kinds,         \* event kinds
  ExplicitSeqs,  \* sequences a host may put in a draft of its own
  MaxSeq,        \* bound on the sequences of a run
  MaxRestarts    \* bound on restarts of the process

None == "none"

ASSUME JournalAssumption ==
  /\ ExplicitSeqs \subseteq Nat \ {0}
  /\ None \notin Emitters
  /\ MaxSeq \in Nat
  /\ MaxRestarts \in Nat

VARIABLES
  journal,   \* journal[r]: the kind of each sequence in run r's journal
  eventMu,   \* the emitter that holds the mutex, or None
  emit,      \* emit[e]: where the call is, and its draft
  restarts

journalVars == <<journal, eventMu, emit, restarts>>

Sequences(r) == DOMAIN journal[r]

(* COALESCE(MAX(sequence), 0) *)
MaxEventSequence(r) ==
  CHOOSE m \in {0} \cup Sequences(r) : \A n \in Sequences(r) : n <= m

NoDraft == [pc |-> "idle", run |-> None, kind |-> None, auto |-> FALSE, seq |-> 0]

JournalInit ==
  /\ journal = [r \in Runs |-> [n \in {} |-> None]]
  /\ eventMu = None
  /\ emit = [e \in Emitters |-> NoDraft]
  /\ restarts = 0

At(e, pc) == emit[e].pc = pc

(* The draft is checked; Lock is still to come. *)
BeginEmit(e, r, k, s) ==
  /\ At(e, "idle")
  /\ emit' = [emit EXCEPT ![e] = [pc |-> "locking", run |-> r, kind |-> k,
                                  auto |-> s = 0, seq |-> s]]
  /\ UNCHANGED <<journal, eventMu, restarts>>

(* Variant: the mutex is not there. *)
AllocateUnlocked(e) ==
  LET r == emit[e].run
      next == IF emit[e].auto THEN MaxEventSequence(r) + 1 ELSE emit[e].seq
  IN
  /\ At(e, "locking")
  /\ next <= MaxSeq
  /\ emit' = [emit EXCEPT ![e].pc = "appending", ![e].seq = next]
  /\ UNCHANGED <<journal, eventMu, restarts>>

(* Variant: the sequence allocated is the last one taken. *)
AllocateAtMax(e) ==
  LET r == emit[e].run
      next == IF emit[e].auto THEN MaxEventSequence(r) ELSE emit[e].seq
  IN
  /\ At(e, "locking")
  /\ eventMu = None
  /\ next <= MaxSeq
  /\ eventMu' = e
  /\ emit' = [emit EXCEPT ![e].pc = "appending", ![e].seq = next]
  /\ UNCHANGED <<journal, restarts>>

(* Lock, then MaxEventSequence + 1 unless the draft has a sequence. *)
Allocate(e) ==
  LET r == emit[e].run
      next == IF emit[e].auto THEN MaxEventSequence(r) + 1 ELSE emit[e].seq
  IN
  /\ At(e, "locking")
  /\ eventMu = None
  /\ next <= MaxSeq
  /\ eventMu' = e
  /\ emit' = [emit EXCEPT ![e].pc = "appending", ![e].seq = next]
  /\ UNCHANGED <<journal, restarts>>

(* The store refuses MaxEventSequence: lock, unlock, return the error.  An *)
(* emitter that reaches the bound MaxSeq leaves this way.                  *)
AllocateFails(e) ==
  /\ At(e, "locking")
  /\ eventMu = None
  /\ emit' = [emit EXCEPT ![e] = NoDraft]
  /\ UNCHANGED <<journal, eventMu, restarts>>

(* AppendRuntimeEvent inserts, and Unlock. *)
AppendEvent(e) ==
  LET d == emit[e] IN
  /\ At(e, "appending")
  /\ d.seq \notin Sequences(d.run)
  /\ journal' = [journal EXCEPT ![d.run] =
                   [n \in DOMAIN @ \cup {d.seq} |->
                     IF n = d.seq THEN d.kind ELSE @[n]]]
  /\ eventMu' = None
  /\ emit' = [emit EXCEPT ![e].pc = "observing"]
  /\ UNCHANGED restarts

(* Variant: the error return forgets to unlock. *)
EmitFailsLocked(e) ==
  /\ At(e, "appending")
  /\ emit' = [emit EXCEPT ![e] = NoDraft]
  /\ UNCHANGED <<journal, eventMu, restarts>>

(* The store refuses the insert (a cancelled context, a taken sequence or  *)
(* event id): unlock and return the error.                                 *)
EmitFails(e) ==
  /\ At(e, "appending")
  /\ eventMu' = None
  /\ emit' = [emit EXCEPT ![e] = NoDraft]
  /\ UNCHANGED <<journal, restarts>>

(* The bus and the WorldState cache are told after Unlock; Emit returns.   *)
EmitReturns(e) ==
  /\ At(e, "observing")
  /\ emit' = [emit EXCEPT ![e] = NoDraft]
  /\ UNCHANGED <<journal, eventMu, restarts>>

(* The process ends and another Runtime opens the store. *)
RestartJournal ==
  /\ restarts < MaxRestarts
  /\ restarts' = restarts + 1
  /\ eventMu' = None
  /\ emit' = [e \in Emitters |-> NoDraft]
  /\ UNCHANGED journal

EmitStep(e) ==
  \/ Allocate(e) \/ AllocateFails(e)
  \/ AppendEvent(e) \/ EmitFails(e) \/ EmitReturns(e)

Next ==
  \/ \E e \in Emitters :
       \/ \E r \in Runs, k \in Kinds, s \in {0} \cup ExplicitSeqs : BeginEmit(e, r, k, s)
       \/ EmitStep(e)
  \/ RestartJournal

Spec == JournalInit /\ [][Next]_journalVars

(* sync.Mutex lets a waiter in after bounded bypassing. *)
FairSpec ==
  /\ Spec
  /\ \A e \in Emitters : SF_journalVars(EmitStep(e))

(***************************************************************************)
(* Properties                                                              *)
(***************************************************************************)
Draft ==
  [pc : {"idle", "locking", "appending", "observing"}, run : Runs \cup {None},
   kind : Kinds \cup {None}, auto : BOOLEAN, seq : Nat]

(* The journal maps sequences of each run to kinds; Emit's locals.         *)
JournalTypeOK ==
  /\ DOMAIN journal = Runs
  /\ \A r \in Runs : /\ Sequences(r) \subseteq 1 .. MaxSeq
                     /\ journal[r] \in [Sequences(r) -> Kinds]
  /\ eventMu \in Emitters \cup {None}
  /\ emit \in [Emitters -> Draft]
  /\ restarts \in 0 .. MaxRestarts

(* A sequence that Emit allocated is free when it is appended: between     *)
(* MaxEventSequence and the insert no other emitter has appended, so the   *)
(* unique index never refuses an automatic draft.                          *)
AllocationStillFresh ==
  \A e \in Emitters : At(e, "appending") /\ emit[e].auto =>
    \A n \in Sequences(emit[e].run) : n < emit[e].seq

(* An event, once in the journal, keeps its sequence and its kind, across  *)
(* failed calls and restarts.                                              *)
EventsAreImmutable ==
  [][\A r \in Runs : \A n \in Sequences(r) :
       n \in Sequences(r)' /\ journal'[r][n] = journal[r][n]]_journalVars

(* Without drafts that carry a sequence, the journal of each run is the    *)
(* log of EventLog: contiguous from 1, and only ever added to at the end.  *)
Log == INSTANCE EventLog WITH log <- journal

ImplementsLog == Log!Spec

(* Every Emit returns, with an envelope or an error, whoever else emits.   *)
EmitTerminates ==
  \A e \in Emitters : At(e, "locking") ~> At(e, "idle")

================================================================================
