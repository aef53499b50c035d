-------------------------- MODULE EventJournalProofs --------------------------
(***************************************************************************)
(* EventJournal for any runs, kinds and number of emitters: an allocated   *)
(* sequence is still free at the append, events are immutable, and without *)
(* explicit sequences the journal is the log of EventLog.                  *)
(***************************************************************************)
EXTENDS EventJournal, SequenceTheorems, TLAPS

(* Only the holder of the mutex is between allocation and append. *)
MutexInv ==
  \A e \in Emitters : At(e, "appending") => eventMu = e

(* What a draft holds at each place. *)
DraftInv ==
  \A e \in Emitters :
    emit[e].pc # "idle" =>
      /\ emit[e].run \in Runs
      /\ emit[e].kind \in Kinds
      /\ emit[e].pc \in {"appending", "observing"} => emit[e].seq \in 1 .. MaxSeq
      /\ emit[e].pc = "locking" /\ ~emit[e].auto => emit[e].seq \in ExplicitSeqs

(* The journal of a run has a highest sequence. *)
IsMax(r, m) == m \in {0} \cup Sequences(r) /\ \A n \in Sequences(r) : n <= m
HasMax == \A r \in Runs : \E m \in Nat : IsMax(r, m)

JInv ==
  /\ JournalTypeOK
  /\ MutexInv
  /\ DraftInv
  /\ HasMax
  /\ AllocationStillFresh

LEMMA MaxIsMax ==
  ASSUME JournalTypeOK, HasMax, NEW r \in Runs
  PROVE  IsMax(r, MaxEventSequence(r)) /\ MaxEventSequence(r) \in Nat
<1>1. PICK m \in Nat : IsMax(r, m)
  BY DEF HasMax
<1>2. IsMax(r, MaxEventSequence(r))
  BY <1>1 DEF IsMax, MaxEventSequence
<1> QED
  BY <1>2 DEF IsMax, JournalTypeOK

LEMMA InitJInv == JournalInit => JInv
<1> SUFFICES ASSUME JournalInit PROVE JInv
  OBVIOUS
<1>1. \A r \in Runs : Sequences(r) = {} /\ journal[r] \in [{} -> Kinds]
  BY DEF JournalInit, Sequences
<1>2. JournalTypeOK
  BY <1>1, JournalAssumption DEF JournalInit, JournalTypeOK, NoDraft, Draft
<1>3. HasMax
  <2> SUFFICES ASSUME NEW r \in Runs PROVE IsMax(r, 0)
    BY DEF HasMax
  <2> QED
    BY <1>1 DEF IsMax
<1>4. MutexInv /\ DraftInv /\ AllocationStillFresh
  BY DEF JournalInit, MutexInv, DraftInv, AllocationStillFresh, At, NoDraft
<1> QED
  BY <1>2, <1>3, <1>4 DEF JInv

(* An emitter that does not allocate or append leaves the journal alone,   *)
(* and no draft of it is between the two afterwards.                       *)
LEMMA QuietStep ==
  ASSUME JInv, NEW e \in Emitters, journal' = journal, restarts' = restarts,
         NEW d \in Draft, emit' = [emit EXCEPT ![e] = d],
         d.pc # "appending",
         eventMu' = eventMu \/ (eventMu' = None /\ At(e, "appending")),
         d.pc # "idle" => /\ d.run \in Runs
                          /\ d.kind \in Kinds
                          /\ d.pc = "observing" => d.seq \in 1 .. MaxSeq
                          /\ d.pc = "locking" /\ ~d.auto => d.seq \in ExplicitSeqs
  PROVE  JInv'
<1>0. emit \in [Emitters -> Draft]
  BY DEF JInv, JournalTypeOK
<1>1. /\ emit' \in [Emitters -> Draft]
      /\ emit'[e] = d
      /\ \A f \in Emitters : f # e => emit'[f] = emit[f]
  BY <1>0
<1>2. \A r : Sequences(r)' = Sequences(r)
  BY DEF Sequences
<1>3. JournalTypeOK'
  BY <1>1, <1>2 DEF JInv, JournalTypeOK
<1>4. MutexInv'
  BY <1>1 DEF JInv, MutexInv, At
<1>5. DraftInv'
  BY <1>1 DEF JInv, DraftInv
<1>6. HasMax'
  BY <1>2 DEF JInv, HasMax, IsMax
<1>7. AllocationStillFresh'
  BY <1>1, <1>2 DEF JInv, AllocationStillFresh, At
<1> QED
  BY <1>3, <1>4, <1>5, <1>6, <1>7 DEF JInv

LEMMA BeginEmitStep ==
  ASSUME JInv, NEW e \in Emitters, NEW r \in Runs, NEW k \in Kinds,
         NEW s \in {0} \cup ExplicitSeqs, BeginEmit(e, r, k, s)
  PROVE  JInv'
<1> DEFINE d == [pc |-> "locking", run |-> r, kind |-> k, auto |-> s = 0, seq |-> s]
<1>1. d \in Draft
  BY JournalAssumption DEF Draft
<1>2. d.auto = (s = 0) /\ d.seq = s /\ d.pc = "locking" /\ d.run = r /\ d.kind = k
  OBVIOUS
<1>3. emit' = [emit EXCEPT ![e] = d] /\ UNCHANGED <<journal, eventMu, restarts>>
  BY DEF BeginEmit
<1> HIDE DEF d
<1> QED
  BY <1>1, <1>2, <1>3, QuietStep

LEMMA NoDraftType == NoDraft \in Draft /\ NoDraft.pc = "idle"
BY DEF NoDraft, Draft

LEMMA EndEmitStep ==
  ASSUME JInv, NEW e \in Emitters,
         AllocateFails(e) \/ EmitFails(e) \/ EmitReturns(e)
  PROVE  JInv'
BY NoDraftType, QuietStep DEF AllocateFails, EmitFails, EmitReturns

LEMMA AllocateStep ==
  ASSUME JInv, NEW e \in Emitters, Allocate(e)
  PROVE  JInv'
<1> DEFINE r == emit[e].run
           next == IF emit[e].auto THEN MaxEventSequence(r) + 1 ELSE emit[e].seq
<1>0. emit \in [Emitters -> Draft] /\ r \in Runs /\ At(e, "locking")
  BY DEF JInv, JournalTypeOK, DraftInv, Allocate, At
<1>1. /\ MaxEventSequence(r) \in Nat
      /\ \A n \in Sequences(r) : n <= MaxEventSequence(r)
  BY <1>0, MaxIsMax DEF JInv, IsMax
<1>2. next \in 1 .. MaxSeq
  BY <1>0, <1>1, JournalAssumption DEF JInv, DraftInv, Allocate, At, Draft
<1>3. /\ emit' \in [Emitters -> Draft]
      /\ emit'[e].pc = "appending" /\ emit'[e].seq = next
      /\ emit'[e].run = r /\ emit'[e].kind = emit[e].kind
      /\ emit'[e].auto = emit[e].auto
      /\ \A f \in Emitters : f # e => emit'[f] = emit[f]
  <2>1. emit' = [emit EXCEPT ![e].pc = "appending", ![e].seq = next]
    BY DEF Allocate
  <2>2. next \in Nat
    BY <1>2, JournalAssumption
  <2> HIDE DEF next
  <2> QED
    BY <1>0, <2>1, <2>2 DEF Draft
<1>4. journal' = journal /\ \A q : Sequences(q)' = Sequences(q)
  BY DEF Sequences, Allocate
<1>5. JournalTypeOK'
  BY <1>3, <1>4 DEF JInv, JournalTypeOK, Allocate
<1>6. MutexInv'
  BY <1>3, JournalAssumption DEF JInv, MutexInv, At, Allocate
<1>7. DraftInv'
  BY <1>0, <1>2, <1>3 DEF JInv, DraftInv, At
<1>8. HasMax'
  BY <1>4 DEF JInv, HasMax, IsMax
<1>9. AllocationStillFresh'
  <2> SUFFICES ASSUME NEW f \in Emitters, emit'[f].pc = "appending", emit'[f].auto,
                      NEW n \in DOMAIN journal'[emit'[f].run]
               PROVE  n < emit'[f].seq
    BY DEF AllocationStillFresh, At, Sequences
  <2>1. CASE f = e
    <3>1. n \in Sequences(r) /\ n \in Nat
      BY <1>0, <1>3, <1>4, <2>1 DEF JInv, JournalTypeOK, Sequences
    <3> QED
      BY <1>1, <1>3, <2>1, <3>1
  <2>2. CASE f # e
    BY <1>3, <1>4, <2>2 DEF JInv, AllocationStillFresh, At, Sequences
  <2> QED
    BY <2>1, <2>2
<1> QED
  BY <1>5, <1>6, <1>7, <1>8, <1>9 DEF JInv

LEMMA AppendStep ==
  ASSUME JInv, NEW e \in Emitters, AppendEvent(e)
  PROVE  JInv'
<1> DEFINE d == emit[e]
<1>0. /\ emit \in [Emitters -> Draft] /\ d \in Draft
      /\ d.run \in Runs /\ d.kind \in Kinds /\ d.seq \in 1 .. MaxSeq
      /\ d.pc = "appending" /\ eventMu = e
  BY DEF JInv, JournalTypeOK, DraftInv, MutexInv, AppendEvent, At
<1>1. /\ emit' \in [Emitters -> Draft]
      /\ emit'[e].pc = "observing" /\ emit'[e].seq = d.seq
      /\ emit'[e].run = d.run /\ emit'[e].kind = d.kind /\ emit'[e].auto = d.auto
      /\ \A f \in Emitters : f # e => emit'[f] = emit[f]
  <2>1. emit' = [emit EXCEPT ![e].pc = "observing"]
    BY DEF AppendEvent
  <2> QED
    BY <1>0, <2>1 DEF Draft
<1>2. /\ journal'[d.run] = [n \in Sequences(d.run) \cup {d.seq} |->
                              IF n = d.seq THEN d.kind ELSE journal[d.run][n]]
      /\ \A r \in Runs : r # d.run => journal'[r] = journal[r]
  BY <1>0 DEF AppendEvent, Sequences, JInv, JournalTypeOK
<1>3. \A r \in Runs :
        /\ r = d.run => Sequences(r)' = Sequences(r) \cup {d.seq}
        /\ r # d.run => Sequences(r)' = Sequences(r)
  BY <1>2 DEF Sequences
<1>4. JournalTypeOK'
  <2>1. \A r \in Runs : /\ Sequences(r)' \subseteq 1 .. MaxSeq
                        /\ journal'[r] \in [Sequences(r)' -> Kinds]
    BY <1>0, <1>2, <1>3 DEF JInv, JournalTypeOK, Sequences
  <2> QED
    BY <1>1, <2>1 DEF JInv, JournalTypeOK, AppendEvent
<1>5. \A f \in Emitters : ~(emit'[f].pc = "appending")
  BY <1>0, <1>1 DEF JInv, MutexInv, At
<1>6. MutexInv' /\ AllocationStillFresh'
  BY <1>5 DEF MutexInv, AllocationStillFresh, At
<1>7. DraftInv'
  BY <1>0, <1>1 DEF JInv, DraftInv
<1>8. HasMax'
  <2> SUFFICES ASSUME NEW r \in Runs PROVE \E m \in Nat : IsMax(r, m)'
    BY DEF HasMax
  <2>1. PICK m \in Nat : IsMax(r, m)
    BY DEF JInv, HasMax
  <2>2. CASE r # d.run
    BY <1>3, <2>1, <2>2 DEF IsMax
  <2>3. CASE r = d.run /\ d.seq >= m
    <3>1. \A n \in Sequences(r) : n <= d.seq
      BY <1>0, <2>1, <2>3 DEF IsMax, JInv, JournalTypeOK
    <3> QED
      BY <1>0, <1>3, <2>3, <3>1, JournalAssumption DEF IsMax
  <2>4. CASE r = d.run /\ ~(d.seq >= m)
    BY <1>0, <1>3, <2>1, <2>4 DEF IsMax
  <2> QED
    BY <2>2, <2>3, <2>4
<1> QED
  BY <1>4, <1>6, <1>7, <1>8 DEF JInv

LEMMA RestartStep ==
  ASSUME JInv, RestartJournal
  PROVE  JInv'
<1>1. \A r : Sequences(r)' = Sequences(r)
  BY DEF Sequences, RestartJournal
<1>2. \A e \in Emitters : emit'[e] = NoDraft
  BY DEF RestartJournal
<1>3. JournalTypeOK'
  BY <1>1, NoDraftType, JournalAssumption DEF JInv, JournalTypeOK, RestartJournal
<1>4. MutexInv' /\ DraftInv' /\ AllocationStillFresh'
  BY <1>2, NoDraftType DEF MutexInv, DraftInv, AllocationStillFresh, At
<1>5. HasMax'
  BY <1>1 DEF JInv, HasMax, IsMax
<1> QED
  BY <1>3, <1>4, <1>5 DEF JInv

LEMMA NextJInv == JInv /\ [Next]_journalVars => JInv'
<1> SUFFICES ASSUME JInv, [Next]_journalVars PROVE JInv'
  OBVIOUS
<1>1. ASSUME NEW e \in Emitters, EmitStep(e) PROVE JInv'
  BY <1>1, AllocateStep, AppendStep, EndEmitStep DEF EmitStep
<1>2. ASSUME NEW e \in Emitters,
             \E r \in Runs, k \in Kinds, s \in {0} \cup ExplicitSeqs : BeginEmit(e, r, k, s)
      PROVE JInv'
  BY <1>2, BeginEmitStep
<1>3. CASE RestartJournal
  BY <1>3, RestartStep
<1>4. CASE UNCHANGED journalVars
  BY <1>4 DEF journalVars, JInv, JournalTypeOK, MutexInv, DraftInv, HasMax, IsMax,
     AllocationStillFresh, At, Sequences
<1> QED
  BY <1>1, <1>2, <1>3, <1>4 DEF Next

THEOREM JournalInductive == Spec => []JInv
<1> QED
  BY InitJInv, NextJInv, PTL DEF Spec

(* Emit's locals and the journal keep their types.                         *)
THEOREM JournalTypeCorrect == Spec => []JournalTypeOK
BY JournalInductive, PTL DEF JInv

(* Between the allocation of a sequence and its append no emitter takes    *)
(* it: the mutex of Emit makes every automatic draft fit.                  *)
THEOREM AllocationFresh == Spec => []AllocationStillFresh
BY JournalInductive, PTL DEF JInv

LEMMA ImmutableStep ==
  ASSUME JInv, [Next]_journalVars, NEW r \in Runs, NEW n \in Sequences(r)
  PROVE  n \in Sequences(r)' /\ journal'[r][n] = journal[r][n]
<1>1. ASSUME NEW e \in Emitters, AppendEvent(e)
      PROVE  n \in Sequences(r)' /\ journal'[r][n] = journal[r][n]
  <2>1. journal' = [journal EXCEPT ![emit[e].run] =
                      [m \in DOMAIN @ \cup {emit[e].seq} |->
                        IF m = emit[e].seq THEN emit[e].kind ELSE @[m]]]
    BY <1>1 DEF AppendEvent
  <2>2. emit[e].seq \notin Sequences(emit[e].run)
    BY <1>1 DEF AppendEvent
  <2>3. CASE r # emit[e].run
    <3>1. journal'[r] = journal[r]
      BY <2>1, <2>3
    <3> QED
      BY <3>1 DEF Sequences
  <2>4. CASE r = emit[e].run /\ r \in DOMAIN journal
    <3>1. journal'[r] = [m \in Sequences(r) \cup {emit[e].seq} |->
                           IF m = emit[e].seq THEN emit[e].kind ELSE journal[r][m]]
      BY <2>1, <2>4 DEF Sequences
    <3> QED
      BY <2>2, <2>4, <3>1 DEF Sequences
  <2>5. CASE r \notin DOMAIN journal
    <3>1. journal'[r] = journal[r]
      BY <2>1, <2>5
    <3> QED
      BY <3>1 DEF Sequences
  <2> QED
    BY <2>3, <2>4, <2>5
<1>2. CASE journal' = journal
  BY <1>2 DEF Sequences
<1> QED
  BY <1>1, <1>2 DEF Next, EmitStep, BeginEmit, Allocate, AllocateFails, EmitFails,
     EmitReturns, RestartJournal, journalVars

(* No Emit, failed call or restart changes or removes an event.            *)
THEOREM Immutable == Spec => EventsAreImmutable
<1>1. JInv /\ [Next]_journalVars =>
        [\A r \in Runs : \A n \in Sequences(r) :
           n \in Sequences(r)' /\ journal'[r][n] = journal[r][n]]_journalVars
  BY ImmutableStep
<1> QED
  BY <1>1, JournalInductive, PTL DEF Spec, EventsAreImmutable

(***************************************************************************)
(* Without explicit sequences the journal is EventLog's log                *)
(***************************************************************************)
IsLog ==
  /\ \A r \in Runs : journal[r] \in Seq(Kinds)
  /\ \A e \in Emitters :
       /\ ~At(e, "idle") => emit[e].auto
       /\ At(e, "appending") => emit[e].seq = Len(journal[emit[e].run]) + 1

LEMMA MaxOfLog ==
  ASSUME JInv, NEW r \in Runs, journal[r] \in Seq(Kinds)
  PROVE  MaxEventSequence(r) = Len(journal[r])
<1>1. IsMax(r, MaxEventSequence(r)) /\ MaxEventSequence(r) \in Nat
  BY MaxIsMax DEF JInv
<1>2. Sequences(r) = 1 .. Len(journal[r]) /\ Len(journal[r]) \in Nat
  BY DEF Sequences
<1>3. CASE Len(journal[r]) = 0
  BY <1>1, <1>2, <1>3 DEF IsMax
<1>4. CASE Len(journal[r]) > 0
  <2>1. Len(journal[r]) \in Sequences(r)
    BY <1>2, <1>4
  <2> QED
    BY <1>1, <1>2, <2>1 DEF IsMax
<1> QED
  BY <1>2, <1>3, <1>4

LEMMA AppendIsAppend ==
  ASSUME NEW S, NEW s \in Seq(S), NEW x \in S
  PROVE  [n \in DOMAIN s \cup {Len(s) + 1} |-> IF n = Len(s) + 1 THEN x ELSE s[n]]
           = Append(s, x)
<1> DEFINE t == [n \in DOMAIN s \cup {Len(s) + 1} |->
                  IF n = Len(s) + 1 THEN x ELSE s[n]]
           N == Len(s) + 1
<1>1. Len(s) \in Nat /\ DOMAIN s = 1 .. Len(s)
  OBVIOUS
<1>2. 1 .. Len(s) \cup {N} = 1 .. N
  BY <1>1
<1>3. t = [n \in 1 .. N |-> IF n = N THEN x ELSE s[n]]
  BY <1>1, <1>2
<1>4. Append(s, x) = [n \in 1 .. N |-> IF n = N THEN x ELSE s[n]]
  <2>1. /\ Append(s, x) \in Seq(S) /\ Len(Append(s, x)) = N
        /\ \A i \in 1 .. Len(s) : Append(s, x)[i] = s[i]
        /\ Append(s, x)[N] = x
    BY AppendProperties
  <2>2. Append(s, x) = [n \in 1 .. N |-> Append(s, x)[n]]
    BY <2>1, LenProperties
  <2>3. \A n \in 1 .. N : Append(s, x)[n] = IF n = N THEN x ELSE s[n]
    BY <1>1, <2>1
  <2> QED
    BY <2>2, <2>3
<1> QED
  BY <1>3, <1>4

LEMMA InitIsLog == JournalInit => IsLog /\ Log!Init
<1> SUFFICES ASSUME JournalInit PROVE IsLog /\ Log!Init
  OBVIOUS
<1>1. [n \in {} |-> None] = <<>>
  OBVIOUS
<1>2. journal = [r \in Runs |-> <<>>]
  BY <1>1 DEF JournalInit
<1> QED
  BY <1>2 DEF JournalInit, IsLog, Log!Init, At, NoDraft

LEMMA LogStep ==
  ASSUME ExplicitSeqs = {}, JInv, IsLog, [Next]_journalVars
  PROVE  IsLog' /\ [Log!Next]_journal
<1>0. emit \in [Emitters -> Draft]
  BY DEF JInv, JournalTypeOK
<1>1. ASSUME NEW e \in Emitters, AppendEvent(e)
      PROVE  IsLog' /\ Log!Next
  <2> DEFINE d == emit[e]
  <2>1. /\ d.run \in Runs /\ d.kind \in Kinds /\ d.seq = Len(journal[d.run]) + 1
        /\ \A f \in Emitters : f # e => ~At(f, "appending")
    BY <1>1 DEF AppendEvent, At, JInv, DraftInv, MutexInv, IsLog
  <2>2. journal' = [journal EXCEPT ![d.run] = Append(@, d.kind)]
    <3>1. journal' = [journal EXCEPT ![d.run] =
                        [n \in DOMAIN journal[d.run] \cup {d.seq} |->
                          IF n = d.seq THEN d.kind ELSE journal[d.run][n]]]
      BY <1>1 DEF AppendEvent
    <3>2. journal[d.run] \in Seq(Kinds)
      BY <2>1 DEF IsLog
    <3>3. [n \in DOMAIN journal[d.run] \cup {d.seq} |->
             IF n = d.seq THEN d.kind ELSE journal[d.run][n]]
           = Append(journal[d.run], d.kind)
      BY <2>1, <3>2, AppendIsAppend
    <3> QED
      BY <3>1, <3>3
  <2>3. Log!AddEvent(d.run, d.kind)
    BY <2>2 DEF Log!AddEvent
  <2>4. \A r \in Runs : journal'[r] \in Seq(Kinds)
    BY <2>1, <2>2 DEF IsLog, JInv, JournalTypeOK
  <2>5. /\ emit'[e].pc = "observing" /\ emit'[e].auto = d.auto
        /\ \A f \in Emitters : f # e => emit'[f] = emit[f]
    <3>1. emit' = [emit EXCEPT ![e].pc = "observing"]
      BY <1>1 DEF AppendEvent
    <3> QED
      BY <1>0, <3>1 DEF Draft
  <2>6. d.auto
    BY <1>1 DEF AppendEvent, At, IsLog
  <2>7. IsLog'
    BY <2>1, <2>4, <2>5, <2>6 DEF IsLog, At
  <2> QED
    BY <2>1, <2>3, <2>7 DEF Log!Next
<1>2. ASSUME NEW e \in Emitters, Allocate(e)
      PROVE  IsLog' /\ journal' = journal
  <2>1. emit[e].run \in Runs /\ emit[e].auto
    BY <1>2 DEF Allocate, At, JInv, DraftInv, IsLog
  <2>2. emit' = [emit EXCEPT ![e].pc = "appending",
                             ![e].seq = Len(journal[emit[e].run]) + 1]
    BY <1>2, <2>1, MaxOfLog DEF Allocate, IsLog
  <2>3. /\ emit'[e].seq = Len(journal[emit[e].run]) + 1
        /\ emit'[e].run = emit[e].run /\ emit'[e].auto = emit[e].auto
        /\ \A f \in Emitters : f # e => emit'[f] = emit[f]
    BY <1>0, <2>2 DEF Draft
  <2> QED
    BY <1>2, <2>1, <2>3 DEF IsLog, At, Allocate
<1>3. ASSUME NEW e \in Emitters, NEW r \in Runs, NEW k \in Kinds,
             NEW s \in {0} \cup ExplicitSeqs, BeginEmit(e, r, k, s)
      PROVE  IsLog' /\ journal' = journal
  <2>1. /\ emit'[e].pc = "locking" /\ emit'[e].auto
        /\ \A f \in Emitters : f # e => emit'[f] = emit[f]
    BY <1>0, <1>3 DEF BeginEmit
  <2> QED
    BY <1>3, <2>1 DEF IsLog, At, BeginEmit
<1>4. ASSUME NEW e \in Emitters, AllocateFails(e) \/ EmitFails(e) \/ EmitReturns(e)
      PROVE  IsLog' /\ journal' = journal
  <2>1. /\ emit'[e].pc = "idle" /\ journal' = journal
        /\ \A f \in Emitters : f # e => emit'[f] = emit[f]
    BY <1>0, <1>4 DEF AllocateFails, EmitFails, EmitReturns, NoDraft
  <2> QED
    BY <2>1 DEF IsLog, At
<1>5. CASE RestartJournal
  BY <1>5 DEF RestartJournal, NoDraft, IsLog, At
<1>6. CASE UNCHANGED journalVars
  BY <1>6 DEF journalVars, IsLog, At
<1> QED
  BY <1>1, <1>2, <1>3, <1>4, <1>5, <1>6 DEF Next, EmitStep

(* When no draft carries a sequence, which is how the runtime itself       *)
(* emits, concurrent Emit calls implement EventLog: the journal of every   *)
(* run is contiguous from 1 and only grows at its end.                     *)
THEOREM RefinesLog ==
  ASSUME ExplicitSeqs = {}
  PROVE  Spec => ImplementsLog
<1>1. JournalInit => IsLog /\ Log!Init
  BY InitIsLog
<1>2. IsLog /\ JInv /\ [Next]_journalVars => IsLog' /\ [Log!Next]_journal
  BY LogStep
<1> QED
  BY <1>1, <1>2, JournalInductive, PTL DEF Spec, ImplementsLog, Log!Spec
================================================================================
