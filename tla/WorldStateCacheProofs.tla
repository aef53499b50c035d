------------------------- MODULE WorldStateCacheProofs -------------------------
(***************************************************************************)
(* WorldStateCache for any runs, kinds and number of emitters: the         *)
(* watermark is exact between Emits, and a query misses only the events    *)
(* appended while an earlier query was filling the cache.                  *)
(***************************************************************************)
EXTENDS WorldStateCache, EventJournalProofs

(* Emitter e has appended event n of run r and not yet told the cache. *)
Telling(e, r, n) == At(e, "observing") /\ emit[e].run = r /\ emit[e].seq = n

(* The watermark is past the event, or will be when its Emit returns. *)
Told(r, n) == n <= projSeq[r] \/ \E e \in Emitters : Telling(e, r, n)

WatermarkInv == \A r \in Runs : projSeq[r] \in {0} \cup RelevantSeqs(r)

TellingInv ==
  \A e \in Emitters : At(e, "observing") =>
    /\ emit[e].seq \in Sequences(emit[e].run)
    /\ journal[emit[e].run][emit[e].seq] = emit[e].kind

ToldInv == restarts = 0 => \A r \in Runs : \A n \in RelevantSeqs(r) : Told(r, n)

QueryRunInv == query.pc # "idle" => query.run \in Runs

CInv ==
  /\ CacheTypeOK
  /\ WatermarkInv
  /\ TellingInv
  /\ ToldInv
  /\ QueryRunInv

(* What an entry, or the answer of a fill, may be missing. *)
EntryInv ==
  \A r \in Runs : entries[r].cached =>
    /\ entries[r].upToProjSeq \in {0} \cup Sequences(r)
    /\ \A n \in RelevantSeqs(r) :
         \/ n \in entries[r].snapshot \cup raced[r]
         \/ n > entries[r].upToProjSeq /\ Told(r, n)

MustInv == query.pc # "idle" => query.must \subseteq RelevantSeqs(query.run)

LookingInv ==
  InQuery("looking") /\ entries[query.run].cached =>
    \A n \in query.must :
      \/ n \in entries[query.run].snapshot \cup raced[query.run]
      \/ n > entries[query.run].upToProjSeq /\ n <= query.seen

FillInv ==
  query.pc \in {"stamping", "storing"} =>
    /\ query.must \subseteq query.snapshot
    /\ RelevantSeqs(query.run) \subseteq query.snapshot \cup raced[query.run]
    /\ InQuery("storing") => query.seen \in {0} \cup Sequences(query.run)

FreshInv ==
  /\ EntryInv
  /\ MustInv
  /\ LookingInv
  /\ FillInv
  /\ AnswerMissesOnlyRaced

(***************************************************************************)
(* A step of the cache is a step of the journal                            *)
(***************************************************************************)
LEMMA CacheJournalStep == [CacheNext]_vars => [Next]_journalVars
BY DEF CacheNext, Next, EmitStep, Emit, AppendToJournal, ObserveEvent, OtherEmitStep,
   BeginQuery, QueryStep, Lookup, ListAndBuild, StampEntry, StoreEntry, EndQuery,
   Restart, vars, journalVars

THEOREM CacheJournal == CacheSpec => Spec
<1>1. Init => JournalInit
  BY DEF Init
<1> QED
  BY <1>1, CacheJournalStep, PTL DEF CacheSpec, Spec

LEMMA CacheJInv == CacheSpec => []JInv
BY CacheJournal, JournalInductive, PTL

(***************************************************************************)
(* CInv is inductive                                                       *)
(***************************************************************************)
LEMMA InitCInv == Init => CInv
<1> SUFFICES ASSUME Init PROVE CInv
  OBVIOUS
<1>0. JournalTypeOK
  BY InitJInv DEF Init, JInv
<1>1. \A r \in Runs : Sequences(r) = {} /\ RelevantSeqs(r) = {}
  BY DEF Init, JournalInit, Sequences, RelevantSeqs
<1>2. CacheTypeOK
  BY <1>0, JournalAssumption DEF Init, CacheInit, CacheTypeOK, NoEntry, NoQuery
<1>3. WatermarkInv /\ ToldInv /\ QueryRunInv
  BY <1>1 DEF Init, CacheInit, WatermarkInv, ToldInv, QueryRunInv, NoQuery
<1>4. TellingInv
  BY DEF Init, JournalInit, TellingInv, At, NoDraft
<1> QED
  BY <1>2, <1>3, <1>4 DEF CInv

(* Emitters that are not telling the cache come and go. *)
Silent ==
  /\ UNCHANGED <<journal, restarts, cacheVars>>
  /\ \A e \in Emitters :
       emit[e].pc = "observing" \/ emit'[e].pc = "observing" => emit'[e] = emit[e]

LEMMA SilentEmitSteps ==
  ASSUME JInv, NEW e \in Emitters,
         OtherEmitStep(e)
           \/ \E r \in Runs, k \in Kinds, s \in {0} \cup ExplicitSeqs : Emit(e, r, k, s)
  PROVE  Silent
<1>0. emit \in [Emitters -> Draft]
  BY DEF JInv, JournalTypeOK
<1>1. UNCHANGED <<journal, restarts, cacheVars>>
  BY DEF OtherEmitStep, Emit, Allocate, AllocateFails, EmitFails, BeginEmit
<1>2. /\ emit[e].pc # "observing" /\ emit'[e].pc # "observing"
      /\ \A f \in Emitters : f # e => emit'[f] = emit[f]
  <2>1. CASE Allocate(e)
    BY <1>0, <2>1 DEF Allocate, At, Draft
  <2>2. CASE AllocateFails(e) \/ EmitFails(e)
    BY <1>0, <2>2 DEF AllocateFails, EmitFails, At, NoDraft
  <2>3. ASSUME NEW r \in Runs, NEW k \in Kinds, NEW s \in {0} \cup ExplicitSeqs,
               Emit(e, r, k, s)
        PROVE  /\ emit[e].pc # "observing" /\ emit'[e].pc # "observing"
               /\ \A f \in Emitters : f # e => emit'[f] = emit[f]
    BY <1>0, <2>3 DEF Emit, BeginEmit, At
  <2> QED
    BY <1>0, <2>1, <2>2, <2>3 DEF OtherEmitStep, Emit, BeginEmit, At
<1> QED
  BY <1>1, <1>2 DEF Silent

LEMMA SilentFrame ==
  ASSUME Silent
  PROVE  /\ \A r : RelevantSeqs(r)' = RelevantSeqs(r) /\ Sequences(r)' = Sequences(r)
         /\ \A r, n : Told(r, n)' <=> Told(r, n)
         /\ UNCHANGED <<projSeq, entries, query, raced, journal, restarts>>
<1>1. UNCHANGED <<projSeq, entries, query, raced, journal, restarts>>
  BY DEF Silent, cacheVars
<1>2. \A r : RelevantSeqs(r)' = RelevantSeqs(r) /\ Sequences(r)' = Sequences(r)
  BY <1>1 DEF RelevantSeqs, Sequences
<1>3. \A r, n : \A e \in Emitters : Telling(e, r, n)' <=> Telling(e, r, n)
  BY DEF Telling, At, Silent
<1> QED
  BY <1>1, <1>2, <1>3 DEF Told

LEMMA SilentCInv ==
  ASSUME CInv, JInv', Silent
  PROVE  CInv'
<1>1. CacheTypeOK'
  BY SilentFrame DEF CInv, CacheTypeOK, JInv
<1>2. WatermarkInv' /\ ToldInv' /\ QueryRunInv'
  BY SilentFrame DEF CInv, WatermarkInv, ToldInv, QueryRunInv
<1>3. TellingInv'
  BY SilentFrame DEF CInv, TellingInv, At, Silent
<1> QED
  BY <1>1, <1>2, <1>3 DEF CInv

(* What an append changes, in the terms of the invariants. *)
LEMMA AppendFrame ==
  ASSUME JInv, NEW e \in Emitters, AppendToJournal(e)
  PROVE  /\ emit[e].run \in Runs /\ emit[e].seq \in 1 .. MaxSeq
         /\ emit[e].seq \notin Sequences(emit[e].run)
         /\ restarts' = restarts
         /\ \A r \in Runs :
              /\ Sequences(r)' = Sequences(r) \cup
                   (IF r = emit[e].run THEN {emit[e].seq} ELSE {})
              /\ RelevantSeqs(r)' = RelevantSeqs(r) \cup
                   (IF r = emit[e].run /\ emit[e].kind \in Relevant
                      THEN {emit[e].seq} ELSE {})
              /\ \A n \in Sequences(r) : journal'[r][n] = journal[r][n]
         /\ journal'[emit[e].run][emit[e].seq] = emit[e].kind
         /\ emit'[e].pc = "observing"
         /\ emit'[e].run = emit[e].run /\ emit'[e].seq = emit[e].seq
         /\ emit'[e].kind = emit[e].kind
         /\ \A f \in Emitters : f # e => emit'[f] = emit[f]
         /\ ~At(e, "observing")
<1> DEFINE d == emit[e]
<1>0. /\ emit \in [Emitters -> Draft] /\ d \in Draft
      /\ d.run \in Runs /\ d.seq \in 1 .. MaxSeq /\ d.pc = "appending"
      /\ d.seq \notin Sequences(d.run)
  BY DEF JInv, JournalTypeOK, DraftInv, AppendToJournal, AppendEvent, At
<1>1. /\ emit'[e].pc = "observing"
      /\ emit'[e].run = d.run /\ emit'[e].seq = d.seq /\ emit'[e].kind = d.kind
      /\ \A f \in Emitters : f # e => emit'[f] = emit[f]
  <2>1. emit' = [emit EXCEPT ![e].pc = "observing"]
    BY DEF AppendToJournal, AppendEvent
  <2> QED
    BY <1>0, <2>1 DEF Draft
<1>2. /\ journal'[d.run] = [n \in Sequences(d.run) \cup {d.seq} |->
                              IF n = d.seq THEN d.kind ELSE journal[d.run][n]]
      /\ \A r \in Runs : r # d.run => journal'[r] = journal[r]
  BY <1>0 DEF AppendToJournal, AppendEvent, Sequences, JInv, JournalTypeOK
<1>3. journal'[d.run][d.seq] = d.kind
  BY <1>2
<1>4. ASSUME NEW r \in Runs
      PROVE  /\ Sequences(r)' = Sequences(r) \cup (IF r = d.run THEN {d.seq} ELSE {})
             /\ \A n \in Sequences(r) : journal'[r][n] = journal[r][n]
  <2>1. CASE r = d.run
    BY <1>0, <1>2, <2>1 DEF Sequences
  <2>2. CASE r # d.run
    BY <1>2, <2>2 DEF Sequences
  <2> QED
    BY <2>1, <2>2
<1>5. ASSUME NEW r \in Runs
      PROVE  RelevantSeqs(r)' = RelevantSeqs(r) \cup
               (IF r = d.run /\ d.kind \in Relevant THEN {d.seq} ELSE {})
  <2>1. RelevantSeqs(r)' = {n \in Sequences(r)' : journal'[r][n] \in Relevant}
    BY DEF RelevantSeqs
  <2>2. CASE r = d.run
    BY <1>0, <1>3, <1>4, <2>1, <2>2 DEF RelevantSeqs
  <2>3. CASE r # d.run
    BY <1>4, <2>1, <2>3 DEF RelevantSeqs
  <2> QED
    BY <2>2, <2>3
<1> QED
  BY <1>0, <1>1, <1>3, <1>4, <1>5 DEF AppendToJournal, AppendEvent, At

LEMMA AppendCInv ==
  ASSUME CInv, JInv, JInv', NEW e \in Emitters, AppendToJournal(e)
  PROVE  CInv'
<1> DEFINE d == emit[e]
<1>0. UNCHANGED <<projSeq, entries, query>>
  BY DEF AppendToJournal
<1>1. CacheTypeOK'
  <2>1. raced' \in [Runs -> SUBSET (1 .. MaxSeq)]
    <3>1. d.run \in Runs /\ d.seq \in 1 .. MaxSeq
      BY AppendFrame
    <3>2. raced' = [raced EXCEPT ![d.run] =
                      IF Filling(d.run) THEN @ \cup {d.seq} ELSE @]
      BY DEF AppendToJournal
    <3>3. raced \in [Runs -> SUBSET (1 .. MaxSeq)]
      BY DEF CInv, CacheTypeOK
    <3> QED
      BY <3>1, <3>2, <3>3
  <2> QED
    BY <1>0, <2>1 DEF CInv, CacheTypeOK, JInv
<1>2. WatermarkInv'
  BY <1>0, AppendFrame DEF CInv, WatermarkInv
<1>3. TellingInv'
  <2> SUFFICES ASSUME NEW f \in Emitters, emit'[f].pc = "observing"
               PROVE  /\ emit'[f].seq \in DOMAIN journal'[emit'[f].run]
                      /\ journal'[emit'[f].run][emit'[f].seq] = emit'[f].kind
    BY DEF TellingInv, At, Sequences
  <2>1. CASE f = e
    BY <2>1, AppendFrame DEF Sequences
  <2>2. CASE f # e
    <3>1. emit'[f] = emit[f] /\ At(f, "observing")
      BY <2>2, AppendFrame DEF At
    <3>2. emit[f].run \in Runs
      BY <3>1 DEF JInv, DraftInv, At
    <3> QED
      BY <3>1, <3>2, AppendFrame DEF CInv, TellingInv, Sequences
  <2> QED
    BY <2>1, <2>2
<1>4. ToldInv'
  <2> SUFFICES ASSUME restarts' = 0, NEW r \in Runs, NEW n \in RelevantSeqs(r)'
               PROVE  Told(r, n)'
    BY DEF ToldInv
  <2>1. CASE n \in RelevantSeqs(r)
    <3>1. n <= projSeq[r] \/ \E f \in Emitters : Telling(f, r, n)
      BY <2>1, AppendFrame DEF CInv, ToldInv, Told
    <3>2. ASSUME NEW f \in Emitters, Telling(f, r, n)
          PROVE  Telling(f, r, n)'
      BY <3>2, AppendFrame DEF Telling, At
    <3> QED
      BY <1>0, <3>1, <3>2 DEF Told
  <2>2. CASE n \notin RelevantSeqs(r)
    <3>1. r = d.run /\ n = d.seq
      BY <2>2, AppendFrame
    <3>2. Telling(e, r, n)'
      BY <3>1, AppendFrame DEF Telling, At
    <3> QED
      BY <3>2 DEF Told
  <2> QED
    BY <2>1, <2>2
<1>5. QueryRunInv'
  BY <1>0 DEF CInv, QueryRunInv
<1> QED
  BY <1>1, <1>2, <1>3, <1>4, <1>5 DEF CInv

(* What telling the cache changes. *)
LEMMA ObserveFrame ==
  ASSUME CInv, JInv, NEW e \in Emitters, ObserveEvent(e)
  PROVE  /\ UNCHANGED <<journal, restarts, entries, query, raced>>
         /\ \A r : RelevantSeqs(r)' = RelevantSeqs(r) /\ Sequences(r)' = Sequences(r)
         /\ emit[e].run \in Runs /\ emit[e].seq \in 1 .. MaxSeq
         /\ emit'[e].pc = "idle" /\ \A f \in Emitters : f # e => emit'[f] = emit[f]
         /\ \A r \in Runs : projSeq'[r] = IF /\ r = emit[e].run
                                             /\ emit[e].kind \in Relevant
                                             /\ emit[e].seq > projSeq[r]
                                            THEN emit[e].seq ELSE projSeq[r]
         /\ \A r \in Runs : projSeq[r] \in 0 .. MaxSeq
         /\ \A r \in Runs : \A n \in RelevantSeqs(r) : Told(r, n) => Told(r, n)'
<1>0. /\ emit \in [Emitters -> Draft]
      /\ emit[e].run \in Runs /\ emit[e].seq \in 1 .. MaxSeq /\ At(e, "observing")
      /\ projSeq \in [Runs -> 0 .. MaxSeq]
  BY DEF JInv, JournalTypeOK, DraftInv, ObserveEvent, EmitReturns, At, CInv, CacheTypeOK
<1>1. UNCHANGED <<journal, restarts, entries, query, raced>>
  BY DEF ObserveEvent, EmitReturns
<1>2. \A r : RelevantSeqs(r)' = RelevantSeqs(r) /\ Sequences(r)' = Sequences(r)
  BY <1>1 DEF RelevantSeqs, Sequences
<1>3. emit'[e].pc = "idle" /\ \A f \in Emitters : f # e => emit'[f] = emit[f]
  BY <1>0 DEF ObserveEvent, EmitReturns, NoDraft
<1>4. \A r \in Runs : projSeq'[r] = IF /\ r = emit[e].run
                                       /\ emit[e].kind \in Relevant
                                       /\ emit[e].seq > projSeq[r]
                                      THEN emit[e].seq ELSE projSeq[r]
  BY <1>0 DEF ObserveEvent
<1>5. ASSUME NEW r \in Runs, NEW n \in RelevantSeqs(r), Told(r, n)
      PROVE  Told(r, n)'
  <2>0. n \in 1 .. MaxSeq
    BY <1>5 DEF RelevantSeqs, JInv, JournalTypeOK
  <2>1. CASE n <= projSeq[r]
    <3>1. n <= projSeq'[r]
      BY <1>0, <1>4, <2>0, <2>1, JournalAssumption
    <3> QED
      BY <3>1 DEF Told
  <2>2. CASE Telling(e, r, n)
    <3>1. r = emit[e].run /\ n = emit[e].seq /\ emit[e].kind \in Relevant
      BY <1>0, <2>2 DEF Telling, CInv, TellingInv, RelevantSeqs
    <3>2. n <= projSeq'[r]
      BY <1>0, <1>4, <2>0, <3>1, JournalAssumption
    <3> QED
      BY <3>2 DEF Told
  <2>3. ASSUME NEW f \in Emitters, f # e, Telling(f, r, n)
        PROVE  Told(r, n)'
    BY <1>3, <2>3 DEF Told, Telling, At
  <2> QED
    BY <1>5, <2>1, <2>2, <2>3 DEF Told
<1> QED
  BY <1>0, <1>1, <1>2, <1>3, <1>4, <1>5

LEMMA ObserveCInv ==
  ASSUME CInv, JInv, JInv', NEW e \in Emitters, ObserveEvent(e)
  PROVE  CInv'
<1>1. CacheTypeOK'
  <2>1. DOMAIN projSeq' = Runs /\ projSeq' = [r \in Runs |-> projSeq'[r]]
    BY DEF ObserveEvent, CInv, CacheTypeOK
  <2>2. projSeq' \in [Runs -> 0 .. MaxSeq]
    BY <2>1, ObserveFrame
  <2> QED
    BY <2>2, ObserveFrame DEF CInv, CacheTypeOK, JInv
<1>2. WatermarkInv'
  <2>1. At(e, "observing")
    BY DEF ObserveEvent, EmitReturns
  <2>2. emit[e].kind \in Relevant => emit[e].seq \in RelevantSeqs(emit[e].run)
    BY <2>1 DEF CInv, TellingInv, RelevantSeqs
  <2> SUFFICES ASSUME NEW r \in Runs
               PROVE  projSeq'[r] \in {0} \cup RelevantSeqs(r)'
    BY DEF WatermarkInv
  <2>3. RelevantSeqs(r)' = RelevantSeqs(r)
    BY ObserveFrame
  <2>4. projSeq[r] \in {0} \cup RelevantSeqs(r)
    BY DEF CInv, WatermarkInv
  <2>5. projSeq'[r] = projSeq[r] \/ (/\ r = emit[e].run /\ emit[e].kind \in Relevant
                                     /\ projSeq'[r] = emit[e].seq)
    BY ObserveFrame
  <2> QED
    BY <2>2, <2>3, <2>4, <2>5
<1>3. TellingInv'
  <2> SUFFICES ASSUME NEW f \in Emitters, emit'[f].pc = "observing"
               PROVE  /\ emit'[f].seq \in DOMAIN journal'[emit'[f].run]
                      /\ journal'[emit'[f].run][emit'[f].seq] = emit'[f].kind
    BY DEF TellingInv, At, Sequences
  <2>1. emit'[f] = emit[f] /\ At(f, "observing")
    BY ObserveFrame DEF At
  <2> QED
    BY <2>1, ObserveFrame DEF CInv, TellingInv, Sequences
<1>4. ToldInv' /\ QueryRunInv'
  BY ObserveFrame DEF CInv, ToldInv, QueryRunInv
<1> QED
  BY <1>1, <1>2, <1>3, <1>4 DEF CInv

(* The owner's query leaves the journal, the watermark and Emit alone. *)
LEMMA QueryFrame ==
  ASSUME QueryStep \/ \E r \in Runs : BeginQuery(r)
  PROVE  /\ UNCHANGED <<journal, eventMu, emit, restarts, projSeq, raced>>
         /\ \A r : RelevantSeqs(r)' = RelevantSeqs(r) /\ Sequences(r)' = Sequences(r)
         /\ \A r, n : Told(r, n)' <=> Told(r, n)
<1>1. UNCHANGED <<journal, eventMu, emit, restarts, projSeq, raced>>
  BY DEF QueryStep, BeginQuery, Lookup, ListAndBuild, StampEntry, StoreEntry, EndQuery,
     journalVars
<1> QED
  BY <1>1 DEF RelevantSeqs, Sequences, Told, Telling, At

Query ==
  [pc : {"idle", "looking", "listing", "stamping", "storing", "answering"},
   run : Runs \cup {None}, seen : 0 .. MaxSeq,
   snapshot : SUBSET (1 .. MaxSeq), must : SUBSET (1 .. MaxSeq)]

LEMMA QueryCInv ==
  ASSUME CInv, JInv, JInv', QueryStep \/ \E r \in Runs : BeginQuery(r)
  PROVE  CInv'
<1>0. /\ query \in Query
      /\ projSeq \in [Runs -> 0 .. MaxSeq]
      /\ entries \in [Runs -> [snapshot : SUBSET (1 .. MaxSeq), upToProjSeq : 0 .. MaxSeq,
                               cached : BOOLEAN]]
  BY DEF CInv, CacheTypeOK, Query
<1>1. \A r \in Runs : RelevantSeqs(r) \subseteq 1 .. MaxSeq
  BY DEF JInv, JournalTypeOK, RelevantSeqs
<1> DEFINE Typed ==
       /\ query' \in Query
       /\ query'.pc # "idle" => query'.run \in Runs
       /\ entries' \in [Runs -> [snapshot : SUBSET (1 .. MaxSeq), upToProjSeq : 0 .. MaxSeq,
                                 cached : BOOLEAN]]
<1>2. Typed
  <2>1. ASSUME NEW r \in Runs, BeginQuery(r)
        PROVE  Typed
    <3> DEFINE due == {n \in RelevantSeqs(r) :
                        ~\E e \in Emitters : At(e, "observing")
                              /\ emit[e].run = r /\ emit[e].seq = n}
    <3>1. due \in SUBSET (1 .. MaxSeq)
      BY <1>1
    <3>2. projSeq[r] \in 0 .. MaxSeq
      BY <1>0
    <3>3. /\ query' = [pc |-> "looking", run |-> r, seen |-> projSeq[r],
                       snapshot |-> {}, must |-> due]
          /\ entries' = entries
      BY <2>1 DEF BeginQuery
    <3> HIDE DEF due
    <3> QED
      BY <1>0, <3>1, <3>2, <3>3 DEF Query
  <2>2. CASE Lookup
    <3>1. query.run \in Runs
      BY <2>2 DEF CInv, QueryRunInv, Lookup, InQuery
    <3>2. entries[query.run].snapshot \in SUBSET (1 .. MaxSeq)
      BY <1>0, <3>1
    <3>3. /\ entries' = entries
          /\ \/ query' = [query EXCEPT !.pc = "answering",
                                       !.snapshot = entries[query.run].snapshot]
             \/ query' = [query EXCEPT !.pc = "listing"]
      BY <2>2 DEF Lookup
    <3> QED
      BY <1>0, <3>1, <3>2, <3>3 DEF Query
  <2>3. CASE ListAndBuild
    <3>1. query.run \in Runs
      BY <2>3 DEF CInv, QueryRunInv, ListAndBuild, InQuery
    <3>2. RelevantSeqs(query.run) \in SUBSET (1 .. MaxSeq)
      BY <1>1, <3>1
    <3> QED
      BY <1>0, <2>3, <3>1, <3>2 DEF Query, ListAndBuild
  <2>4. CASE StampEntry
    <3>1. query.run \in Runs
      BY <2>4 DEF CInv, QueryRunInv, StampEntry, InQuery
    <3>2. projSeq[query.run] \in 0 .. MaxSeq
      BY <1>0, <3>1
    <3> QED
      BY <1>0, <2>4, <3>1, <3>2 DEF Query, StampEntry
  <2>5. CASE StoreEntry
    <3>1. query.run \in Runs
      BY <2>5 DEF CInv, QueryRunInv, StoreEntry, InQuery
    <3> QED
      BY <1>0, <2>5, <3>1 DEF Query, StoreEntry
  <2>6. CASE EndQuery
    BY <1>0, <2>6, JournalAssumption DEF Query, EndQuery, NoQuery
  <2> QED
    BY <2>1, <2>2, <2>3, <2>4, <2>5, <2>6 DEF QueryStep
<1>3. CacheTypeOK'
  BY <1>2, QueryFrame DEF CInv, CacheTypeOK, JInv, Query
<1>4. WatermarkInv' /\ ToldInv'
  BY QueryFrame DEF CInv, WatermarkInv, ToldInv
<1>5. TellingInv'
  BY QueryFrame DEF CInv, TellingInv, At
<1> QED
  BY <1>2, <1>3, <1>4, <1>5 DEF CInv, QueryRunInv

LEMMA RestartCInv ==
  ASSUME CInv, JInv', Restart
  PROVE  CInv'
<1>1. restarts \in Nat /\ restarts' = restarts + 1
  BY JournalAssumption DEF Restart, RestartJournal, CInv, CacheTypeOK, JournalTypeOK
<1>2. CacheTypeOK'
  <2>1. raced' = raced /\ raced \in [Runs -> SUBSET (1 .. MaxSeq)]
    BY DEF Restart, CInv, CacheTypeOK
  <2> QED
    BY <2>1, JournalAssumption DEF Restart, NoEntry, NoQuery, CacheTypeOK, JInv
<1>3. WatermarkInv' /\ QueryRunInv'
  BY DEF Restart, WatermarkInv, QueryRunInv, NoQuery
<1>4. TellingInv'
  BY DEF Restart, RestartJournal, TellingInv, At, NoDraft
<1>5. ToldInv'
  BY <1>1 DEF ToldInv
<1> QED
  BY <1>2, <1>3, <1>4, <1>5 DEF CInv

LEMMA StutterSilent == UNCHANGED vars => Silent
BY DEF vars, journalVars, Silent

LEMMA NextCInv ==
  ASSUME CInv, JInv, JInv', [CacheNext]_vars
  PROVE  CInv'
<1>1. ASSUME NEW e \in Emitters,
             OtherEmitStep(e)
               \/ \E r \in Runs, k \in Kinds, s \in {0} \cup ExplicitSeqs : Emit(e, r, k, s)
      PROVE  CInv'
  BY <1>1, SilentEmitSteps, SilentCInv
<1> QED
  BY <1>1, AppendCInv, ObserveCInv, QueryCInv, RestartCInv, StutterSilent, SilentCInv
  DEF CacheNext

THEOREM CacheInductive == CacheSpec => []CInv
<1>1. CInv /\ JInv /\ JInv' /\ [CacheNext]_vars => CInv'
  BY NextCInv
<1> QED
  BY <1>1, InitCInv, CacheJInv, PTL DEF CacheSpec

(* The cache's maps, the query and the journal keep their types.           *)
THEOREM CacheTypeCorrect == CacheSpec => []CacheTypeOK
BY CacheInductive, PTL DEF CInv

LEMMA QuietIsExact == CInv => WatermarkExactWhenQuiet
<1> SUFFICES ASSUME CInv, restarts = 0, Quiet, NEW r \in Runs
             PROVE  /\ \A n \in RelevantSeqs(r) : n <= projSeq[r]
                    /\ projSeq[r] \in {0} \cup RelevantSeqs(r)
  BY DEF WatermarkExactWhenQuiet
<1> QED
  BY DEF CInv, ToldInv, Told, Telling, WatermarkInv, Quiet, At

(* However many Emits append and tell the cache in whatever order, and     *)
(* whether or not their drafts carry sequences, the watermark is the       *)
(* highest relevant sequence once they have returned.                      *)
THEOREM WatermarkExact == CacheSpec => []WatermarkExactWhenQuiet
BY CacheInductive, QuietIsExact, PTL

(* The cache beside it does not disturb the journal: without explicit      *)
(* sequences it is still the log of EventLog.                              *)
THEOREM CacheRefinesLog ==
  ASSUME ExplicitSeqs = {}
  PROVE  CacheSpec => ImplementsLog
BY CacheJournal, RefinesLog, PTL

(***************************************************************************)
(* Without explicit sequences, a query misses only raced events            *)
(***************************************************************************)
LEMMA CacheIsLog ==
  ASSUME ExplicitSeqs = {}
  PROVE  CacheSpec => []IsLog
<1>1. IsLog /\ JInv /\ [Next]_journalVars => IsLog'
  BY LogStep
<1>2. Spec => []IsLog
  BY <1>1, InitIsLog, JournalInductive, PTL DEF Spec
<1> QED
  BY <1>2, CacheJournal, PTL

LEMMA InitFreshInv == Init => FreshInv
BY DEF Init, CacheInit, NoEntry, NoQuery, FreshInv, EntryInv, MustInv, LookingInv, FillInv,
   AnswerMissesOnlyRaced, InQuery

LEMMA SilentFreshInv ==
  ASSUME FreshInv, Silent
  PROVE  FreshInv'
<1>1. EntryInv'
  BY SilentFrame DEF FreshInv, EntryInv
<1>2. MustInv' /\ LookingInv' /\ FillInv' /\ AnswerMissesOnlyRaced'
  BY SilentFrame DEF FreshInv, MustInv, LookingInv, FillInv, AnswerMissesOnlyRaced, InQuery
<1> QED
  BY <1>1, <1>2 DEF FreshInv

LEMMA ObserveFreshInv ==
  ASSUME CInv, JInv, FreshInv, NEW e \in Emitters, ObserveEvent(e)
  PROVE  FreshInv'
<1>1. EntryInv'
  BY ObserveFrame DEF FreshInv, EntryInv
<1>2. MustInv' /\ LookingInv' /\ FillInv' /\ AnswerMissesOnlyRaced'
  BY ObserveFrame DEF FreshInv, MustInv, LookingInv, FillInv, AnswerMissesOnlyRaced, InQuery
<1> QED
  BY <1>1, <1>2 DEF FreshInv

(* The sequence appended is above every one there is: the entries and the  *)
(* watermark are below it, so the next query does not take an entry for    *)
(* fresh once the cache has been told.                                     *)
LEMMA AppendFreshInv ==
  ASSUME CInv, JInv, IsLog, FreshInv, NEW e \in Emitters, AppendToJournal(e)
  PROVE  FreshInv'
<1> DEFINE d == emit[e]
<1>0. /\ UNCHANGED <<projSeq, entries, query>>
      /\ d.run \in Runs /\ d.seq \in 1 .. MaxSeq
  BY AppendFrame DEF AppendToJournal
<1>1. \A n \in Sequences(d.run) : n < d.seq
  BY DEF AppendToJournal, AppendEvent, At, IsLog, JInv, AllocationStillFresh
<1>2. /\ raced \in [Runs -> SUBSET (1 .. MaxSeq)]
      /\ raced' = [raced EXCEPT ![d.run] =
                     IF Filling(d.run) THEN @ \cup {d.seq} ELSE @]
  BY DEF AppendToJournal, CInv, CacheTypeOK
<1>3. /\ \A r \in Runs : raced[r] \subseteq raced'[r]
      /\ Filling(d.run) => d.seq \in raced'[d.run]
  BY <1>0, <1>2
<1>4. EntryInv'
  <2> SUFFICES ASSUME NEW r \in Runs, entries[r].cached
               PROVE  /\ entries[r].upToProjSeq \in {0} \cup Sequences(r)'
                      /\ \A n \in RelevantSeqs(r)' :
                           \/ n \in entries[r].snapshot \cup raced'[r]
                           \/ n > entries[r].upToProjSeq /\ Told(r, n)'
    BY <1>0 DEF EntryInv
  <2>1. entries[r].upToProjSeq \in {0} \cup Sequences(r)
    BY DEF FreshInv, EntryInv
  <2>2. entries[r].upToProjSeq \in {0} \cup Sequences(r)'
    BY <2>1, AppendFrame
  <2>3. ASSUME NEW n \in RelevantSeqs(r)
        PROVE  \/ n \in entries[r].snapshot \cup raced'[r]
               \/ n > entries[r].upToProjSeq /\ Told(r, n)'
    <3>1. \/ n \in entries[r].snapshot \cup raced[r]
          \/ n > entries[r].upToProjSeq /\ Told(r, n)
      BY DEF FreshInv, EntryInv
    <3>2. ASSUME NEW f \in Emitters, Telling(f, r, n)
          PROVE  Telling(f, r, n)'
      BY <3>2, AppendFrame DEF Telling, At
    <3>3. Told(r, n) => Told(r, n)'
      BY <1>0, <3>2 DEF Told
    <3> QED
      BY <1>3, <3>1, <3>3
  <2>4. ASSUME NEW n \in RelevantSeqs(r)', n \notin RelevantSeqs(r)
        PROVE  n > entries[r].upToProjSeq /\ Told(r, n)'
    <3>1. r = d.run /\ n = d.seq
      BY <2>4, AppendFrame
    <3>2. Telling(e, r, n)'
      BY <3>1, AppendFrame DEF Telling, At
    <3>3. n > entries[r].upToProjSeq
      BY <1>0, <1>1, <2>1, <3>1, JournalAssumption
    <3> QED
      BY <3>2, <3>3 DEF Told
  <2> QED
    BY <2>2, <2>3, <2>4
<1>5. MustInv'
  BY <1>0, AppendFrame DEF CInv, QueryRunInv, FreshInv, MustInv
<1>6. LookingInv' /\ AnswerMissesOnlyRaced'
  BY <1>0, <1>3 DEF CInv, QueryRunInv, FreshInv, LookingInv, AnswerMissesOnlyRaced, InQuery
<1>7. FillInv'
  <2>0. query' = query
    BY <1>0
  <2> SUFFICES ASSUME query.pc \in {"stamping", "storing"}
               PROVE  /\ query.must \subseteq query.snapshot
                      /\ RelevantSeqs(query.run)' \subseteq
                           query.snapshot \cup raced'[query.run]
                      /\ InQuery("storing") =>
                           query.seen \in {0} \cup Sequences(query.run)'
    BY <2>0 DEF FillInv, InQuery
  <2>1. query.run \in Runs
    BY DEF CInv, QueryRunInv
  <2>2. query.run = d.run => d.seq \in raced'[query.run]
    BY <1>3 DEF Filling
  <2>3. RelevantSeqs(query.run)' \subseteq query.snapshot \cup raced'[query.run]
    <3>1. RelevantSeqs(query.run) \subseteq query.snapshot \cup raced[query.run]
      BY DEF FreshInv, FillInv
    <3>2. RelevantSeqs(query.run)' \subseteq RelevantSeqs(query.run) \cup
            (IF query.run = d.run THEN {d.seq} ELSE {})
      BY <2>0, <2>1, AppendFrame
    <3> QED
      BY <1>3, <2>1, <2>2, <3>1, <3>2
  <2>4. Sequences(query.run) \subseteq Sequences(query.run)'
    BY <2>0, <2>1, AppendFrame
  <2> QED
    BY <2>3, <2>4 DEF FreshInv, FillInv
<1> QED
  BY <1>4, <1>5, <1>6, <1>7 DEF FreshInv

LEMMA BeginQueryFreshInv ==
  ASSUME CInv, JInv, FreshInv, NEW r \in Runs, BeginQuery(r)
  PROVE  FreshInv'
<1> DEFINE due == {n \in RelevantSeqs(r) :
                    ~\E e \in Emitters : At(e, "observing")
                          /\ emit[e].run = r /\ emit[e].seq = n}
<1>1. /\ query'.pc = "looking" /\ query'.run = r /\ query'.seen = projSeq[r]
      /\ query'.must = due /\ entries' = entries
  BY DEF BeginQuery
<1>2. due \subseteq RelevantSeqs(r) /\ \A n \in due : ~\E e \in Emitters : Telling(e, r, n)
  BY DEF Telling
<1> HIDE DEF due
<1>3. EntryInv'
  BY <1>1, QueryFrame DEF FreshInv, EntryInv
<1>4. MustInv'
  BY <1>1, <1>2, QueryFrame DEF MustInv
<1>5. LookingInv'
  <2> SUFFICES ASSUME entries[r].cached, NEW n \in due
               PROVE  \/ n \in entries[r].snapshot \cup raced[r]
                      \/ n > entries[r].upToProjSeq /\ n <= projSeq[r]
    BY <1>1, QueryFrame DEF LookingInv
  <2> QED
    BY <1>2 DEF FreshInv, EntryInv, Told
<1>6. FillInv' /\ AnswerMissesOnlyRaced'
  BY <1>1 DEF FillInv, AnswerMissesOnlyRaced, InQuery
<1> QED
  BY <1>3, <1>4, <1>5, <1>6 DEF FreshInv

LEMMA QueryFreshInv ==
  ASSUME CInv, JInv, FreshInv, QueryStep
  PROVE  FreshInv'
<1>0. /\ query \in Query
      /\ entries \in [Runs -> [snapshot : SUBSET (1 .. MaxSeq), upToProjSeq : 0 .. MaxSeq,
                               cached : BOOLEAN]]
  BY DEF CInv, CacheTypeOK, Query
<1>r. query.pc # "idle" => query.run \in Runs
  BY DEF CInv, QueryRunInv
<1>s. \A r \in Runs : Sequences(r) \subseteq 1 .. MaxSeq
  BY DEF JInv, JournalTypeOK
<1>1. ASSUME entries' = entries
      PROVE  EntryInv'
  BY <1>1, QueryFrame DEF FreshInv, EntryInv
<1>2. CASE Lookup
  <2> DEFINE entry == entries[query.run]
  <2>0. query.pc = "looking" /\ query.run \in Runs /\ entries' = entries
    BY <1>2, <1>r DEF Lookup, InQuery
  <2>1. CASE entry.cached /\ entry.upToProjSeq >= query.seen
    <3>1. query'.pc = "answering" /\ query'.run = query.run /\ query'.must = query.must
          /\ query'.snapshot = entry.snapshot
      BY <1>0, <1>2, <2>1 DEF Lookup, Query
    <3>2. \A n \in query.must : n \in entry.snapshot \cup raced[query.run]
      <4> SUFFICES ASSUME NEW n \in query.must, n > entry.upToProjSeq, n <= query.seen
                   PROVE  FALSE
        BY <2>0, <2>1 DEF FreshInv, LookingInv, InQuery
      <4>1. n \in Nat /\ entry.upToProjSeq \in Nat /\ query.seen \in Nat
        BY <1>0, <2>0, JournalAssumption DEF Query
      <4> QED
        BY <2>1, <4>1
    <3> QED
      BY <1>1, <2>0, <3>1, <3>2, QueryFrame DEF FreshInv, MustInv, LookingInv, FillInv,
         AnswerMissesOnlyRaced, InQuery
  <2>2. CASE ~(entry.cached /\ entry.upToProjSeq >= query.seen)
    <3>1. query'.pc = "listing" /\ query'.run = query.run /\ query'.must = query.must
      BY <1>0, <1>2, <2>2 DEF Lookup, Query
    <3> QED
      BY <1>1, <2>0, <3>1, QueryFrame DEF FreshInv, MustInv, LookingInv, FillInv,
         AnswerMissesOnlyRaced, InQuery
  <2> QED
    BY <2>1, <2>2
<1>3. CASE ListAndBuild
  <2>1. /\ query.pc = "listing" /\ entries' = entries
        /\ query'.pc = "stamping" /\ query'.run = query.run /\ query'.must = query.must
        /\ query'.snapshot = RelevantSeqs(query.run)
    BY <1>0, <1>3 DEF ListAndBuild, InQuery, Query
  <2> QED
    BY <1>1, <2>1, QueryFrame DEF FreshInv, MustInv, LookingInv, FillInv,
       AnswerMissesOnlyRaced, InQuery
<1>4. CASE StampEntry
  <2>1. /\ query.pc = "stamping" /\ entries' = entries
        /\ query'.pc = "storing" /\ query'.run = query.run /\ query'.must = query.must
        /\ query'.snapshot = query.snapshot /\ query'.seen = projSeq[query.run]
    BY <1>0, <1>4 DEF StampEntry, InQuery, Query
  <2>2. projSeq[query.run] \in {0} \cup Sequences(query.run)
    BY <1>r, <2>1 DEF CInv, WatermarkInv, RelevantSeqs
  <2> QED
    BY <1>1, <2>1, <2>2, QueryFrame DEF FreshInv, MustInv, LookingInv, FillInv,
       AnswerMissesOnlyRaced, InQuery
<1>5. CASE StoreEntry
  <2>1. /\ query.pc = "storing" /\ query.run \in Runs
        /\ query'.pc = "answering" /\ query'.run = query.run /\ query'.must = query.must
        /\ query'.snapshot = query.snapshot
    BY <1>0, <1>5, <1>r DEF StoreEntry, InQuery, Query
  <2>2. /\ entries'[query.run].snapshot = query.snapshot
        /\ entries'[query.run].upToProjSeq = query.seen
        /\ \A r \in Runs : r # query.run => entries'[r] = entries[r]
    BY <1>0, <1>5, <2>1 DEF StoreEntry
  <2>3. EntryInv'
    <3> SUFFICES ASSUME NEW r \in Runs, entries'[r].cached
                 PROVE  /\ entries'[r].upToProjSeq \in {0} \cup Sequences(r)
                        /\ \A n \in RelevantSeqs(r) :
                             \/ n \in entries'[r].snapshot \cup raced[r]
                             \/ n > entries'[r].upToProjSeq /\ Told(r, n)
      BY QueryFrame DEF EntryInv
    <3>1. CASE r = query.run
      BY <2>1, <2>2, <3>1 DEF FreshInv, FillInv, InQuery
    <3>2. CASE r # query.run
      BY <2>2, <3>2 DEF FreshInv, EntryInv
    <3> QED
      BY <3>1, <3>2
  <2>4. AnswerMissesOnlyRaced'
    BY <2>1, QueryFrame DEF FreshInv, FillInv, AnswerMissesOnlyRaced, InQuery
  <2>5. MustInv'
    BY <2>1, QueryFrame DEF FreshInv, MustInv
  <2>6. LookingInv' /\ FillInv'
    BY <2>1 DEF LookingInv, FillInv, InQuery
  <2> QED
    BY <2>3, <2>4, <2>5, <2>6 DEF FreshInv
<1>6. CASE EndQuery
  <2>1. query'.pc = "idle" /\ entries' = entries
    BY <1>6 DEF EndQuery, NoQuery
  <2> QED
    BY <1>1, <2>1 DEF FreshInv, MustInv, LookingInv, FillInv, AnswerMissesOnlyRaced, InQuery
<1> QED
  BY <1>2, <1>3, <1>4, <1>5, <1>6 DEF QueryStep

LEMMA RestartFreshInv ==
  ASSUME Restart
  PROVE  FreshInv'
BY DEF Restart, NoEntry, NoQuery, FreshInv, EntryInv, MustInv, LookingInv, FillInv,
   AnswerMissesOnlyRaced, InQuery

LEMMA NextFreshInv ==
  ASSUME CInv, JInv, IsLog, FreshInv, [CacheNext]_vars
  PROVE  FreshInv'
<1>1. ASSUME NEW e \in Emitters,
             OtherEmitStep(e)
               \/ \E r \in Runs, k \in Kinds, s \in {0} \cup ExplicitSeqs : Emit(e, r, k, s)
      PROVE  FreshInv'
  BY <1>1, SilentEmitSteps, SilentFreshInv
<1> QED
  BY <1>1, AppendFreshInv, ObserveFreshInv, BeginQueryFreshInv, QueryFreshInv,
     RestartFreshInv, StutterSilent, SilentFreshInv
  DEF CacheNext

(* As long as no host puts sequences in its drafts, whatever Emits run     *)
(* beside it and across restarts, a query answers with every relevant      *)
(* event whose Emit had returned, except those appended while a query was  *)
(* between its ListEvents and its put.                                     *)
THEOREM AnswerComplete ==
  ASSUME ExplicitSeqs = {}
  PROVE  CacheSpec => []AnswerMissesOnlyRaced
<1>1. CInv /\ JInv /\ IsLog /\ FreshInv /\ [CacheNext]_vars => FreshInv'
  BY NextFreshInv
<1>2. CacheSpec => []FreshInv
  BY <1>1, InitFreshInv, CacheInductive, CacheJInv, CacheIsLog, PTL DEF CacheSpec
<1> QED
  BY <1>2, PTL DEF FreshInv
================================================================================
