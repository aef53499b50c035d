---------------------------- MODULE WorldStateProofs ----------------------------
(***************************************************************************)
(* The files, the handles and the cached snapshot of a run, for any number *)
(* of paths, handles, runs, events and mishaps.  Each part has an          *)
(* invariant of its own: a file is what its latest artifact says unless it *)
(* was disturbed, the cache of the registry has what the store has unless  *)
(* the store refused it, and a snapshot says what a new one would say of   *)
(* each partition that did not change quietly.                             *)
(***************************************************************************)
EXTENDS WorldState, WellFoundedInduction, TLAPS

IsMax(S, m) == m \in S /\ \A n \in S : n <= m

LEMMA MaxIs ==
  ASSUME NEW S, S \subseteq Nat, NEW m, IsMax(S, m)
  PROVE  Max(S) = m
<1>1. m \in S /\ \A n \in S : m >= n
  BY DEF IsMax
<1>2. \A x \in S : (\A y \in S : x >= y) => x = m
  BY <1>1
<1>3. Max(S) \in S /\ \A y \in S : Max(S) >= y
  BY <1>1 DEF Max
<1> QED BY <1>2, <1>3

(***************************************************************************)
(* Files                                                                   *)
(***************************************************************************)
Phases == {"checked", "written", "hashed"}

WriterType ==
  [phase : Phases, path : Paths, content : Contents, hash : Contents \cup {Torn, None},
   edited : BOOLEAN, unchecked : BOOLEAN]

(* A write has found the file in order, put its content there and hashed   *)
(* it, unless others edited the file meanwhile.                            *)
Writing ==
  /\ writer \in WriterType
  /\ writer.phase = "hashed" => writer.hash \in Contents \cup {Torn}
  /\ writer.edited => writer.path \in disturbed
  /\ writer.phase = "checked" /\ ~writer.edited /\ ~writer.unchecked => ~Tampered(writer.path)
  /\ writer.phase # "checked" /\ ~writer.edited => disk[writer.path] = writer.content
  /\ writer.phase = "hashed" /\ ~writer.edited => writer.hash = writer.content

WriterInv == writer = Idle \/ Writing

PreviewInv ==
  \A i \in DOMAIN artifacts : ~artifacts[i].edited => artifacts[i].preview = artifacts[i].hash

LatestInv ==
  \A p \in Paths : ArtifactsOf(p) # {} => \E i \in ArtifactsOf(p) : IsMax(ArtifactsOf(p), i)

(* A file that nobody disturbed is in order, while it is not written. *)
OrderInv == \A p \in Paths \ disturbed : writer.path # p => ~Tampered(p)

FilesType ==
  /\ disk \in [Paths -> Contents \cup {Absent, Torn}]
  /\ artifacts \in Seq(Artifact)
  /\ disturbed \subseteq Paths

FInv == FilesType /\ WriterInv /\ PreviewInv /\ LatestInv /\ OrderInv

LEMMA IdleFields ==
  /\ Idle.phase = "idle" /\ Idle.path = None /\ Idle.content = None /\ Idle.hash = None
  /\ ~Idle.edited /\ ~Idle.unchecked /\ None \notin Paths
  /\ \A w \in WriterType : w # Idle /\ w.phase # "idle"
<1>1. \A w \in WriterType : w.phase \in Phases
  BY DEF WriterType
<1> QED BY <1>1, WorkspaceAssumption DEF Idle, Phases

(* What the writer is in one of its phases. *)
LEMMA WriterIn ==
  ASSUME FInv, writer.phase \in Phases
  PROVE  Writing
BY IdleFields DEF FInv, WriterInv, Phases

(* The order of a path depends on its file and its latest artifact. *)
LEMMA TamperedSame ==
  ASSUME NEW p, disk'[p] = disk[p], artifacts' = artifacts
  PROVE  Tampered(p)' = Tampered(p)
BY DEF Tampered, LatestArtifact, ArtifactsOf

(* RecordArtifact: the new artifact is the latest of its path, and the     *)
(* other paths keep theirs.                                                *)
LEMMA ArtifactAdded ==
  ASSUME FilesType, LatestInv, NEW a \in Artifact, artifacts' = Append(artifacts, a)
  PROVE  /\ artifacts' \in Seq(Artifact)
         /\ DOMAIN artifacts' = DOMAIN artifacts \cup {Len(artifacts) + 1}
         /\ artifacts'[Len(artifacts) + 1] = a
         /\ \A i \in DOMAIN artifacts : artifacts'[i] = artifacts[i]
         /\ LatestInv'
         /\ LatestArtifact(a.path)' = a
         /\ \A p \in Paths \ {a.path} : LatestArtifact(p)' = LatestArtifact(p)
<1> DEFINE n == Len(artifacts) + 1
           A == Artifact
<1>0. artifacts \in Seq(A) /\ a \in A
  BY DEF FilesType
<1> HIDE DEF A
<1>1. /\ artifacts' \in Seq(A) /\ n \in Nat /\ DOMAIN artifacts = 1 .. Len(artifacts)
      /\ DOMAIN artifacts' = DOMAIN artifacts \cup {n}
      /\ artifacts'[n] = a
      /\ \A i \in DOMAIN artifacts : artifacts'[i] = artifacts[i] /\ i < n
      /\ DOMAIN artifacts' \subseteq Nat /\ n \notin DOMAIN artifacts
  BY <1>0
<1> HIDE DEF n
<1>2. ArtifactsOf(a.path)' = ArtifactsOf(a.path) \cup {n}
  BY <1>1 DEF ArtifactsOf
<1>3. IsMax(ArtifactsOf(a.path)', n)
  BY <1>1, <1>2 DEF IsMax, ArtifactsOf
<1>4. \A p \in Paths \ {a.path} : ArtifactsOf(p)' = ArtifactsOf(p)
  BY <1>1 DEF ArtifactsOf
<1>5. LatestInv'
  <2> SUFFICES ASSUME NEW p \in Paths, ArtifactsOf(p)' # {}
               PROVE  \E i \in ArtifactsOf(p)' : IsMax(ArtifactsOf(p)', i)
    BY DEF LatestInv, IsMax
  <2>1. CASE p = a.path
    BY <1>2, <1>3, <2>1
  <2>2. CASE p # a.path
    BY <1>4, <2>2 DEF LatestInv
  <2> QED BY <2>1, <2>2
<1>6. LatestArtifact(a.path)' = a
  <2>1. ArtifactsOf(a.path)' \subseteq Nat
    BY <1>1 DEF ArtifactsOf
  <2>2. Max(ArtifactsOf(a.path)') = n
    BY <1>3, <2>1, MaxIs
  <2>3. LatestArtifact(a.path)' = artifacts'[Max(ArtifactsOf(a.path)')]
    BY <1>2 DEF LatestArtifact
  <2> QED BY <1>1, <2>2, <2>3
<1>7. ASSUME NEW p \in Paths \ {a.path} PROVE LatestArtifact(p)' = LatestArtifact(p)
  <2>1. CASE ArtifactsOf(p) = {}
    BY <1>4, <2>1 DEF LatestArtifact
  <2>2. CASE ArtifactsOf(p) # {}
    <3>1. PICK i \in ArtifactsOf(p) : IsMax(ArtifactsOf(p), i)
      BY <2>2 DEF LatestInv
    <3>2. ArtifactsOf(p) \subseteq Nat /\ i \in DOMAIN artifacts
      BY <1>1 DEF ArtifactsOf
    <3>3. Max(ArtifactsOf(p)) = i
      BY <3>1, <3>2, MaxIs
    <3> QED BY <1>1, <1>4, <2>2, <3>2, <3>3 DEF LatestArtifact
  <2> QED BY <2>1, <2>2
<1> QED BY <1>1, <1>5, <1>6, <1>7 DEF n, A

LEMMA CheckWriteKeeps ==
  ASSUME FInv, NEW p \in Paths, NEW c \in Contents, NEW fails \in BOOLEAN,
         CheckWrite(p, c, fails)
  PROVE  FInv'
<1>1. /\ writer = Idle /\ (fails \/ ~Tampered(p)) /\ UNCHANGED <<disk, artifacts, disturbed>>
      /\ writer' = [phase |-> "checked", path |-> p, content |-> c, hash |-> None,
                    edited |-> FALSE, unchecked |-> fails]
  BY DEF CheckWrite, Idle
<1>2. writer' \in WriterType
  BY <1>1 DEF WriterType, Phases
<1>3. \A q \in Paths : Tampered(q)' = Tampered(q)
  BY <1>1, TamperedSame
<1>4. /\ writer'.phase = "checked" /\ writer'.path = p /\ ~writer'.edited
      /\ writer'.unchecked = fails
  BY <1>1
<1>5. Tampered(writer.path)' = Tampered(p)
  BY <1>1, <1>4 DEF Tampered, LatestArtifact, ArtifactsOf
<1>6. Writing'
  BY <1>1, <1>2, <1>4, <1>5 DEF Writing
<1>7. OrderInv'
  BY <1>1, <1>3, IdleFields DEF FInv, OrderInv
<1> QED BY <1>1, <1>6, <1>7 DEF FInv, FilesType, WriterInv, PreviewInv, LatestInv, ArtifactsOf

LEMMA WriteDiskKeeps ==
  ASSUME FInv, WriteDisk
  PROVE  FInv'
<1>1. Writing /\ writer.phase = "checked"
  BY WriterIn DEF WriteDisk, Phases
<1>2. /\ disk' = [disk EXCEPT ![writer.path] = writer.content]
      /\ writer' = [writer EXCEPT !.phase = "written"]
      /\ UNCHANGED <<artifacts, disturbed>>
  BY DEF WriteDisk
<1>3. writer \in [phase : Phases, path : Paths, content : Contents,
                  hash : Contents \cup {Torn, None}, edited : BOOLEAN, unchecked : BOOLEAN]
  BY <1>1 DEF Writing, WriterType
<1>4. /\ writer' \in WriterType /\ writer'.phase = "written" /\ writer'.path = writer.path
      /\ writer'.content = writer.content /\ writer'.edited = writer.edited
  BY <1>2, <1>3 DEF WriterType, Phases
<1>5. disk \in [Paths -> Contents \cup {Absent, Torn}]
  BY DEF FInv, FilesType
<1>6. /\ disk' \in [Paths -> Contents \cup {Absent, Torn}]
      /\ disk'[writer.path] = writer.content
      /\ \A p \in Paths \ {writer.path} : disk'[p] = disk[p]
  BY <1>2, <1>3, <1>5
<1>7. Writing'
  BY <1>1, <1>2, <1>4, <1>6 DEF Writing
<1>8. OrderInv'
  <2>1. \A p \in Paths \ {writer.path} : Tampered(p)' = Tampered(p)
    BY <1>2, <1>6, TamperedSame
  <2> QED BY <1>2, <1>4, <2>1 DEF FInv, OrderInv
<1> QED BY <1>2, <1>6, <1>7, <1>8 DEF FInv, FilesType, WriterInv, PreviewInv, LatestInv, ArtifactsOf

LEMMA HashDiskKeeps ==
  ASSUME FInv, HashDisk
  PROVE  FInv'
<1>1. Writing /\ writer.phase = "written"
  BY WriterIn DEF HashDisk, Phases
<1>2. UNCHANGED <<disk, artifacts, disturbed>>
  BY DEF HashDisk
<1>3. writer \in [phase : Phases, path : Paths, content : Contents,
                  hash : Contents \cup {Torn, None}, edited : BOOLEAN, unchecked : BOOLEAN]
  BY <1>1 DEF Writing, WriterType
<1>4. \A p \in Paths : Tampered(p)' = Tampered(p)
  BY <1>2, TamperedSame
<1>5. disk[writer.path] \in Contents \cup {Absent, Torn}
  BY <1>3 DEF FInv, FilesType
<1>6. CASE disk[writer.path] = Absent
  <2>1. writer' = Idle
    BY <1>6 DEF HashDisk
  <2>2. ~Tampered(writer.path)
    BY <1>6 DEF Tampered
  <2>3. OrderInv'
    BY <1>2, <1>4, <2>2 DEF FInv, OrderInv
  <2> QED BY <1>2, <2>1, <2>3 DEF FInv, FilesType, WriterInv, PreviewInv, LatestInv, ArtifactsOf
<1>7. CASE disk[writer.path] # Absent
  <2>1. writer' = [writer EXCEPT !.phase = "hashed", !.hash = disk[writer.path]]
    BY <1>7 DEF HashDisk
  <2>2. /\ writer' \in WriterType /\ writer'.phase = "hashed" /\ writer'.path = writer.path
        /\ writer'.content = writer.content /\ writer'.edited = writer.edited
        /\ writer'.hash = disk[writer.path] /\ writer'.hash \in Contents \cup {Torn}
    BY <1>3, <1>5, <1>7, <2>1 DEF WriterType, Phases
  <2>3. Writing'
    BY <1>1, <1>2, <2>2 DEF Writing
  <2>4. OrderInv'
    BY <1>2, <1>4, <2>2 DEF FInv, OrderInv
  <2> QED BY <1>2, <2>3, <2>4 DEF FInv, FilesType, WriterInv, PreviewInv, LatestInv, ArtifactsOf
<1> QED BY <1>6, <1>7

LEMMA RecordArtifactKeeps ==
  ASSUME FInv, RecordArtifact
  PROVE  FInv'
<1>1. Writing /\ writer.phase = "hashed" /\ writer \in WriterType
  BY WriterIn DEF RecordArtifact, Phases, Writing
<1>2. PICK a \in Artifact :
        a = [path |-> writer.path, hash |-> writer.hash, preview |-> writer.content,
             edited |-> writer.edited]
  BY <1>1 DEF Writing, WriterType, Artifact
<1>3. /\ a.path = writer.path /\ a.hash = writer.hash /\ a.preview = writer.content
      /\ a.edited = writer.edited
  BY <1>2
<1>4. /\ artifacts' = Append(artifacts, a) /\ writer' = Idle /\ disk' = disk
      /\ disturbed' = IF writer.edited THEN disturbed ELSE disturbed \ {writer.path}
  BY <1>2 DEF RecordArtifact
<1>5. writer.edited \in BOOLEAN /\ writer.path \in Paths
  BY <1>1 DEF WriterType
<1>6. /\ artifacts' \in Seq(Artifact)
      /\ DOMAIN artifacts' = DOMAIN artifacts \cup {Len(artifacts) + 1}
      /\ artifacts'[Len(artifacts) + 1] = a
      /\ \A i \in DOMAIN artifacts : artifacts'[i] = artifacts[i]
      /\ LatestInv'
      /\ LatestArtifact(a.path)' = a
      /\ \A p \in Paths \ {a.path} : LatestArtifact(p)' = LatestArtifact(p)
  BY <1>4, ArtifactAdded DEF FInv
<1>7. PreviewInv'
  BY <1>1, <1>3, <1>6 DEF FInv, PreviewInv, Writing
<1>8. OrderInv'
  <2> SUFFICES ASSUME NEW p \in Paths \ disturbed' PROVE ~Tampered(p)'
    BY DEF OrderInv
  <2>1. CASE p = writer.path
    <3>1. ~writer.edited
      BY <1>1, <1>4, <1>5, <2>1 DEF Writing
    <3>2. disk'[p] = a.hash
      BY <1>1, <1>3, <1>4, <2>1, <3>1 DEF Writing
    <3>3. LatestArtifact(p)' = a
      BY <1>3, <1>6, <2>1
    <3> QED BY <3>2, <3>3 DEF Tampered
  <2>2. CASE p # writer.path
    <3>1. p \notin disturbed /\ ~Tampered(p)
      BY <1>4, <2>2 DEF FInv, OrderInv
    <3>2. LatestArtifact(p)' = LatestArtifact(p)
      BY <1>3, <1>6, <2>2
    <3> QED BY <1>4, <3>1, <3>2 DEF Tampered
  <2> QED BY <2>1, <2>2
<1> QED BY <1>4, <1>5, <1>6, <1>7, <1>8 DEF FInv, FilesType, WriterInv

LEMMA RecordRefusedKeeps ==
  ASSUME FInv, RecordRefused
  PROVE  FInv'
<1>1. Writing /\ writer \in WriterType
  BY WriterIn DEF RecordRefused, Phases, Writing
<1>2. /\ disturbed' = disturbed \cup {writer.path} /\ writer' = Idle
      /\ UNCHANGED <<disk, artifacts>> /\ writer.path \in Paths
  BY <1>1 DEF RecordRefused, WriterType
<1>3. \A p \in Paths : Tampered(p)' = Tampered(p)
  BY <1>2, TamperedSame
<1>4. OrderInv'
  BY <1>2, <1>3 DEF FInv, OrderInv
<1> QED BY <1>2, <1>4 DEF FInv, FilesType, WriterInv, PreviewInv, LatestInv, ArtifactsOf

LEMMA BreakOffKeeps ==
  ASSUME FInv, BreakOff
  PROVE  FInv'
<1>1. /\ writer' = Idle /\ UNCHANGED artifacts
      /\ disturbed' = IF writer = Idle THEN disturbed ELSE disturbed \cup {writer.path}
      /\ \/ UNCHANGED disk
         \/ writer.phase = "checked" /\ disk' = [disk EXCEPT ![writer.path] = Torn]
  BY DEF BreakOff
<1>2. writer = Idle \/ writer \in WriterType
  BY DEF FInv, WriterInv, Writing
<1>3. writer # Idle => writer.path \in Paths
  BY <1>2 DEF WriterType
<1>4. writer = Idle => writer.phase # "checked"
  BY IdleFields
<1>5. disk \in [Paths -> Contents \cup {Absent, Torn}]
  BY DEF FInv, FilesType
<1>6. /\ disk' \in [Paths -> Contents \cup {Absent, Torn}]
      /\ \A p \in Paths : p # writer.path \/ writer = Idle => disk'[p] = disk[p]
  BY <1>1, <1>3, <1>4, <1>5
<1>7. OrderInv'
  <2> SUFFICES ASSUME NEW p \in Paths \ disturbed' PROVE ~Tampered(p)'
    BY DEF OrderInv
  <2>1. p \notin disturbed /\ (writer = Idle \/ p # writer.path)
    BY <1>1
  <2>2. writer.path # p
    BY <2>1, IdleFields
  <2>3. Tampered(p)' = Tampered(p)
    BY <1>1, <1>6, <2>2, TamperedSame
  <2> QED BY <2>1, <2>2, <2>3 DEF FInv, OrderInv
<1>8. disturbed' \subseteq Paths
  BY <1>1, <1>3 DEF FInv, FilesType
<1>9. FilesType' /\ WriterInv'
  BY <1>1, <1>6, <1>8 DEF FInv, FilesType, WriterInv
<1>10. PreviewInv' /\ LatestInv'
  BY <1>1 DEF FInv, PreviewInv, LatestInv, ArtifactsOf
<1> QED BY <1>7, <1>9, <1>10 DEF FInv

LEMMA EditOutsideKeeps ==
  ASSUME FInv, NEW p \in Paths, NEW content \in Contents \cup {Absent}, EditOutside(p, content)
  PROVE  FInv'
<1>1. /\ disk' = [disk EXCEPT ![p] = content] /\ disturbed' = disturbed \cup {p}
      /\ writer' = [writer EXCEPT !.edited = @ \/ writer.path = p] /\ UNCHANGED artifacts
  BY DEF EditOutside
<1>2. disk \in [Paths -> Contents \cup {Absent, Torn}]
  BY DEF FInv, FilesType
<1>3. /\ disk' \in [Paths -> Contents \cup {Absent, Torn}]
      /\ \A q \in Paths \ {p} : disk'[q] = disk[q]
  BY <1>1, <1>2
<1>4. \A q \in Paths \ {p} : Tampered(q)' = Tampered(q)
  BY <1>1, <1>3, TamperedSame
<1>5. WriterInv' /\ writer'.path = writer.path
  <2>1. CASE writer = Idle
    <3>1. writer.path # p /\ writer' = [Idle EXCEPT !.edited = FALSE]
      BY <1>1, <2>1, IdleFields
    <3>2. writer' = Idle
      BY <3>1 DEF Idle
    <3> QED BY <2>1, <3>2 DEF WriterInv
  <2>2. CASE Writing
    <3>1. writer \in [phase : Phases, path : Paths, content : Contents,
                      hash : Contents \cup {Torn, None}, edited : BOOLEAN, unchecked : BOOLEAN]
      BY <2>2 DEF Writing, WriterType
    <3>2. /\ writer' \in WriterType /\ writer'.phase = writer.phase /\ writer'.path = writer.path
          /\ writer'.content = writer.content /\ writer'.hash = writer.hash
          /\ writer'.unchecked = writer.unchecked
          /\ writer'.edited = (writer.edited \/ writer.path = p)
      BY <1>1, <3>1 DEF WriterType
    <3>3. CASE writer.path = p
      <4>1. writer'.edited
        BY <3>2, <3>3, Zenon
      <4>2. writer'.path \in disturbed'
        BY <1>1, <3>2, <3>3
      <4> QED BY <2>2, <3>2, <4>1, <4>2 DEF WriterInv, Writing
    <3>4. CASE writer.path # p
      <4>1. /\ writer'.edited = writer.edited /\ writer.path \in Paths
            /\ disk'[writer.path] = disk[writer.path]
        BY <1>3, <3>1, <3>2, <3>4
      <4>2. Tampered(writer.path)' = Tampered(writer.path)
        BY <1>1, <3>2, <4>1 DEF Tampered, LatestArtifact, ArtifactsOf
      <4> QED BY <1>1, <2>2, <3>2, <4>1, <4>2 DEF WriterInv, Writing
    <3> QED BY <3>2, <3>3, <3>4
  <2> QED BY <2>1, <2>2 DEF FInv, WriterInv
<1>6. OrderInv'
  BY <1>1, <1>4, <1>5 DEF FInv, OrderInv
<1>7. FilesType'
  BY <1>1, <1>3 DEF FInv, FilesType
<1> QED BY <1>1, <1>5, <1>6, <1>7 DEF FInv, PreviewInv, LatestInv, ArtifactsOf

LEMMA FilesSame ==
  ASSUME FInv, UNCHANGED workspaceVars
  PROVE  FInv'
<1>1. UNCHANGED <<disk, artifacts, writer, disturbed>>
  BY DEF workspaceVars
<1>2. \A p \in Paths : Tampered(p)' = Tampered(p)
  BY <1>1, TamperedSame
<1>3. FilesType' /\ PreviewInv' /\ LatestInv'
  BY <1>1 DEF FInv, FilesType, PreviewInv, LatestInv, ArtifactsOf
<1>4. OrderInv'
  BY <1>1, <1>2 DEF FInv, OrderInv
<1>5. WriterInv'
  <2>1. CASE writer = Idle
    BY <1>1, <2>1 DEF WriterInv
  <2>2. CASE Writing
    <3>1. Tampered(writer.path)' = Tampered(writer.path)
      BY <1>1 DEF Tampered, LatestArtifact, ArtifactsOf
    <3> QED BY <1>1, <2>2, <3>1 DEF WriterInv, Writing
  <2> QED BY <2>1, <2>2 DEF FInv, WriterInv
<1> QED BY <1>3, <1>4, <1>5 DEF FInv

LEMMA FilesInit ==
  Init => FInv
<1> SUFFICES ASSUME Init PROVE FInv
  OBVIOUS
<1>1. /\ disk \in [Paths -> {Absent} \cup Contents] /\ artifacts = <<>> /\ writer = Idle
      /\ disturbed = {}
  BY DEF Init, WorkspaceInit
<1>2. \A p : ArtifactsOf(p) = {}
  BY <1>1 DEF ArtifactsOf
<1>3. OrderInv
  BY <1>2 DEF OrderInv, Tampered, LatestArtifact
<1> QED BY <1>1, <1>2, <1>3 DEF FInv, FilesType, WriterInv, PreviewInv, LatestInv

LEMMA FilesStep ==
  FInv /\ [Next]_vars => FInv'
<1> SUFFICES ASSUME FInv, [Next]_vars PROVE FInv'
  OBVIOUS
<1>1. CASE UNCHANGED workspaceVars
  BY <1>1, FilesSame
<1>2. CASE BeginWrite
  <2>1. PICK p \in Paths, c \in Contents, fails \in BOOLEAN : CheckWrite(p, c, fails)
    BY <1>2 DEF BeginWrite
  <2> QED BY <2>1, CheckWriteKeeps
<1>3. CASE ContinueWrite
  BY <1>3, WriteDiskKeeps, HashDiskKeeps, RecordArtifactKeeps DEF ContinueWrite
<1>4. CASE WriteFails
  BY <1>4, RecordRefusedKeeps, BreakOffKeeps DEF WriteFails
<1>5. CASE EditFile
  BY <1>5, EditOutsideKeeps DEF EditFile
<1>6. CASE Restart
  BY <1>6, BreakOffKeeps DEF Restart
<1>7. CASE Emit \/ EmitAhead
  BY <1>1, <1>7 DEF Emit, EmitAhead
<1>8. CASE \E t \in Tools : Resolve(t) \/ ResolveEventRefused(t)
  BY <1>1, <1>8 DEF Resolve, ResolveEventRefused
<1>9. CASE CloseSession \/ LearnFacts
  BY <1>1, <1>9 DEF CloseSession, LearnFacts
<1>10. CASE \E m \in Records, stage \in {"proposed", "committed", "superseded"} : PutMemory(m, stage)
  BY <1>1, <1>10 DEF PutMemory
<1>11. CASE RegisterContextHandle \/ MaterializeContext
  BY <1>1, <1>11 DEF RegisterContextHandle, MaterializeContext
<1>12. CASE BuildWorldState \/ \E r \in Runs : ListHandles(r)
  BY <1>1, <1>12 DEF BuildWorldState, ListHandles
<1>13. CASE UNCHANGED vars
  BY <1>1, <1>13 DEF vars
<1> QED
  BY <1>2, <1>3, <1>4, <1>5, <1>6, <1>7, <1>8, <1>9, <1>10, <1>11, <1>12, <1>13 DEF Next

LEMMA FilesInvariant ==
  Spec => []FInv
<1> QED BY FilesInit, FilesStep, PTL DEF Spec

(* A file that nobody edited, and that no write left unrecorded, is what    *)
(* its latest artifact says: recorded writes never refuse the next write.  *)
(* WriteFile compares against GetLatestArtifactByPath, and records what it *)
(* hashed.                                                                 *)
THEOREM PathsWritable ==
  Spec => []PathStaysWritable
<1>1. FInv => PathStaysWritable
  BY DEF FInv, OrderInv, PathStaysWritable
<1> QED BY <1>1, FilesInvariant, PTL

(* A write replaces only what its check has compared with the latest        *)
(* artifact, or what came there after the check: in this model the check,  *)
(* the write, others' edits and crashes interleave freely.                 *)
THEOREM EditsKept ==
  Spec => EditsSurvive
<1>1. ASSUME FInv, NEW p \in Paths, writer.phase = "checked", writer.path = p
      PROVE  \/ disk[p] = Absent
             \/ ArtifactsOf(p) = {}
             \/ disk[p] = artifacts[Max(ArtifactsOf(p))].hash
             \/ writer.edited
             \/ writer.unchecked
  <2> SUFFICES ASSUME disk[p] # Absent, ArtifactsOf(p) # {}, ~writer.edited, ~writer.unchecked
               PROVE  disk[p] = artifacts[Max(ArtifactsOf(p))].hash
    OBVIOUS
  <2>1. ~Tampered(p)
    BY <1>1, WriterIn DEF Phases, Writing
  <2>2. PICK i \in ArtifactsOf(p) : IsMax(ArtifactsOf(p), i)
    BY <1>1 DEF FInv, LatestInv
  <2>3. artifacts \in Seq(Artifact) /\ ArtifactsOf(p) \subseteq DOMAIN artifacts
    BY <1>1 DEF FInv, FilesType, ArtifactsOf
  <2>4. ArtifactsOf(p) \subseteq Nat /\ artifacts[i] \in Artifact
    BY <2>3
  <2>5. Max(ArtifactsOf(p)) = i
    BY <2>2, <2>4, MaxIs
  <2>6. LatestArtifact(p) = artifacts[i] /\ artifacts[i] # None
    BY <2>4, <2>5, WorkspaceAssumption DEF LatestArtifact
  <2> QED BY <2>1, <2>5, <2>6 DEF Tampered
<1>2. FInv => [\A p \in Paths :
                 writer.phase = "checked" /\ writer'.phase = "written" /\ writer.path = p =>
                   \/ disk[p] = Absent
                   \/ ArtifactsOf(p) = {}
                   \/ disk[p] = artifacts[Max(ArtifactsOf(p))].hash
                   \/ writer.edited
                   \/ writer.unchecked]_vars
  BY <1>1
<1> QED BY <1>2, FilesInvariant, PTL DEF EditsSurvive

(***************************************************************************)
(* Handles                                                                 *)
(***************************************************************************)
Record == [run : Runs, ref : Nat \ {0}]
HandleMap == [Handles -> Record \cup {Unknown}]

RegistryType ==
  /\ cached \in HandleMap /\ stored \in HandleMap /\ registered \in HandleMap
  /\ refused \subseteq Handles

HandlesInv ==
  \A h \in Handles \ refused :
    stored[h] = registered[h] /\ cached[h] \in {Unknown, stored[h]}

RefsInv ==
  \A h \in Handles : registered[h] # Unknown => registered[h].ref \in DOMAIN artifacts

HInv == RegistryType /\ HandlesInv /\ RefsInv

LEMMA UnknownFields ==
  Unknown.run \notin Runs /\ Unknown \notin Record /\ \A r \in Record : r.run \in Runs
BY RegistryAssumption DEF Unknown, Record

(* A listing has a record of the run for each handle that is in it. *)
LEMMA ListingHas ==
  ASSUME RegistryType, NEW r \in Runs, NEW h \in Handles
  PROVE  /\ h \in DOMAIN Listing(r) <=> cached[h].run = r \/ stored[h].run = r
         /\ h \in DOMAIN Listing(r) =>
              /\ Listing(r)[h] = IF cached[h].run = r THEN cached[h] ELSE stored[h]
              /\ Listing(r)[h].run = r
              /\ Listing(r)[h] \in Record
<1>1. cached[h] \in Record \cup {Unknown} /\ stored[h] \in Record \cup {Unknown}
  BY DEF RegistryType, HandleMap
<1>2. DOMAIN Listing(r) = {x \in Handles : r \in {cached[x].run, stored[x].run}}
  BY DEF Listing
<1>3. h \in DOMAIN Listing(r) =>
        Listing(r)[h] = IF cached[h].run = r THEN cached[h] ELSE stored[h]
  BY <1>2 DEF Listing
<1> QED BY <1>1, <1>2, <1>3, UnknownFields

(* What a listing, or a lookup, leaves in the cache. *)
LEMMA ListingFills ==
  ASSUME RegistryType, NEW r \in Runs, ListByRunID(r)
  PROVE  /\ RegistryType' /\ UNCHANGED <<stored, registered, refused>>
         /\ \A h \in Handles :
              cached'[h] = IF h \in DOMAIN Listing(r) THEN Listing(r)[h] ELSE cached[h]
<1>1. cached' = [h \in Handles |-> IF h \in DOMAIN Listing(r) THEN Listing(r)[h] ELSE cached[h]]
  BY DEF ListByRunID
<1>2. UNCHANGED <<stored, registered, refused>>
  BY DEF ListByRunID
<1>3. \A h \in Handles : (IF h \in DOMAIN Listing(r) THEN Listing(r)[h] ELSE cached[h]) \in Record \cup {Unknown}
  BY ListingHas DEF RegistryType, HandleMap
<1>4. cached' \in HandleMap
  BY <1>1, <1>3 DEF HandleMap
<1> QED BY <1>1, <1>2, <1>4 DEF RegistryType

LEMMA ListingKeeps ==
  ASSUME HInv, NEW r \in Runs, ListByRunID(r), artifacts' = artifacts
  PROVE  HInv'
<1>1. /\ RegistryType /\ RegistryType' /\ UNCHANGED <<stored, registered, refused>>
      /\ \A h \in Handles :
           cached'[h] = IF h \in DOMAIN Listing(r) THEN Listing(r)[h] ELSE cached[h]
  BY ListingFills DEF HInv
<1>2. HandlesInv'
  <2> SUFFICES ASSUME NEW h \in Handles \ refused
               PROVE  cached'[h] \in {Unknown, stored[h]} /\ stored[h] = registered[h]
    BY <1>1 DEF HandlesInv
  <2> QED BY <1>1, ListingHas DEF HInv, HandlesInv
<1> QED BY <1>1, <1>2 DEF HInv, RefsInv

LEMMA GetKeeps ==
  ASSUME HInv, NEW h \in Handles, Get(h), artifacts' = artifacts
  PROVE  HInv'
<1>1. /\ cached' = [cached EXCEPT ![h] = Served(h)] /\ UNCHANGED <<stored, registered, refused>>
  BY DEF Get
<1>2. Served(h) \in {cached[h], stored[h]} /\ (Served(h) = cached[h] \/ cached[h] = Unknown)
  BY DEF Served
<1>3. cached' \in HandleMap
  BY <1>1, <1>2 DEF HInv, RegistryType, HandleMap
<1>4. HandlesInv'
  BY <1>1, <1>2 DEF HInv, HandlesInv, RegistryType, HandleMap
<1> QED BY <1>1, <1>3, <1>4 DEF HInv, RegistryType, RefsInv

LEMMA RegisterKeeps ==
  ASSUME HInv, NEW h \in Handles, NEW record \in Record, record.ref \in DOMAIN artifacts,
         artifacts' = artifacts, Register(h, record) \/ RegisterRefused(h, record)
  PROVE  HInv'
<1>1. cached' = [cached EXCEPT ![h] = record] /\ cached' \in HandleMap
  BY DEF Register, RegisterRefused, HInv, RegistryType, HandleMap
<1>2. CASE Register(h, record)
  <2>1. /\ stored' = [stored EXCEPT ![h] = record] /\ registered' = [registered EXCEPT ![h] = record]
        /\ refused' = refused \ {h}
    BY <1>2 DEF Register
  <2>2. stored' \in HandleMap /\ registered' \in HandleMap
    BY <2>1 DEF HInv, RegistryType, HandleMap
  <2>3. HandlesInv' /\ RefsInv'
    BY <1>1, <2>1 DEF HInv, HandlesInv, RefsInv, RegistryType, HandleMap
  <2> QED BY <1>1, <2>1, <2>2, <2>3 DEF HInv, RegistryType
<1>3. CASE RegisterRefused(h, record)
  <2>1. UNCHANGED <<stored, registered>> /\ refused' = refused \cup {h}
    BY <1>3 DEF RegisterRefused
  <2>2. HandlesInv' /\ RefsInv'
    BY <1>1, <2>1 DEF HInv, HandlesInv, RefsInv, RegistryType, HandleMap
  <2> QED BY <1>1, <2>1, <2>2 DEF HInv, RegistryType
<1> QED BY <1>2, <1>3

LEMMA ForgetKeeps ==
  ASSUME HInv, ForgetHandles, artifacts' = artifacts
  PROVE  HInv'
<1>1. cached' = [h \in Handles |-> Unknown] /\ UNCHANGED <<stored, registered, refused>>
  BY DEF ForgetHandles
<1>2. cached' \in HandleMap
  BY <1>1 DEF HandleMap
<1> QED BY <1>1, <1>2 DEF HInv, RegistryType, HandlesInv, RefsInv

(* Files change the registry's invariant only by an artifact more. *)
LEMMA HandlesSame ==
  ASSUME HInv, UNCHANGED registryVars, DOMAIN artifacts \subseteq DOMAIN artifacts'
  PROVE  HInv'
<1>1. UNCHANGED <<cached, stored, registered, refused>>
  BY DEF registryVars
<1> QED BY <1>1 DEF HInv, RegistryType, HandlesInv, RefsInv

LEMMA HandlesInit ==
  Init => HInv
<1> SUFFICES ASSUME Init PROVE HInv
  OBVIOUS
<1>1. /\ cached = [h \in Handles |-> Unknown] /\ stored = [h \in Handles |-> Unknown]
      /\ registered = [h \in Handles |-> Unknown] /\ refused = {}
  BY DEF Init, RegistryInit
<1> QED BY <1>1 DEF HInv, RegistryType, HandleMap, HandlesInv, RefsInv

(* What a query leaves in the registry is a listing, if that can be read. *)
LEMMA ListingOrNothing ==
  ASSUME BuildWorldState \/ \E r \in Runs : ListHandles(r)
  PROVE  UNCHANGED registryVars \/ \E r \in Runs : ListByRunID(r)
<1>1. CASE BuildWorldState
  <2>1. UNCHANGED registryVars \/ ListByRunID(Run)
    BY <1>1 DEF BuildWorldState
  <2> QED BY <2>1, WorldStateAssumption
<1>2. CASE \E r \in Runs : ListHandles(r)
  BY <1>2 DEF ListHandles
<1> QED BY <1>1, <1>2

LEMMA HandlesStep ==
  HInv /\ FInv /\ [Next]_vars => HInv'
<1> SUFFICES ASSUME HInv, FInv, [Next]_vars PROVE HInv'
  OBVIOUS
<1>1. CASE UNCHANGED <<registryVars, artifacts>>
  BY <1>1, HandlesSame
<1>2. CASE BeginWrite
  <2>1. UNCHANGED artifacts /\ UNCHANGED registryVars
    BY <1>2 DEF BeginWrite, CheckWrite, FilesOnly
  <2> QED BY <1>1, <2>1
<1>3. CASE ContinueWrite
  <2>1. UNCHANGED registryVars
    BY <1>3 DEF ContinueWrite, FilesOnly
  <2>2. CASE WriteDisk \/ HashDisk
    BY <1>1, <2>1, <2>2 DEF WriteDisk, HashDisk
  <2>3. CASE RecordArtifact
    <3>1. Writing
      BY <2>3, WriterIn DEF RecordArtifact, Phases
    <3>2. PICK a \in Artifact : artifacts' = Append(artifacts, a)
      BY <2>3, <3>1 DEF RecordArtifact, Writing, WriterType, Artifact
    <3>3. DOMAIN artifacts \subseteq DOMAIN artifacts'
      BY <3>2, ArtifactAdded DEF FInv
    <3> QED BY <2>1, <3>3, HandlesSame
  <2> QED BY <1>3, <2>2, <2>3 DEF ContinueWrite
<1>4. CASE WriteFails \/ EditFile
  <2>1. UNCHANGED artifacts /\ UNCHANGED registryVars
    BY <1>4 DEF WriteFails, EditFile, RecordRefused, BreakOff, EditOutside, FilesOnly
  <2> QED BY <1>1, <2>1
<1>5. CASE RegisterContextHandle
  <2>1. PICK h \in Handles, r \in Runs, i \in DOMAIN artifacts :
          \/ Register(h, [run |-> r, ref |-> i])
          \/ RegisterRefused(h, [run |-> r, ref |-> i])
    BY <1>5 DEF RegisterContextHandle
  <2>2. artifacts' = artifacts
    BY <1>5 DEF RegisterContextHandle, workspaceVars
  <2>3. i \in Nat \ {0}
    BY DEF FInv, FilesType
  <2>4. [run |-> r, ref |-> i] \in Record
    BY <2>3 DEF Record
  <2> QED BY <2>1, <2>2, <2>4, RegisterKeeps
<1>6. CASE MaterializeContext
  <2>1. artifacts' = artifacts
    BY <1>6 DEF MaterializeContext, workspaceVars
  <2> QED BY <1>6, <2>1, GetKeeps DEF MaterializeContext
<1>7. CASE BuildWorldState \/ \E r \in Runs : ListHandles(r)
  <2>1. UNCHANGED registryVars \/ \E r \in Runs : ListByRunID(r)
    BY <1>7, ListingOrNothing
  <2>2. artifacts' = artifacts
    BY <1>7 DEF BuildWorldState, ListHandles, workspaceVars
  <2> QED BY <1>1, <2>1, <2>2, ListingKeeps
<1>8. CASE Restart
  <2>1. artifacts' = artifacts
    BY <1>8 DEF Restart, BreakOff
  <2> QED BY <1>8, <2>1, ForgetKeeps DEF Restart
<1>9. CASE Emit \/ EmitAhead
  BY <1>1, <1>9 DEF Emit, EmitAhead, workspaceVars
<1>10. CASE \E t \in Tools : Resolve(t) \/ ResolveEventRefused(t)
  BY <1>1, <1>10 DEF Resolve, ResolveEventRefused, workspaceVars
<1>11. CASE CloseSession \/ LearnFacts
  BY <1>1, <1>11 DEF CloseSession, LearnFacts, workspaceVars
<1>12. CASE \E m \in Records, stage \in {"proposed", "committed", "superseded"} : PutMemory(m, stage)
  BY <1>1, <1>12 DEF PutMemory, workspaceVars
<1>13. CASE UNCHANGED vars
  BY <1>1, <1>13 DEF vars, workspaceVars
<1> QED
  BY <1>2, <1>3, <1>4, <1>5, <1>6, <1>7, <1>8, <1>9, <1>10, <1>11, <1>12, <1>13 DEF Next

LEMMA HandlesInvariant ==
  Spec => [](FInv /\ HInv)
<1> QED BY FilesInit, FilesStep, HandlesInit, HandlesStep, PTL DEF Spec

(* What a handle is materialized to is what its latest registration named,  *)
(* also after a restart, and also when listings of other runs or lookups   *)
(* have filled the cache since; and it is the content that was hashed,     *)
(* unless others edited the file between the write and the hash.           *)
THEOREM MaterializesRegistered ==
  Spec => []MaterializedAsRegistered
<1>1. ASSUME FInv, HInv PROVE MaterializedAsRegistered
  <2> SUFFICES ASSUME NEW h \in Handles \ refused, registered[h] # Unknown
               PROVE  /\ Served(h) = registered[h]
                      /\ stored[h] = registered[h]
                      /\ LET art == artifacts[registered[h].ref] IN
                           ~art.edited => Materialized(h) = art.hash
    BY DEF MaterializedAsRegistered
  <2>1. Served(h) = registered[h] /\ stored[h] = registered[h]
    BY <1>1 DEF HInv, HandlesInv, Served
  <2>2. registered[h].ref \in DOMAIN artifacts
    BY <1>1 DEF HInv, RefsInv
  <2> QED BY <1>1, <2>1, <2>2 DEF Materialized, FInv, PreviewInv
<1> QED BY <1>1, HandlesInvariant, PTL

(***************************************************************************)
(* The refinement of HandleStore                                           *)
(***************************************************************************)
shownBar == [h \in Handles |-> Served(h)]

(* What is shown may change to what is kept, of the refused handles only. *)
FallsBack ==
  /\ UNCHANGED <<stored, refused>>
  /\ \A h \in Handles :
       \/ Served(h)' = Served(h)
       \/ h \in refused /\ Served(h)' = stored[h]

LEMMA FallingBack ==
  ASSUME HInv, FallsBack
  PROVE  Store!Next
<1> DEFINE H == {h \in refused : Served(h)' # Served(h)}
<1>1. H \subseteq Handles
  BY DEF HInv, RegistryType
<1>2. shownBar' = [h \in Handles |-> Served(h)']
  BY DEF shownBar
<1>3. \A h \in Handles : Served(h)' = IF h \in H THEN stored[h] ELSE shownBar[h]
  BY DEF FallsBack, shownBar
<1>4. shownBar' = [h \in Handles |-> IF h \in H THEN stored[h] ELSE shownBar[h]]
  BY <1>2, <1>3
<1>5. Store!FallBack(H)
  BY <1>4 DEF FallsBack, Store!FallBack, shownBar
<1> QED BY <1>5 DEF Store!Next

LEMMA ListingFallsBack ==
  ASSUME HInv, NEW r \in Runs, ListByRunID(r)
  PROVE  FallsBack
<1>1. /\ UNCHANGED <<stored, registered, refused>>
      /\ \A h \in Handles :
           cached'[h] = IF h \in DOMAIN Listing(r) THEN Listing(r)[h] ELSE cached[h]
  BY ListingFills DEF HInv
<1> SUFFICES ASSUME NEW h \in Handles
             PROVE  Served(h)' = Served(h) \/ (h \in refused /\ Served(h)' = stored[h])
  BY <1>1 DEF FallsBack
<1>2. CASE h \notin DOMAIN Listing(r)
  BY <1>1, <1>2 DEF Served
<1>3. CASE h \in DOMAIN Listing(r)
  <2>1. /\ cached'[h] \in {cached[h], stored[h]} /\ cached'[h] # Unknown
        /\ stored[h] # Unknown \/ cached'[h] = cached[h]
    BY <1>1, <1>3, ListingHas, UnknownFields DEF HInv
  <2>2. h \notin refused => cached[h] \in {Unknown, stored[h]}
    BY DEF HInv, HandlesInv
  <2> QED BY <1>1, <2>1, <2>2 DEF Served
<1> QED BY <1>2, <1>3

LEMMA LookupFallsBack ==
  ASSUME NEW h \in Handles, HInv, Get(h)
  PROVE  FallsBack
BY DEF Get, Served, FallsBack, HInv, RegistryType, HandleMap

LEMMA ForgettingFallsBack ==
  ASSUME HInv, ForgetHandles
  PROVE  FallsBack
BY DEF ForgetHandles, Served, FallsBack, HInv, HandlesInv

LEMMA Registers ==
  ASSUME HInv, NEW h \in Handles, NEW record \in Record,
         Register(h, record) \/ RegisterRefused(h, record)
  PROVE  Store!Next
<1>1. cached' = [cached EXCEPT ![h] = record]
  BY DEF Register, RegisterRefused
<1>2. stored' = stored \/ stored' = [stored EXCEPT ![h] = record]
  BY DEF Register, RegisterRefused
<1>3. \A x \in Handles : Served(x)' = IF x = h THEN record ELSE Served(x)
  BY <1>1, <1>2, UnknownFields DEF Served, HInv, RegistryType, HandleMap
<1>4. shownBar' = [shownBar EXCEPT ![h] = record] /\ shownBar'[h] = record
  BY <1>3 DEF shownBar
<1>5. Store!Show(h)
  BY <1>4, UnknownFields DEF Store!Show, shownBar
<1>6. CASE Register(h, record)
  <2>1. Store!Register(h)
    BY <1>4, <1>5, <1>6 DEF Register, Store!Register, shownBar
  <2> QED BY <2>1 DEF Store!Next
<1>7. CASE RegisterRefused(h, record)
  <2>1. Store!Refuse(h)
    BY <1>5, <1>7 DEF RegisterRefused, Store!Refuse
  <2> QED BY <2>1 DEF Store!Next
<1> QED BY <1>6, <1>7

LEMMA StoreStep ==
  ASSUME FInv, HInv, [Next]_vars
  PROVE  Store!Next \/ UNCHANGED Store!vars
<1>1. CASE UNCHANGED registryVars
  BY <1>1 DEF registryVars, Store!vars, Served
<1>2. CASE RegisterContextHandle
  <2>1. PICK h \in Handles, r \in Runs, i \in DOMAIN artifacts :
          \/ Register(h, [run |-> r, ref |-> i])
          \/ RegisterRefused(h, [run |-> r, ref |-> i])
    BY <1>2 DEF RegisterContextHandle
  <2>2. i \in Nat \ {0}
    BY DEF FInv, FilesType
  <2>3. [run |-> r, ref |-> i] \in Record
    BY <2>2 DEF Record
  <2> QED BY <2>1, <2>3, Registers
<1>3. CASE MaterializeContext
  BY <1>3, LookupFallsBack, FallingBack DEF MaterializeContext
<1>4. CASE BuildWorldState \/ \E r \in Runs : ListHandles(r)
  <2>1. UNCHANGED registryVars \/ \E r \in Runs : ListByRunID(r)
    BY <1>4, ListingOrNothing
  <2> QED BY <1>1, <2>1, ListingFallsBack, FallingBack
<1>5. CASE Restart
  BY <1>5, ForgettingFallsBack, FallingBack DEF Restart
<1>6. CASE BeginWrite \/ ContinueWrite \/ WriteFails \/ EditFile
  BY <1>1, <1>6 DEF BeginWrite, ContinueWrite, WriteFails, EditFile, FilesOnly
<1>7. CASE Emit \/ EmitAhead
  BY <1>1, <1>7 DEF Emit, EmitAhead
<1>8. CASE \E t \in Tools : Resolve(t) \/ ResolveEventRefused(t)
  BY <1>1, <1>8 DEF Resolve, ResolveEventRefused
<1>9. CASE CloseSession \/ LearnFacts
  BY <1>1, <1>9 DEF CloseSession, LearnFacts
<1>10. CASE \E m \in Records, stage \in {"proposed", "committed", "superseded"} : PutMemory(m, stage)
  BY <1>1, <1>10 DEF PutMemory
<1>11. CASE UNCHANGED vars
  BY <1>1, <1>11 DEF vars
<1> QED
  BY <1>2, <1>3, <1>4, <1>5, <1>6, <1>7, <1>8, <1>9, <1>10, <1>11 DEF Next

(* Every behaviour of the registry with its cache is one of HandleStore: a  *)
(* lookup returns the latest registration, and only one that the store     *)
(* refused comes undone, to the record that the store has.                 *)
THEOREM RefinesStore ==
  Spec => ImplementsStore
<1>1. Init => Store!Init
  BY DEF Init, RegistryInit, Store!Init, Served
<1>2. FInv /\ HInv /\ [Next]_vars => [Store!Next]_(Store!vars)
  BY StoreStep
<1> QED BY <1>1, <1>2, HandlesInvariant, PTL DEF Spec, ImplementsStore, Store!Spec

(***************************************************************************)
(* The journal and the stamp of the snapshot                               *)
(***************************************************************************)

(* The sequences of the journal, each set of which has a highest one. *)
JournalInv ==
  /\ DOMAIN journal \subseteq Nat \ {0}
  /\ \A S \in SUBSET DOMAIN journal : S # {} => \E m \in S : IsMax(S, m)

StampInv ==
  /\ projSeq \in SeqsOf(RelevantKinds) \cup {0}
  /\ entry.upTo \in Nat /\ entry.upTo <= projSeq
  /\ DOMAIN entry.snapshot \in {{}, Partitions}
  /\ quiet \subseteq Partitions
  /\ grants \subseteq [tool : Tools, holder : Holders]

JInv == JournalInv /\ StampInv

LEMMA LastIs ==
  ASSUME JournalInv
  PROVE  LastSeq \in Nat /\ \A s \in DOMAIN journal : s <= LastSeq
<1>1. CASE DOMAIN journal = {}
  <2>1. IsMax(DOMAIN journal \cup {0}, 0)
    BY <1>1 DEF IsMax
  <2> QED BY <1>1, <2>1, MaxIs DEF LastSeq
<1>2. CASE DOMAIN journal # {}
  <2>1. PICK m \in DOMAIN journal : IsMax(DOMAIN journal, m)
    BY <1>2 DEF JournalInv
  <2>2. DOMAIN journal \cup {0} \subseteq Nat /\ m \in Nat
    BY DEF JournalInv
  <2>3. IsMax(DOMAIN journal \cup {0}, m)
    BY <2>1, <2>2 DEF IsMax
  <2>4. LastSeq = m
    BY <2>2, <2>3, MaxIs DEF LastSeq
  <2> QED BY <2>1, <2>2, <2>4 DEF IsMax
<1> QED BY <1>1, <1>2

(* A new event leaves the others where they are. *)
LEMMA EventAdded ==
  ASSUME JournalInv, NEW s \in Nat \ {0}, s \notin DOMAIN journal, NEW event,
         AppendEvent(s, event)
  PROVE  /\ DOMAIN journal' = DOMAIN journal \cup {s}
         /\ journal'[s] = event
         /\ \A x \in DOMAIN journal : journal'[x] = journal[x]
         /\ JournalInv'
<1>1. journal' = [x \in DOMAIN journal \cup {s} |-> IF x = s THEN event ELSE journal[x]]
  BY DEF AppendEvent, Overlay
<1>2. DOMAIN journal' = DOMAIN journal \cup {s} /\ journal'[s] = event
  BY <1>1
<1>3. \A x \in DOMAIN journal : journal'[x] = journal[x]
  BY <1>1
<1>4. DOMAIN journal' \subseteq Nat \ {0}
  BY <1>2 DEF JournalInv
<1>5. ASSUME NEW S \in SUBSET DOMAIN journal', S # {} PROVE \E m \in S : IsMax(S, m)
  <2> DEFINE T == S \ {s}
  <2>1. T \in SUBSET DOMAIN journal /\ T \subseteq Nat /\ S \subseteq Nat
    BY <1>2, <1>4, <1>5
  <2>2. CASE T = {}
    <3>1. S = {s}
      BY <1>5, <2>2
    <3> QED BY <2>1, <3>1 DEF IsMax
  <2>3. CASE T # {}
    <3>1. PICK m \in T : IsMax(T, m)
      BY <2>1, <2>3 DEF JournalInv
    <3>2. CASE s \in S /\ s > m
      BY <2>1, <3>1, <3>2 DEF IsMax
    <3>3. CASE ~(s \in S /\ s > m)
      BY <2>1, <3>1, <3>3 DEF IsMax
    <3> QED BY <3>2, <3>3
  <2> QED BY <2>2, <2>3
<1> QED BY <1>2, <1>3, <1>4, <1>5 DEF JournalInv

(* The sequences that each of the actions gives its event. *)
LEMMA Appends ==
  ASSUME JInv, Emit \/ EmitAhead \/ \E t \in Tools : Resolve(t)
  PROVE  \E s \in Nat \ {0} : \E event : s \notin DOMAIN journal /\ AppendEvent(s, event)
<1>1. LastSeq \in Nat /\ \A s \in DOMAIN journal : s <= LastSeq
  BY LastIs DEF JInv
<1>2. CASE Emit
  BY <1>1, <1>2 DEF Emit
<1>3. CASE EmitAhead
  <2>1. PICK event \in DraftsOfHost : AppendEvent(LastSeq + 2, event)
    BY <1>3 DEF EmitAhead
  <2>2. LastSeq + 2 \in Nat \ {0} /\ LastSeq + 2 \notin DOMAIN journal
    BY <1>1
  <2> QED BY <2>1, <2>2
<1>4. CASE \E t \in Tools : Resolve(t)
  <2>1. PICK t \in Tools, names \in bound.namings :
          AppendEvent(LastSeq + 1, Event("permission.granted", t, names))
    BY <1>4 DEF Resolve
  <2>2. LastSeq + 1 \in Nat \ {0} /\ LastSeq + 1 \notin DOMAIN journal
    BY <1>1
  <2> QED BY <2>1, <2>2
<1> QED BY <1>2, <1>3, <1>4

(* The partitions of an event that is not relevant. *)
LEMMA FedByKinds ==
  ASSUME NEW kind
  PROVE  /\ FedBy(kind) \subseteq Partitions /\ "task" \in FedBy(kind)
         /\ kind \notin RelevantKinds => FedBy(kind) = {"task"}
BY DEF FedBy, Partitions, RelevantKinds, ToolKinds

(***************************************************************************)
(* What a partition is built from                                          *)
(***************************************************************************)
EventsOf(kinds) == [s \in SeqsOf(kinds) |-> journal[s]]
Kept(kinds) == EventsOf(kinds)' = EventsOf(kinds)

LEMMA KeptEvents ==
  ASSUME NEW kinds, Kept(kinds)
  PROVE  /\ SeqsOf(kinds)' = SeqsOf(kinds)
         /\ \A s \in SeqsOf(kinds) : journal'[s] = journal[s]
<1>1. DOMAIN EventsOf(kinds)' = SeqsOf(kinds)' /\ DOMAIN EventsOf(kinds) = SeqsOf(kinds)
  BY DEF EventsOf
<1>2. SeqsOf(kinds)' = SeqsOf(kinds)
  BY <1>1 DEF Kept
<1>3. ASSUME NEW s \in SeqsOf(kinds) PROVE journal'[s] = journal[s]
  <2>1. EventsOf(kinds)'[s] = journal'[s] /\ EventsOf(kinds)[s] = journal[s]
    BY <1>2 DEF EventsOf
  <2> QED BY <2>1 DEF Kept
<1> QED BY <1>2, <1>3

LEMMA EventKeeps ==
  ASSUME JournalInv, NEW s \in Nat \ {0}, s \notin DOMAIN journal, NEW event,
         AppendEvent(s, event), NEW kinds, event.kind \notin kinds
  PROVE  Kept(kinds)
<1>1. /\ DOMAIN journal' = DOMAIN journal \cup {s} /\ journal'[s] = event
      /\ \A x \in DOMAIN journal : journal'[x] = journal[x]
  BY EventAdded
<1>2. SeqsOf(kinds)' = SeqsOf(kinds)
  BY <1>1 DEF SeqsOf
<1>3. \A x \in SeqsOf(kinds) : journal'[x] = journal[x]
  BY <1>1 DEF SeqsOf
<1> QED BY <1>2, <1>3 DEF Kept, EventsOf

LEMMA ActivityKept ==
  ASSUME Kept(ToolKinds)
  PROVE  ActivityEntries' = ActivityEntries
BY DEF Kept, EventsOf, ActivityEntries

LEMMA TaskKept ==
  ASSUME journal' = journal
  PROVE  TaskEntries' = TaskEntries
BY DEF TaskEntries

LEMMA ContextKept ==
  ASSUME Kept({"context.packet.created"}), Listing(Run)' = Listing(Run)
  PROVE  ContextEntries(AllUp)' = ContextEntries(AllUp)
<1>1. SeqsOf({"context.packet.created"})' = SeqsOf({"context.packet.created"})
  BY KeptEvents
<1> QED BY <1>1 DEF ContextEntries, AllUp

(* Only the events say what the scope is. *)
LEMMA ScopeKept ==
  ASSUME journal' = journal
  PROVE  Scope' = Scope
<1>1. \A field, default : LastNamed(field, default)' = LastNamed(field, default)
  BY DEF LastNamed
<1> QED BY <1>1 DEF Scope

LEMMA ToldKept ==
  ASSUME Scope' = Scope, facts' = facts
  PROVE  Told' = Told
BY DEF Told

LEMMA CapabilityKept ==
  ASSUME JournalInv, Kept({"context.packet.created"}), UNCHANGED <<grants, closing, facts>>,
         Scope' = Scope
  PROVE  CapabilityEntries(AllUp)' = CapabilityEntries(AllUp)
<1> DEFINE packets == SeqsOf({"context.packet.created"})
<1>1. packets' = packets /\ \A s \in packets : journal'[s] = journal[s]
  BY KeptEvents
<1>2. packets # {} => Max(packets) \in packets
  <2>1. packets \in SUBSET DOMAIN journal /\ packets \subseteq Nat
    BY DEF SeqsOf, JournalInv
  <2> QED BY <2>1, MaxIs DEF JournalInv, IsMax
<1>3. LatestPacketTools' = LatestPacketTools
  BY <1>1, <1>2 DEF LatestPacketTools
<1>4. \A t : GrantFound(t)' = GrantFound(t)
  BY DEF GrantFound
<1>5. \A t : CapabilityStatus(t, AllUp)' = CapabilityStatus(t, AllUp)
  BY <1>4 DEF CapabilityStatus, AllUp
<1>6. InventoryEntries(AllUp)' = InventoryEntries(AllUp)
  BY <1>5, ToldKept DEF InventoryEntries, AllUp
<1>7. CapabilityEntries(AllUp)
        = Overlay(InventoryEntries(AllUp), [t \in LatestPacketTools |-> CapabilityStatus(t, AllUp)])
  BY DEF CapabilityEntries, AllUp
<1> QED BY <1>3, <1>5, <1>6, <1>7 DEF CapabilityEntries, AllUp

LEMMA GovernanceKept ==
  ASSUME Kept({"permission.requested"}), Kept({"permission.granted"}),
         Kept({"permission.denied"}), closing' = closing, Scope' = Scope
  PROVE  GovernanceEntries(AllUp)' = GovernanceEntries(AllUp)
<1> DEFINE requests == SeqsOf({"permission.requested"})
           grantings == SeqsOf({"permission.granted"})
           denials == SeqsOf({"permission.denied"})
           pending == {s \in requests : \A x \in requests \cup grantings \cup denials :
                         journal[x].about = journal[s].about => x <= s}
           blocked == closing /\ "sessionStatus" \notin AllUp.reads
<1>0. blocked' = blocked
  BY DEF AllUp
<1>1. requests' = requests /\ grantings' = grantings /\ denials' = denials
  BY KeptEvents
<1>2. \A s \in requests \cup grantings \cup denials : journal'[s] = journal[s]
  BY KeptEvents
<1>3. pending' = pending
  BY <1>1, <1>2
<1>4. {<<"pending", journal[s].about, blocked>> : s \in pending}'
        = {<<"pending", journal[s].about, blocked>> : s \in pending}
  BY <1>0, <1>2, <1>3
<1>5. {<<"denied", s>> : s \in denials}' = {<<"denied", s>> : s \in denials}
  BY <1>1
<1>6. {<<"grant", journal[s].about>> : s \in grantings}'
        = {<<"grant", journal[s].about>> : s \in grantings}
  BY <1>1, <1>2
<1>7. {<<"rules", Scope.mode, blocked>>}' = {<<"rules", Scope.mode, blocked>>}
  BY <1>0
<1>8. GovernanceEntries(AllUp) =
        {<<"pending", journal[s].about, blocked>> : s \in pending}
          \cup {<<"denied", s>> : s \in denials}
          \cup (IF blocked THEN {} ELSE {<<"grant", journal[s].about>> : s \in grantings})
          \cup {<<"rules", Scope.mode, blocked>>}
  BY Zenon DEF GovernanceEntries
<1>9. GovernanceEntries(AllUp)' =
        {<<"pending", journal[s].about, blocked>> : s \in pending}'
          \cup {<<"denied", s>> : s \in denials}'
          \cup (IF blocked' THEN {} ELSE {<<"grant", journal[s].about>> : s \in grantings}')
          \cup {<<"rules", Scope.mode, blocked>>}'
  BY Zenon DEF GovernanceEntries
<1> QED BY <1>0, <1>4, <1>5, <1>6, <1>7, <1>8, <1>9

LEMMA StoresKept ==
  ASSUME UNCHANGED <<memories, facts>>, Scope' = Scope
  PROVE  /\ MemoryEntries(AllUp)' = MemoryEntries(AllUp)
         /\ HypothesisEntries(AllUp)' = HypothesisEntries(AllUp)
<1>1. \A m : MemoryVisible(m)' = MemoryVisible(m)
  BY DEF MemoryVisible
<1>2. \A read : FromHost(read, AllUp)' = FromHost(read, AllUp)
  BY ToldKept DEF FromHost
<1>3. MemoryEntries(AllUp)' = MemoryEntries(AllUp)
  BY <1>1, <1>2 DEF MemoryEntries
<1>4. HypothesisEntries(AllUp)' = HypothesisEntries(AllUp)
  BY <1>2 DEF HypothesisEntries
<1> QED BY <1>3, <1>4

LEMMA HostKept ==
  ASSUME NEW p, (facts' = facts /\ Scope' = Scope) \/ p \notin {Target(x) : x \in HostProviders}
  PROVE  HostEntries(p, "", AllUp)' = HostEntries(p, "", AllUp)
<1>1. Asked("") \subseteq HostProviders
  BY DEF Asked
<1>2. CASE facts' = facts /\ Scope' = Scope
  BY <1>2, ToldKept DEF HostEntries
<1>3. CASE p \notin {Target(x) : x \in HostProviders}
  <2>1. {x \in Asked("") \ AllUp.providers : Target(x) = p} = {}
    BY <1>1, <1>3
  <2> QED BY <2>1 DEF HostEntries
<1> QED BY <1>2, <1>3

(* The partitions, by what changes in each action. *)
LEMMA PartitionKept ==
  ASSUME JournalInv, NEW p \in Partitions,
         p = "activity" => Kept(ToolKinds),
         p = "task" => journal' = journal,
         p = "context" => Kept({"context.packet.created"}) /\ Listing(Run)' = Listing(Run),
         p = "capability" =>
           Kept({"context.packet.created"}) /\ UNCHANGED <<grants, closing, facts>>,
         p = "governance" =>
           /\ Kept({"permission.requested"}) /\ Kept({"permission.granted"})
           /\ Kept({"permission.denied"}) /\ closing' = closing,
         p \in {"memory", "hypothesis"} => UNCHANGED <<memories, facts>>,
         facts' = facts \/ p \notin {Target(x) : x \in HostProviders},
         Scope' = Scope \/ p \notin FedByScope
  PROVE  Built(p, "", AllUp)' = Built(p, "", AllUp)
<1>1. HostEntries(p, "", AllUp)' = HostEntries(p, "", AllUp)
  BY HostKept DEF FedByScope, FedByHost
<1>2. CASE p = "activity"
  BY <1>1, <1>2, ActivityKept DEF Built
<1>3. CASE p = "task"
  BY <1>1, <1>3, TaskKept DEF Built
<1>4. CASE p = "context"
  BY <1>1, <1>4, ContextKept DEF Built
<1>5. CASE p = "capability"
  <2>1. Scope' = Scope
    BY <1>5 DEF FedByScope, FedByHost
  <2> QED BY <1>1, <1>5, <2>1, CapabilityKept DEF Built
<1>6. CASE p = "governance"
  <2>1. Scope' = Scope
    BY <1>6 DEF FedByScope, FedByHost
  <2> QED BY <1>1, <1>6, <2>1, GovernanceKept DEF Built
<1>7. CASE p = "memory"
  <2>1. Scope' = Scope
    BY <1>7 DEF FedByScope, FedByHost
  <2> QED BY <1>1, <1>7, <2>1, StoresKept DEF Built
<1>8. CASE p = "hypothesis"
  <2>1. Scope' = Scope
    BY <1>8 DEF FedByScope, FedByHost
  <2> QED BY <1>1, <1>8, <2>1, StoresKept DEF Built
<1> QED BY <1>2, <1>3, <1>4, <1>5, <1>6, <1>7, <1>8 DEF Partitions

(* A partition that an outage does not touch is built as without it. *)
LEMMA BuiltBeside ==
  ASSUME NEW down \in Outages \cup {AllUp}, NEW p \in Partitions \ Lost(down)
  PROVE  Built(p, "", down) = Built(p, "", AllUp)
<1>0. down.reads \subseteq Reads /\ down.providers \subseteq HostProviders
  BY WorldStateAssumption DEF AllUp
<1>1. \A read \in down.reads : PartitionOfRead[read] # p
  BY DEF Lost
<1>2. \A x \in down.providers : Target(x) # p
  BY DEF Lost
<1>3. HostEntries(p, "", down) = HostEntries(p, "", AllUp)
  <2>1. {x \in Asked("") \ down.providers : Target(x) = p}
          = {x \in Asked("") \ AllUp.providers : Target(x) = p}
    BY <1>2 DEF AllUp
  <2> QED BY <2>1 DEF HostEntries
<1>4. CASE p \in {"activity", "task"}
  BY <1>3, <1>4 DEF Built
<1>5. CASE p = "context"
  <2>1. "handles" \notin down.reads /\ "handles" \notin AllUp.reads
    BY <1>1, <1>5 DEF PartitionOfRead, AllUp
  <2>2. ContextEntries(down) = ContextEntries(AllUp)
    BY <2>1 DEF ContextEntries
  <2> QED BY <1>3, <1>5, <2>2 DEF Built
<1>6. CASE p = "capability"
  <2>1. {"specs", "inventories", "session", "grants"} \cap down.reads = {}
    BY <1>1, <1>6 DEF PartitionOfRead
  <2>2. {"specs", "inventories", "session", "grants"} \cap AllUp.reads = {}
    BY DEF AllUp
  <2>3. \A t : CapabilityStatus(t, down) = CapabilityStatus(t, AllUp)
    BY <2>1, <2>2 DEF CapabilityStatus
  <2>4. InventoryEntries(down) = InventoryEntries(AllUp)
    BY <2>1, <2>2, <2>3 DEF InventoryEntries
  <2>5. CapabilityEntries(down) = CapabilityEntries(AllUp)
    BY <2>1, <2>2, <2>3, <2>4 DEF CapabilityEntries
  <2> QED BY <1>3, <1>6, <2>5 DEF Built
<1>7. CASE p = "governance"
  <2>1. "sessionStatus" \notin down.reads /\ "sessionStatus" \notin AllUp.reads
    BY <1>1, <1>7 DEF PartitionOfRead, AllUp
  <2>2. GovernanceEntries(down) = GovernanceEntries(AllUp)
    BY <2>1 DEF GovernanceEntries
  <2> QED BY <1>3, <1>7, <2>2 DEF Built
<1>8. CASE p = "memory"
  <2>1. {"memories", "memoryFacts"} \cap down.reads = {}
        /\ {"memories", "memoryFacts"} \cap AllUp.reads = {}
    BY <1>1, <1>8 DEF PartitionOfRead, AllUp
  <2>2. MemoryEntries(down) = MemoryEntries(AllUp)
    BY <2>1 DEF MemoryEntries, FromHost
  <2> QED BY <1>3, <1>8, <2>2 DEF Built
<1>9. CASE p = "hypothesis"
  <2>1. {"proposals", "hypotheses"} \cap down.reads = {}
        /\ {"proposals", "hypotheses"} \cap AllUp.reads = {}
    BY <1>1, <1>9 DEF PartitionOfRead, AllUp
  <2>2. HypothesisEntries(down) = HypothesisEntries(AllUp)
    BY <2>1 DEF HypothesisEntries, FromHost
  <2> QED BY <1>3, <1>9, <2>2 DEF Built
<1> QED BY <1>4, <1>5, <1>6, <1>7, <1>8, <1>9 DEF Partitions

(* What an outage leaves out are partitions of the snapshot. *)
LEMMA LostPartitions ==
  ASSUME NEW down \in Outages \cup {AllUp}
  PROVE  /\ Lost(down) \subseteq Partitions
         /\ "handles" \in down.reads => "context" \in Lost(down)
<1>1. down.reads \subseteq Reads
  BY WorldStateAssumption DEF AllUp
<1>2. \A read \in Reads : PartitionOfRead[read] \in Partitions
  BY DEF Reads, PartitionOfRead, Partitions
<1>3. PartitionOfRead["handles"] = "context"
  BY DEF PartitionOfRead
<1> QED BY <1>1, <1>2, <1>3 DEF Lost

LEMMA HostPartitions ==
  FedByHost \subseteq Partitions /\ FedByHost \subseteq FedByScope /\ FedByScope \subseteq Partitions
BY DEF FedByHost, FedByScope, Partitions

(***************************************************************************)
(* Snapshots                                                               *)
(***************************************************************************)

(* A snapshot that is served says of a partition what a new one would say,  *)
(* unless the partition changed quietly or was built without its sources.  *)
SnapshotInv ==
  Fresh => \A p \in Partitions \ quiet : entry.snapshot[p] = Built(p, "", AllUp)

(* Each handle a snapshot lists is in the cache as it is listed. *)
ListedInv ==
  entry # NoSnapshot /\ "context" \notin quiet =>
    \A h \in DOMAIN entry.snapshot["context"][1] \cap Handles :
      /\ cached[h] = entry.snapshot["context"][1][h]
      /\ cached[h].run = Run
      /\ cached[h] # Unknown

(* An event that leaves a snapshot served is of the quiet partitions. *)
LEMMA EventObserved ==
  ASSUME JInv, NEW s \in Nat \ {0}, NEW event, s \notin DOMAIN journal, AppendEvent(s, event),
         entry' = entry
  PROVE  /\ JournalInv'
         /\ projSeq' \in SeqsOf(RelevantKinds)' \cup {0} /\ projSeq' \in Nat /\ projSeq <= projSeq'
         /\ quiet \subseteq quiet' /\ quiet' \subseteq Partitions
         /\ Fresh' => /\ Fresh /\ FedBy(event.kind) \subseteq quiet'
                      /\ Scope' = Scope \/ FedByScope \subseteq quiet'
<1>1. /\ DOMAIN journal' = DOMAIN journal \cup {s} /\ journal'[s] = event
      /\ \A x \in DOMAIN journal : journal'[x] = journal[x]
      /\ JournalInv'
  BY EventAdded DEF JInv
<1>2. SeqsOf(RelevantKinds) \subseteq SeqsOf(RelevantKinds)'
      /\ (event.kind \in RelevantKinds => s \in SeqsOf(RelevantKinds)')
  BY <1>1 DEF SeqsOf
<1>3. projSeq \in Nat /\ entry.upTo \in Nat /\ entry.upTo <= projSeq
  BY DEF JInv, StampInv, JournalInv, SeqsOf
<1>4. ObserveEvent(s, event.kind)
  BY DEF AppendEvent
<1>5. CASE event.kind \in RelevantKinds /\ s > projSeq
  <2>1. projSeq' = s /\ quiet' = quiet
    BY <1>4, <1>5 DEF ObserveEvent
  <2>2. ~Fresh'
    BY <1>3, <1>5, <2>1 DEF Fresh
  <2> QED BY <1>1, <1>2, <1>3, <1>5, <2>1, <2>2 DEF JInv, StampInv
<1>6. CASE ~(event.kind \in RelevantKinds /\ s > projSeq)
  <2>1. projSeq' = projSeq
        /\ quiet' = quiet \cup ({"task"} \cup (IF s > projSeq THEN {} ELSE FedBy(event.kind))
                                         \cup (IF Scope' = Scope THEN {} ELSE FedByScope))
    BY <1>4, <1>6 DEF ObserveEvent, Quietly
  <2>2. /\ FedBy(event.kind) \subseteq quiet' /\ quiet' \subseteq Partitions
        /\ Scope' = Scope \/ FedByScope \subseteq quiet'
    <3>1. "task" \in quiet' /\ (~(s > projSeq) => FedBy(event.kind) \subseteq quiet')
      BY <2>1
    <3>2. /\ FedBy(event.kind) \subseteq Partitions /\ "task" \in Partitions
          /\ FedByScope \subseteq Partitions /\ quiet \subseteq Partitions
      BY FedByKinds, HostPartitions DEF JInv, StampInv
    <3>3. s > projSeq => FedBy(event.kind) = {"task"}
      BY <1>6, FedByKinds
    <3> QED BY <2>1, <3>1, <3>2, <3>3
  <2>3. Fresh' => Fresh
    BY <2>1 DEF Fresh
  <2> QED BY <1>1, <1>2, <1>3, <2>1, <2>2, <2>3 DEF JInv, StampInv
<1> QED BY <1>5, <1>6

LEMMA StampSame ==
  ASSUME JInv, UNCHANGED <<journal, entry, projSeq>>, quiet' \subseteq Partitions,
         grants' \subseteq [tool : Tools, holder : Holders]
  PROVE  JInv'
BY DEF JInv, JournalInv, StampInv, SeqsOf

(* The actions that neither emit, nor build, nor restart. *)
QuietStep ==
  \/ \E t \in Tools : ResolveEventRefused(t)
  \/ CloseSession \/ LearnFacts
  \/ \E m \in Records, stage \in {"proposed", "committed", "superseded"} : PutMemory(m, stage)
  \/ BeginWrite \/ ContinueWrite \/ WriteFails \/ EditFile
  \/ RegisterContextHandle \/ MaterializeContext
  \/ \E r \in Runs : ListHandles(r)

(* The actions that emit. *)
EventStep == Emit \/ EmitAhead \/ \E t \in Tools : Resolve(t)

LEMMA StepKinds ==
  [Next]_vars => EventStep \/ QuietStep \/ BuildWorldState \/ Restart \/ UNCHANGED vars
BY DEF Next, EventStep, QuietStep

LEMMA QuietStepSays ==
  ASSUME JInv, QuietStep
  PROVE  /\ UNCHANGED <<journal, entry, projSeq>>
         /\ quiet \subseteq quiet' /\ quiet' \subseteq Partitions
         /\ grants' \subseteq [tool : Tools, holder : Holders]
<1>1. quiet \subseteq Partitions /\ grants \subseteq [tool : Tools, holder : Holders]
  BY DEF JInv, StampInv
<1>2. CASE \E t \in Tools : ResolveEventRefused(t)
  BY <1>1, <1>2 DEF ResolveEventRefused, Grant, Quietly, Partitions
<1>3. CASE CloseSession
  BY <1>1, <1>3 DEF CloseSession, Quietly, Partitions
<1>4. CASE LearnFacts
  BY <1>1, <1>4, HostPartitions DEF LearnFacts, Quietly
<1>5. CASE \E m \in Records, stage \in {"proposed", "committed", "superseded"} : PutMemory(m, stage)
  BY <1>1, <1>5 DEF PutMemory, Quietly, Partitions
<1>6. CASE BeginWrite \/ ContinueWrite \/ WriteFails \/ EditFile
  BY <1>1, <1>6 DEF BeginWrite, ContinueWrite, WriteFails, EditFile, FilesOnly, worldVars
<1>7. CASE RegisterContextHandle
  BY <1>1, <1>7 DEF RegisterContextHandle, Quietly, Partitions
<1>8. CASE MaterializeContext
  BY <1>1, <1>8 DEF MaterializeContext, worldVars
<1>9. CASE \E r \in Runs : ListHandles(r)
  BY <1>1, <1>9 DEF ListHandles, Quietly, Partitions
<1> QED BY <1>2, <1>3, <1>4, <1>5, <1>6, <1>7, <1>8, <1>9 DEF QuietStep

LEMMA EventStepSays ==
  ASSUME JInv, EventStep
  PROVE  /\ entry' = entry /\ UNCHANGED registryVars
         /\ UNCHANGED <<memories, closing, facts>>
         /\ grants' \subseteq [tool : Tools, holder : Holders]
BY DEF JInv, StampInv, EventStep, Emit, EmitAhead, Resolve, Grant

LEMMA JournalInit ==
  Init => JInv
<1> SUFFICES ASSUME Init PROVE JInv
  OBVIOUS
<1>1. /\ journal = <<>> /\ projSeq = 0 /\ quiet = {} /\ grants = {}
      /\ entry = [snapshot |-> <<>>, upTo |-> 0]
  BY DEF Init, NoSnapshot
<1>2. DOMAIN journal = {}
  BY <1>1
<1>3. entry.upTo = 0 /\ DOMAIN entry.snapshot = {}
  BY <1>1
<1> QED BY <1>1, <1>2, <1>3 DEF JInv, JournalInv, StampInv

LEMMA JournalStep ==
  JInv /\ [Next]_vars => JInv'
<1> SUFFICES ASSUME JInv, [Next]_vars PROVE JInv'
  OBVIOUS
<1>1. CASE EventStep
  <2>1. PICK s \in Nat \ {0} : \E event : s \notin DOMAIN journal /\ AppendEvent(s, event)
    BY <1>1, Appends DEF EventStep
  <2>2. PICK event : AppendEvent(s, event)
    BY <2>1
  <2>3. entry' = entry /\ grants' \subseteq [tool : Tools, holder : Holders]
    BY <1>1, EventStepSays
  <2>4. /\ JournalInv' /\ projSeq' \in SeqsOf(RelevantKinds)' \cup {0}
        /\ projSeq \in Nat /\ projSeq' \in Nat /\ projSeq <= projSeq' /\ quiet' \subseteq Partitions
    BY <2>1, <2>2, <2>3, EventObserved DEF JInv, StampInv, JournalInv, SeqsOf
  <2> QED BY <2>3, <2>4 DEF JInv, StampInv
<1>2. CASE QuietStep
  BY <1>2, QuietStepSays, StampSame
<1>3. CASE BuildWorldState
  <2>0. PICK down \in Outages \cup {AllUp} :
          entry' = [snapshot |-> FullSnapshot(down), upTo |-> projSeq] /\ quiet' = Lost(down)
    BY <1>3 DEF BuildWorldState, Stamp
  <2>1. UNCHANGED <<journal, grants, projSeq>> /\ quiet' \subseteq Partitions
    BY <1>3, <2>0, LostPartitions DEF BuildWorldState
  <2>2. entry'.upTo = projSeq /\ DOMAIN entry'.snapshot = Partitions
    BY <2>0 DEF FullSnapshot
  <2>3. projSeq \in Nat
    BY DEF JInv, StampInv, JournalInv, SeqsOf
  <2> QED BY <2>1, <2>2, <2>3 DEF JInv, StampInv, JournalInv, SeqsOf
<1>4. CASE Restart
  <2>1. /\ entry' = [snapshot |-> <<>>, upTo |-> 0] /\ projSeq' = 0 /\ quiet' = {}
        /\ UNCHANGED <<journal, grants>>
    BY <1>4 DEF Restart, NoSnapshot
  <2>2. entry'.upTo = 0 /\ DOMAIN entry'.snapshot = {}
    BY <2>1
  <2> QED BY <2>1, <2>2 DEF JInv, StampInv, JournalInv
<1>5. CASE UNCHANGED vars
  BY <1>5, StampSame DEF vars, worldVars, JInv, StampInv
<1> QED BY <1>1, <1>2, <1>3, <1>4, <1>5, StepKinds

LEMMA JournalInvariant ==
  Spec => [](FInv /\ HInv /\ JInv)
<1> QED BY HandlesInvariant, JournalInit, JournalStep, PTL DEF Spec

(* The state keeps its types: sequences are positive, a snapshot has all    *)
(* the partitions or none, and its stamp is never ahead of the events this *)
(* process observed, which are in the journal.                             *)
THEOREM WorldTypeCorrect ==
  Spec => []WorldTypeOK
<1>1. ASSUME FInv, HInv, JInv PROVE WorldTypeOK
  <2>1. RegistryTypeOK
    BY <1>1 DEF HInv, RegistryType, RegistryTypeOK, HandleMap, Record
  <2>2. writer.phase \in {"idle", "checked", "written", "hashed"} /\ (writer.phase = "idle" <=> writer = Idle)
    BY <1>1, IdleFields DEF FInv, WriterInv, Writing, WriterType, Phases
  <2>3. WorkspaceTypeOK
    BY <1>1, <2>2 DEF FInv, FilesType, WorkspaceTypeOK
  <2> QED BY <1>1, <2>1, <2>3 DEF JInv, JournalInv, StampInv, WorldTypeOK
<1> QED BY <1>1, JournalInvariant, PTL

(* The ways to fill the cache that leave the listing of Run as it was. *)
LEMMA ListingSame ==
  ASSUME RegistryType, stored' = stored,
         \A x \in Handles :
           \/ cached'[x] = cached[x]
           \/ cached'[x] = stored[x] /\ cached[x] = Unknown
           \/ cached'[x] = stored[x] /\ cached[x].run # Run /\ stored[x].run = Run
  PROVE  Listing(Run)' = Listing(Run)
<1>1. ASSUME NEW x \in Handles
      PROVE  /\ Run \in {cached'[x].run, stored'[x].run} <=> Run \in {cached[x].run, stored[x].run}
             /\ Run \in {cached[x].run, stored[x].run} =>
                  (IF cached'[x].run = Run THEN cached'[x] ELSE stored'[x])
                    = (IF cached[x].run = Run THEN cached[x] ELSE stored[x])
  BY UnknownFields, WorldStateAssumption
<1> DEFINE listed == {x \in Handles : Run \in {cached[x].run, stored[x].run}}
           listedNext == {x \in Handles : Run \in {cached'[x].run, stored'[x].run}}
<1>2. listedNext = listed
  BY <1>1
<1>3. Listing(Run) = [h \in listed |-> IF cached[h].run = Run THEN cached[h] ELSE stored[h]]
  BY DEF Listing
<1>4. Listing(Run)' = [h \in listedNext |-> IF cached'[h].run = Run THEN cached'[h] ELSE stored'[h]]
  BY DEF Listing
<1>5. \A h \in listed : (IF cached'[h].run = Run THEN cached'[h] ELSE stored'[h])
                          = (IF cached[h].run = Run THEN cached[h] ELSE stored[h])
  BY <1>1
<1> HIDE DEF listed, listedNext
<1> QED BY <1>2, <1>3, <1>4, <1>5

LEMMA ListHandlesFills ==
  ASSUME HInv, NEW r \in Runs, ListByRunID(r), r = Run \/ refused = {}
  PROVE  /\ stored' = stored
         /\ \A x \in Handles :
              \/ cached'[x] = cached[x]
              \/ cached'[x] = stored[x] /\ cached[x] = Unknown
              \/ cached'[x] = stored[x] /\ cached[x].run # Run /\ stored[x].run = Run
<1>1. /\ UNCHANGED <<stored, registered, refused>>
      /\ \A h \in Handles :
           cached'[h] = IF h \in DOMAIN Listing(r) THEN Listing(r)[h] ELSE cached[h]
  BY ListingFills DEF HInv
<1>2. ASSUME NEW x \in Handles
      PROVE  \/ cached'[x] = cached[x]
             \/ cached'[x] = stored[x] /\ cached[x] = Unknown
             \/ cached'[x] = stored[x] /\ cached[x].run # Run /\ stored[x].run = Run
  <2>1. CASE x \notin DOMAIN Listing(r) \/ cached[x].run = r
    BY <1>1, <2>1, ListingHas DEF HInv
  <2>2. CASE x \in DOMAIN Listing(r) /\ cached[x].run # r
    <3>1. cached'[x] = stored[x] /\ stored[x].run = r
      BY <1>1, <2>2, ListingHas DEF HInv
    <3>2. CASE r = Run
      BY <2>2, <3>1, <3>2
    <3>3. CASE refused = {}
      BY <2>2, <3>1, <3>3 DEF HInv, HandlesInv
    <3> QED BY <3>2, <3>3
  <2> QED BY <2>1, <2>2
<1> QED BY <1>1, <1>2

LEMMA GetFills ==
  ASSUME HInv, NEW h \in Handles, Get(h)
  PROVE  /\ stored' = stored
         /\ \A x \in Handles :
              \/ cached'[x] = cached[x]
              \/ cached'[x] = stored[x] /\ cached[x] = Unknown
<1>1. cached' = [cached EXCEPT ![h] = Served(h)] /\ stored' = stored /\ cached \in HandleMap
  BY DEF Get, HInv, RegistryType
<1>2. Served(h) = cached[h] \/ (Served(h) = stored[h] /\ cached[h] = Unknown)
  BY DEF Served
<1>3. \A x \in Handles : cached'[x] = IF x = h THEN Served(h) ELSE cached[x]
  BY <1>1 DEF HandleMap
<1> QED BY <1>1, <1>2, <1>3

(* Whatever is filled in so keeps the handles a snapshot lists. *)
LEMMA ListedKept ==
  ASSUME ListedInv, entry' = entry, quiet \subseteq quiet',
         "context" \notin quiet' =>
           \A x \in Handles :
             \/ cached'[x] = cached[x]
             \/ cached'[x] = stored[x] /\ cached[x] = Unknown
             \/ cached'[x] = stored[x] /\ cached[x].run # Run /\ stored[x].run = Run
  PROVE  ListedInv'
<1> SUFFICES ASSUME entry # NoSnapshot, "context" \notin quiet',
                    NEW h \in DOMAIN entry.snapshot["context"][1] \cap Handles
             PROVE  /\ cached'[h] = entry.snapshot["context"][1][h]
                    /\ cached'[h].run = Run /\ cached'[h] # Unknown
  BY DEF ListedInv, NoSnapshot
<1>1. /\ cached[h] = entry.snapshot["context"][1][h]
      /\ cached[h].run = Run /\ cached[h] # Unknown
  BY DEF ListedInv
<1>2. cached'[h] = cached[h]
  BY <1>1
<1> QED BY <1>1, <1>2

(* A new snapshot lists what its listing has left in the cache. *)
LEMMA ListedBuilt ==
  ASSUME HInv, JInv, BuildWorldState
  PROVE  ListedInv'
<1>0. PICK down \in Outages \cup {AllUp} :
        /\ entry' = [snapshot |-> FullSnapshot(down), upTo |-> Stamp] /\ quiet' = Lost(down)
        /\ IF "handles" \in down.reads THEN UNCHANGED registryVars ELSE ListByRunID(Run)
  BY DEF BuildWorldState
<1> SUFFICES ASSUME "context" \notin quiet' PROVE ListedInv'
  BY DEF ListedInv
<1>1. "handles" \notin down.reads /\ ListByRunID(Run) /\ Run \in Runs
  BY <1>0, LostPartitions, WorldStateAssumption
<1>2. entry'.snapshot["context"][1] = ContextEntries(down)
  BY <1>0 DEF FullSnapshot, Partitions, Built
<1>3. ASSUME NEW h \in DOMAIN ContextEntries(down) \cap Handles
      PROVE  h \in DOMAIN Listing(Run) /\ ContextEntries(down)[h] = Listing(Run)[h]
  <2>1. h \notin SeqsOf({"context.packet.created"})
    BY WorldStateAssumption DEF JInv, JournalInv, SeqsOf
  <2> QED BY <1>1, <2>1 DEF ContextEntries, Overlay
<1>4. ASSUME NEW h \in DOMAIN ContextEntries(down) \cap Handles
      PROVE  /\ cached'[h] = ContextEntries(down)[h]
             /\ cached'[h].run = Run /\ cached'[h] # Unknown
  <2>1. cached'[h] = Listing(Run)[h]
    BY <1>1, <1>3, ListingFills DEF HInv
  <2>2. Listing(Run)[h].run = Run /\ Listing(Run)[h] \in Record
    BY <1>1, <1>3, ListingHas DEF HInv
  <2> QED BY <1>3, <2>1, <2>2, UnknownFields
<1> QED BY <1>2, <1>4 DEF ListedInv

LEMMA ListedStep ==
  HInv /\ JInv /\ ListedInv /\ [Next]_vars => ListedInv'
<1> SUFFICES ASSUME HInv, JInv, ListedInv, [Next]_vars PROVE ListedInv'
  OBVIOUS
<1>1. CASE cached' = cached /\ entry' = entry /\ quiet \subseteq quiet'
  BY <1>1, ListedKept
<1>2. CASE EventStep
  <2>1. entry' = entry /\ cached' = cached
    BY <1>2, EventStepSays DEF registryVars
  <2>2. quiet \subseteq quiet'
    <3>1. PICK s \in Nat \ {0} : \E event : s \notin DOMAIN journal /\ AppendEvent(s, event)
      BY <1>2, Appends DEF EventStep
    <3>2. PICK event : AppendEvent(s, event)
      BY <3>1
    <3> QED BY <2>1, <3>1, <3>2, EventObserved
  <2> QED BY <1>1, <2>1, <2>2
<1>3. CASE QuietStep
  <2>1. entry' = entry /\ quiet \subseteq quiet'
    BY <1>3, QuietStepSays
  <2>2. CASE \E t \in Tools : ResolveEventRefused(t)
    BY <1>1, <2>1, <2>2 DEF ResolveEventRefused, registryVars
  <2>3. CASE CloseSession \/ LearnFacts
    BY <1>1, <2>1, <2>3 DEF CloseSession, LearnFacts, registryVars
  <2>4. CASE \E m \in Records, stage \in {"proposed", "committed", "superseded"} : PutMemory(m, stage)
    BY <1>1, <2>1, <2>4 DEF PutMemory, registryVars
  <2>5. CASE BeginWrite \/ ContinueWrite \/ WriteFails \/ EditFile
    BY <1>1, <2>1, <2>5
       DEF BeginWrite, ContinueWrite, WriteFails, EditFile, FilesOnly, registryVars
  <2>6. CASE RegisterContextHandle
    <3>1. "context" \in quiet'
      BY <2>6 DEF RegisterContextHandle, Quietly
    <3> QED BY <2>1, <3>1, ListedKept
  <2>7. CASE MaterializeContext
    BY <2>1, <2>7, GetFills, ListedKept DEF MaterializeContext
  <2>8. CASE \E r \in Runs : ListHandles(r)
    <3>1. PICK r \in Runs : ListHandles(r)
      BY <2>8
    <3>2. ListByRunID(r) /\ (r # Run /\ refused # {} => "context" \in quiet')
      BY <3>1 DEF ListHandles, Quietly
    <3>3. "context" \notin quiet' => r = Run \/ refused = {}
      BY <3>2
    <3> QED BY <2>1, <3>2, <3>3, ListHandlesFills, ListedKept
  <2> QED BY <1>3, <2>2, <2>3, <2>4, <2>5, <2>6, <2>7, <2>8 DEF QuietStep
<1>4. CASE BuildWorldState
  BY <1>4, ListedBuilt
<1>5. CASE Restart
  <2>1. entry' = NoSnapshot
    BY <1>5 DEF Restart
  <2> QED BY <2>1 DEF ListedInv, NoSnapshot
<1>6. CASE UNCHANGED vars
  BY <1>1, <1>6 DEF vars, registryVars, worldVars
<1> QED BY <1>2, <1>3, <1>4, <1>5, <1>6, StepKinds

LEMMA ListedInvariant ==
  Spec => [](HInv /\ JInv /\ ListedInv)
<1>1. Init => ListedInv
  BY DEF Init, ListedInv
<1> QED BY <1>1, JournalInvariant, ListedStep, PTL DEF Spec

(* The registry serves each handle of a served snapshot as the snapshot     *)
(* lists it, also when the store has refused a registration, unless a      *)
(* handle was registered, or a listing of another run took a refused one   *)
(* back, since.                                                            *)
THEOREM ListedServed ==
  Spec => []ListedIsServed
<1>1. ListedInv => ListedIsServed
  BY DEF ListedInv, ListedIsServed, Fresh, Served
<1> QED BY <1>1, ListedInvariant, PTL

(* A snapshot that stays served says what it said, of each partition that   *)
(* did not change quietly in the step.                                     *)
LEMMA SnapshotKept ==
  ASSUME SnapshotInv, entry' = entry, Fresh' => Fresh, quiet \subseteq quiet',
         Fresh' => \A p \in Partitions \ quiet' : Built(p, "", AllUp)' = Built(p, "", AllUp)
  PROVE  SnapshotInv'
<1> SUFFICES ASSUME Fresh', NEW p \in Partitions \ quiet'
             PROVE  entry.snapshot[p] = Built(p, "", AllUp)'
  BY DEF SnapshotInv, Partitions
<1> QED BY DEF SnapshotInv

LEMMA KeptAll ==
  ASSUME journal' = journal
  PROVE  \A kinds : Kept(kinds)
BY DEF Kept, EventsOf, SeqsOf

(* What a change without an event needs to change quietly. *)
LEMMA QuietKept ==
  ASSUME JInv, SnapshotInv, UNCHANGED <<journal, entry, projSeq>>, quiet \subseteq quiet',
         Listing(Run)' = Listing(Run) \/ "context" \in quiet',
         UNCHANGED grants \/ "capability" \in quiet',
         UNCHANGED closing \/ {"capability", "governance"} \subseteq quiet',
         UNCHANGED memories \/ {"memory", "hypothesis"} \subseteq quiet',
         UNCHANGED facts \/ FedByHost \subseteq quiet'
  PROVE  SnapshotInv'
<1>1. Fresh' => Fresh
  BY DEF Fresh
<1>2. ASSUME NEW p \in Partitions \ quiet' PROVE Built(p, "", AllUp)' = Built(p, "", AllUp)
  <2>1. \A kinds : Kept(kinds)
    BY KeptAll
  <2>2. facts' = facts \/ p \notin {Target(x) : x \in HostProviders}
    BY <1>2 DEF FedByHost
  <2>3. p = "context" => Listing(Run)' = Listing(Run)
    BY <1>2
  <2>4. p = "capability" => UNCHANGED <<grants, closing, facts>>
    BY <1>2 DEF FedByHost
  <2>5. p = "governance" => closing' = closing
    BY <1>2
  <2>6. p \in {"memory", "hypothesis"} => UNCHANGED <<memories, facts>>
    BY <1>2 DEF FedByHost
  <2>7. Scope' = Scope
    BY ScopeKept
  <2> QED BY <2>1, <2>2, <2>3, <2>4, <2>5, <2>6, <2>7, PartitionKept DEF JInv
<1> QED BY <1>1, <1>2, SnapshotKept

LEMMA ListingUnchanged ==
  ASSUME UNCHANGED registryVars
  PROVE  Listing(Run)' = Listing(Run)
BY DEF registryVars, Listing

LEMMA SnapshotEvent ==
  ASSUME HInv, JInv, SnapshotInv, EventStep
  PROVE  SnapshotInv'
<1>1. PICK s \in Nat \ {0} : \E event : s \notin DOMAIN journal /\ AppendEvent(s, event)
  BY Appends DEF EventStep
<1>2. PICK event : AppendEvent(s, event)
  BY <1>1
<1>3. entry' = entry /\ UNCHANGED registryVars /\ UNCHANGED <<memories, closing, facts>>
  BY EventStepSays
<1>4. /\ quiet \subseteq quiet'
      /\ Fresh' => /\ Fresh /\ FedBy(event.kind) \subseteq quiet'
                   /\ Scope' = Scope \/ FedByScope \subseteq quiet'
  BY <1>1, <1>2, <1>3, EventObserved
<1>5. ASSUME Fresh' PROVE grants' = grants
  <2>1. CASE Emit \/ EmitAhead
    BY <2>1 DEF Emit, EmitAhead
  <2>2. CASE \E t \in Tools : Resolve(t)
    <3>1. PICK t \in Tools, names \in bound.namings :
          AppendEvent(LastSeq + 1, Event("permission.granted", t, names))
      BY <2>2 DEF Resolve
    <3>2. /\ LastSeq \in Nat /\ projSeq <= LastSeq /\ projSeq \in Nat
          /\ entry.upTo \in Nat /\ entry.upTo <= projSeq
      BY LastIs DEF JInv, StampInv, JournalInv, SeqsOf
    <3>3. Event("permission.granted", t, names).kind \in RelevantKinds
      BY DEF Event, RelevantKinds
    <3>4. projSeq' = LastSeq + 1
      BY <3>1, <3>2, <3>3 DEF AppendEvent, ObserveEvent
    <3> QED BY <1>3, <1>5, <3>2, <3>4 DEF Fresh
  <2> QED BY <2>1, <2>2 DEF EventStep
<1>6. ASSUME Fresh', NEW p \in Partitions \ quiet'
      PROVE  Built(p, "", AllUp)' = Built(p, "", AllUp)
  <2>1. p \notin FedBy(event.kind)
    BY <1>4, <1>6
  <2>2. p = "activity" => event.kind \notin ToolKinds
    BY <2>1 DEF FedBy
  <2>3. p \in {"context", "capability"} => event.kind \notin {"context.packet.created"}
    BY <2>1 DEF FedBy
  <2>4. p = "governance" =>
          event.kind \notin {"permission.requested", "permission.granted", "permission.denied"}
    BY <2>1 DEF FedBy
  <2>5. p # "task"
    BY <2>1 DEF FedBy
  <2>6. \A kinds : event.kind \notin kinds => Kept(kinds)
    BY <1>1, <1>2, EventKeeps DEF JInv
  <2>7. Listing(Run)' = Listing(Run) /\ grants' = grants
    BY <1>3, <1>5, <1>6, ListingUnchanged
  <2>8. p = "governance" =>
          Kept({"permission.requested"}) /\ Kept({"permission.granted"}) /\ Kept({"permission.denied"})
    BY <2>4, <2>6
  <2>9. Scope' = Scope \/ p \notin FedByScope
    BY <1>4, <1>6
  <2> QED BY <1>3, <2>2, <2>3, <2>5, <2>6, <2>7, <2>8, <2>9, PartitionKept DEF JInv
<1> QED BY <1>3, <1>4, <1>6, SnapshotKept

LEMMA SnapshotQuiet ==
  ASSUME HInv, JInv, SnapshotInv, QuietStep
  PROVE  SnapshotInv'
<1>1. UNCHANGED <<journal, entry, projSeq>> /\ quiet \subseteq quiet'
  BY QuietStepSays
<1>2. CASE \E t \in Tools : ResolveEventRefused(t)
  BY <1>1, <1>2, ListingUnchanged, QuietKept DEF ResolveEventRefused, Quietly
<1>3. CASE CloseSession
  BY <1>1, <1>3, ListingUnchanged, QuietKept DEF CloseSession, Quietly
<1>4. CASE LearnFacts
  BY <1>1, <1>4, ListingUnchanged, QuietKept DEF LearnFacts, Quietly
<1>5. CASE \E m \in Records, stage \in {"proposed", "committed", "superseded"} : PutMemory(m, stage)
  BY <1>1, <1>5, ListingUnchanged, QuietKept DEF PutMemory, Quietly
<1>6. CASE BeginWrite \/ ContinueWrite \/ WriteFails \/ EditFile
  BY <1>1, <1>6, ListingUnchanged, QuietKept
     DEF BeginWrite, ContinueWrite, WriteFails, EditFile, FilesOnly, worldVars
<1>7. CASE RegisterContextHandle
  BY <1>1, <1>7, QuietKept DEF RegisterContextHandle, Quietly
<1>8. CASE MaterializeContext
  <2>1. Listing(Run)' = Listing(Run)
    BY <1>8, GetFills, ListingSame DEF MaterializeContext, HInv
  <2> QED BY <1>1, <1>8, <2>1, QuietKept DEF MaterializeContext, worldVars
<1>9. CASE \E r \in Runs : ListHandles(r)
  <2>1. PICK r \in Runs : ListHandles(r)
    BY <1>9
  <2>2. /\ ListByRunID(r) /\ (r # Run /\ refused # {} => "context" \in quiet')
        /\ UNCHANGED <<memories, grants, closing, facts>>
    BY <2>1 DEF ListHandles, Quietly
  <2>3. r = Run \/ refused = {} => Listing(Run)' = Listing(Run)
    BY <2>2, ListHandlesFills, ListingSame DEF HInv
  <2> QED BY <1>1, <2>2, <2>3, QuietKept
<1> QED BY <1>2, <1>3, <1>4, <1>5, <1>6, <1>7, <1>8, <1>9 DEF QuietStep

(* A build leaves its own listing as it was. *)
LEMMA SnapshotBuilt ==
  ASSUME HInv, JInv, BuildWorldState
  PROVE  SnapshotInv'
<1>1. PICK down \in Outages \cup {AllUp} :
        /\ entry' = [snapshot |-> FullSnapshot(down), upTo |-> Stamp] /\ quiet' = Lost(down)
        /\ IF "handles" \in down.reads THEN UNCHANGED registryVars ELSE ListByRunID(Run)
  BY DEF BuildWorldState
<1>2. UNCHANGED <<journal, memories, grants, closing, facts>> /\ Run \in Runs
  BY WorldStateAssumption DEF BuildWorldState
<1>3. Listing(Run)' = Listing(Run)
  <2>1. CASE "handles" \in down.reads
    BY <1>1, <2>1, ListingUnchanged
  <2>2. CASE "handles" \notin down.reads
    BY <1>1, <1>2, <2>2, ListHandlesFills, ListingSame DEF HInv
  <2> QED BY <2>1, <2>2
<1>4. ASSUME NEW p \in Partitions \ quiet' PROVE entry'.snapshot[p] = Built(p, "", AllUp)'
  <2>1. entry'.snapshot[p] = Built(p, "", down)
    BY <1>1 DEF FullSnapshot
  <2>2. Built(p, "", down) = Built(p, "", AllUp)
    BY <1>1, <1>4, BuiltBeside
  <2>3. Built(p, "", AllUp)' = Built(p, "", AllUp)
    BY <1>2, <1>3, KeptAll, ScopeKept, PartitionKept DEF JInv
  <2> QED BY <2>1, <2>2, <2>3
<1> QED BY <1>4 DEF SnapshotInv, Partitions

LEMMA SnapshotStep ==
  HInv /\ JInv /\ SnapshotInv /\ [Next]_vars => SnapshotInv'
<1> SUFFICES ASSUME HInv, JInv, SnapshotInv, [Next]_vars PROVE SnapshotInv'
  OBVIOUS
<1>1. CASE Restart
  BY <1>1 DEF Restart, SnapshotInv, Fresh, NoSnapshot
<1>2. CASE UNCHANGED vars
  BY <1>2, ListingUnchanged, QuietKept DEF vars, worldVars
<1> QED BY <1>1, <1>2, SnapshotEvent, SnapshotQuiet, SnapshotBuilt, StepKinds

LEMMA SnapshotInvariant ==
  Spec => []SnapshotInv
<1>1. Init => SnapshotInv
  BY DEF Init, SnapshotInv, Fresh
<1> QED BY <1>1, JournalInvariant, SnapshotStep, PTL DEF Spec

(* A provider that a filtered query leaves out declares another partition   *)
(* than the one it returns.                                                *)
LEMMA FilteredProviders ==
  ASSUME NEW p \in Partitions
  PROVE  /\ HostEntries(p, p, AllUp) \subseteq HostEntries(p, "", AllUp)
         /\ \A x \in HostEntries(p, "", AllUp) \ HostEntries(p, p, AllUp) : x[1].declared \notin {"", x[1].returned}
<1>1. p # ""
  BY DEF Partitions
<1>2. Asked(p) \subseteq Asked("")
  BY DEF Asked
<1>3. HostEntries(p, p, AllUp) \subseteq HostEntries(p, "", AllUp)
  BY <1>2 DEF HostEntries
<1>4. ASSUME NEW x \in HostEntries(p, "", AllUp) \ HostEntries(p, p, AllUp)
      PROVE  x[1].declared \notin {"", x[1].returned}
  <2>1. PICK provider \in Asked("") : x = <<provider, Told>> /\ Target(provider) = p
    BY DEF HostEntries
  <2>2. provider \in HostProviders /\ x[1] = provider
    BY <2>1 DEF Asked
  <2>3. provider \notin Asked(p)
    BY <2>1 DEF HostEntries
  <2>4. provider.declared \notin {"", p}
    BY <2>2, <2>3 DEF Asked
  <2>5. provider.declared # provider.returned
    BY <1>1, <2>1, <2>4 DEF Target
  <2> QED BY <2>2, <2>4, <2>5
<1> QED BY <1>3, <1>4

(* A snapshot that the cache serves says of a partition what a filtered     *)
(* query builds that can read everything, unless the partition was built   *)
(* without some of its sources or changed without a relevant event, the    *)
(* scope of the latest events included: the one watermark covers every     *)
(* other way a partition can change, and filling the registry's cache is   *)
(* none.                                                                   *)
THEOREM StaleOnlyQuietly ==
  Spec => []StaleOnlyByQuietChange
<1>1. ASSUME SnapshotInv PROVE StaleOnlyByQuietChange
  <2> SUFFICES ASSUME Fresh, NEW p \in Partitions \ quiet
               PROVE  /\ entry.snapshot[p][1] = FilteredAnswer(p)[1]
                      /\ FilteredAnswer(p)[2] \subseteq entry.snapshot[p][2]
                      /\ \A x \in entry.snapshot[p][2] \ FilteredAnswer(p)[2] :
                           x[1].declared \notin {"", x[1].returned}
    BY DEF StaleOnlyByQuietChange
  <2>1. entry.snapshot[p] = Built(p, "", AllUp)
    BY <1>1 DEF SnapshotInv
  <2>2. \E own : Built(p, "", AllUp) = <<own, HostEntries(p, "", AllUp)>> /\ Built(p, p, AllUp) = <<own, HostEntries(p, p, AllUp)>>
    BY Zenon DEF Built
  <2>3. PICK own : Built(p, "", AllUp) = <<own, HostEntries(p, "", AllUp)>> /\ Built(p, p, AllUp) = <<own, HostEntries(p, p, AllUp)>>
    BY <2>2
  <2> DEFINE cachedPart == entry.snapshot[p]
             answer == FilteredAnswer(p)
  <2>4. cachedPart = <<own, HostEntries(p, "", AllUp)>> /\ answer = <<own, HostEntries(p, p, AllUp)>>
    BY <2>1, <2>3, Zenon DEF FilteredAnswer
  <2> HIDE DEF cachedPart, answer
  <2>5. /\ cachedPart[1] = own /\ cachedPart[2] = HostEntries(p, "", AllUp)
        /\ answer[1] = own /\ answer[2] = HostEntries(p, p, AllUp)
    BY <2>4
  <2>6. /\ HostEntries(p, p, AllUp) \subseteq HostEntries(p, "", AllUp)
        /\ \A x \in HostEntries(p, "", AllUp) \ HostEntries(p, p, AllUp) : x[1].declared \notin {"", x[1].returned}
    BY FilteredProviders
  <2> QED BY <2>5, <2>6 DEF cachedPart, answer
<1> QED BY <1>1, SnapshotInvariant, PTL

(***************************************************************************)
(* Activity                                                                *)
(***************************************************************************)
LEMMA LeastOf ==
  ASSUME NEW S, S \subseteq Nat, S # {}
  PROVE  \E m \in S : \A n \in S : m <= n
<1>1. IsWellFoundedOn(OpToRel(<, Nat), Nat)
  BY NatLessThanWellFounded
<1>2. PICK m \in S : \A n \in S : ~(<<n, m>> \in OpToRel(<, Nat))
  BY <1>1, WFMin
<1>3. \A n \in S : n < m => <<n, m>> \in OpToRel(<, Nat)
  BY DEF OpToRel
<1>4. \A n \in S : ~(n < m)
  BY <1>2, <1>3, Zenon
<1> QED BY <1>4

(* Events by their sequences, each set of which has a highest one. *)
Ordered(events) ==
  /\ DOMAIN events \subseteq Nat
  /\ \A S \in SUBSET DOMAIN events : S # {} => \E m \in S : IsMax(S, m)

(* What the entries of some of the events should be: each call by the last  *)
(* of them; *)
LastAbout(events, S, c) == Max({n \in S : events[n].about = c})
ByLastEvent(events, S) ==
  [c \in {events[n].about : n \in S} |-> ToolActivityState(events[LastAbout(events, S, c)].kind)]

(* and what the fold makes of them: the last event added to the rest. *)
AddLast(events, entries, S) ==
  IF S = {} THEN <<>>
  ELSE AddEntry(entries[S \ {Max(S)}], events[Max(S)].about,
                ToolActivityState(events[Max(S)].kind))
Folding(events, entries) == [S \in SUBSET DOMAIN events |-> AddLast(events, entries, S)]

LEMMA HighestOf ==
  ASSUME NEW events, Ordered(events), NEW S \in SUBSET DOMAIN events, S # {}
  PROVE  Max(S) \in S /\ Max(S) \in Nat /\ \A n \in S : n <= Max(S)
<1>1. PICK m \in S : IsMax(S, m)
  BY DEF Ordered
<1>2. S \subseteq Nat
  BY DEF Ordered
<1> QED BY <1>1, <1>2, MaxIs DEF IsMax

LEMMA LastOfRest ==
  ASSUME NEW events, Ordered(events), NEW S \in SUBSET DOMAIN events, S # {}
  PROVE  ByLastEvent(events, S)
           = AddEntry(ByLastEvent(events, S \ {Max(S)}), events[Max(S)].about,
                      ToolActivityState(events[Max(S)].kind))
<1> DEFINE m == Max(S)
           T == S \ {m}
           a == events[m].about
           v == ToolActivityState(events[m].kind)
           f == ByLastEvent(events, S)
           g == ByLastEvent(events, T)
           of(R, c) == {n \in R : events[n].about = c}
<1>1. m \in S /\ m \in Nat /\ \A n \in S : n <= m
  BY HighestOf
<1>2. S \subseteq Nat
  BY DEF Ordered
<1>3. /\ DOMAIN f = {events[n].about : n \in S} /\ DOMAIN g = {events[n].about : n \in T}
      /\ \A c \in DOMAIN f : f[c] = ToolActivityState(events[Max(of(S, c))].kind)
      /\ \A c \in DOMAIN g : g[c] = ToolActivityState(events[Max(of(T, c))].kind)
  BY DEF ByLastEvent, LastAbout
<1>4. AddEntry(g, a, v) = [c \in DOMAIN g \cup {a} |-> IF c = a THEN v ELSE g[c]]
  BY DEF AddEntry, Overlay
<1>5. f = [c \in DOMAIN f |-> f[c]]
  BY DEF ByLastEvent
<1> HIDE DEF m, f, g, v
<1>6. DOMAIN f = DOMAIN g \cup {a}
  BY <1>1, <1>3
<1>7. of(S, a) \subseteq Nat /\ m \in of(S, a) /\ IsMax(of(S, a), m)
  BY <1>1, <1>2 DEF IsMax
<1>8. Max(of(S, a)) = m
  BY <1>7, MaxIs
<1>9. f[a] = v
  BY <1>3, <1>6, <1>8 DEF v
<1>10. ASSUME NEW c \in DOMAIN g, c # a PROVE f[c] = g[c]
  <2>1. of(S, c) = of(T, c)
    BY <1>10
  <2> QED BY <1>3, <1>6, <2>1
<1>11. \A c \in DOMAIN f : f[c] = IF c = a THEN v ELSE g[c]
  BY <1>6, <1>9, <1>10
<1>12. f = AddEntry(g, a, v)
  BY <1>4, <1>5, <1>6, <1>11
<1> QED BY <1>12 DEF f, g, m, v

LEMMA FoldsToLast ==
  ASSUME NEW events, Ordered(events)
  PROVE  LET all == [S \in SUBSET DOMAIN events |-> ByLastEvent(events, S)]
         IN  all = Folding(events, all)
<1> DEFINE all == [S \in SUBSET DOMAIN events |-> ByLastEvent(events, S)]
<1>1. ASSUME NEW S \in SUBSET DOMAIN events PROVE all[S] = AddLast(events, all, S)
  <2>1. CASE S = {}
    <3>1. ByLastEvent(events, {}) = <<>>
      BY DEF ByLastEvent
    <3> QED BY <2>1, <3>1 DEF AddLast
  <2>2. CASE S # {}
    <3>1. all[S \ {Max(S)}] = ByLastEvent(events, S \ {Max(S)})
      OBVIOUS
    <3>2. all[S] = ByLastEvent(events, S)
      OBVIOUS
    <3> HIDE DEF all
    <3>3. AddLast(events, all, S)
            = AddEntry(all[S \ {Max(S)}], events[Max(S)].about, ToolActivityState(events[Max(S)].kind))
      BY <2>2 DEF AddLast
    <3> QED BY <2>2, <3>1, <3>2, <3>3, LastOfRest
  <2> QED BY <2>1, <2>2
<1>2. all = [S \in SUBSET DOMAIN events |-> all[S]]
  OBVIOUS
<1> HIDE DEF all
<1>3. all = Folding(events, all)
  BY <1>1, <1>2 DEF Folding
<1> QED BY <1>3 DEF all

(* No two functions satisfy the recursion, by the least of the highest      *)
(* sequences of the sets they differ on.                                   *)
LEMMA FoldUnique ==
  ASSUME NEW events, Ordered(events), NEW f, f = Folding(events, f),
         NEW g, g = Folding(events, g), NEW D \in SUBSET DOMAIN events
  PROVE  f[D] = g[D]
<1> DEFINE bad == {S \in SUBSET DOMAIN events : f[S] # g[S]}
<1>1. \A S \in SUBSET DOMAIN events : f[S] = AddLast(events, f, S) /\ g[S] = AddLast(events, g, S)
  BY DEF Folding
<1>2. SUFFICES ASSUME bad # {} PROVE FALSE
  OBVIOUS
<1>3. ASSUME NEW S \in bad PROVE S # {} /\ S \ {Max(S)} \in bad
  BY <1>1, <1>3 DEF AddLast
<1>4. ASSUME NEW S \in bad PROVE Max(S) \in S /\ Max(S) \in Nat /\ \A n \in S : n <= Max(S)
  BY <1>3, <1>4, HighestOf
<1>5. {Max(S) : S \in bad} \subseteq Nat /\ {Max(S) : S \in bad} # {}
  BY <1>2, <1>4
<1>6. PICK m \in {Max(S) : S \in bad} : \A n \in {Max(S) : S \in bad} : m <= n
  BY <1>5, LeastOf
<1>7. PICK S \in bad : m = Max(S)
  BY <1>6
<1> DEFINE T == S \ {Max(S)}
<1>8. T \in bad
  BY <1>3
<1>9. Max(T) \in T /\ Max(T) \in Nat
  BY <1>4, <1>8
<1>10. Max(T) \in S /\ Max(T) # m /\ Max(T) <= m
  BY <1>4, <1>7, <1>9
<1>11. m <= Max(T)
  BY <1>6, <1>8
<1> QED BY <1>5, <1>9, <1>10, <1>11

(* The activity partition has each call once, in the state of the last of   *)
(* its events.                                                             *)
LEMMA ActivityIsLast ==
  ASSUME NEW events, Ordered(events)
  PROVE  ActivityOf(events) = ByLastEvent(events, DOMAIN events)
<1> DEFINE all == [S \in SUBSET DOMAIN events |-> ByLastEvent(events, S)]
           fold == CHOOSE f : f = Folding(events, f)
<1>1. ActivityOf(events) = fold[DOMAIN events]
  BY DEF ActivityOf, MapThenFoldSet, Folding, AddLast
<1>2. all = Folding(events, all)
  BY FoldsToLast
<1>3. all[DOMAIN events] = ByLastEvent(events, DOMAIN events)
  OBVIOUS
<1> HIDE DEF all
<1>4. fold = Folding(events, fold)
  BY <1>2
<1> HIDE DEF fold
<1>5. fold[DOMAIN events] = all[DOMAIN events]
  BY <1>2, <1>4, FoldUnique
<1> QED BY <1>1, <1>3, <1>5

(* The history of a call is the last of its events. *)
OwnEvents(c) == {s \in SeqsOf(ToolKinds) : journal[s].about = c}

LatestEventInv ==
  /\ latest = [c \in Calls |-> [seq |-> latest[c].seq, kind |-> latest[c].kind]]
  /\ \A s \in SeqsOf(ToolKinds) : journal[s].about \in Calls
  /\ \A c \in Calls :
       \/ OwnEvents(c) = {} /\ latest[c].seq = 0
       \/ /\ IsMax(OwnEvents(c), latest[c].seq)
          /\ latest[c].kind = journal[latest[c].seq].kind

LEMMA DraftsAbout ==
  ASSUME NEW event \in DraftsOfHost, event.kind \in ToolKinds
  PROVE  event.about \in Calls
BY DEF DraftsOfHost, Topics, Event, ToolKinds

LEMMA AppendsTool ==
  ASSUME JInv, EventStep
  PROVE  \E s \in Nat \ {0} : \E event :
           /\ s \notin DOMAIN journal /\ AppendEvent(s, event)
           /\ event.kind \in ToolKinds => event.about \in Calls
<1>1. LastSeq \in Nat /\ \A s \in DOMAIN journal : s <= LastSeq
  BY LastIs DEF JInv
<1>2. CASE Emit
  BY <1>1, <1>2, DraftsAbout DEF Emit
<1>3. CASE EmitAhead
  <2>1. PICK event \in DraftsOfHost : AppendEvent(LastSeq + 2, event)
    BY <1>3 DEF EmitAhead
  <2>2. LastSeq + 2 \in Nat \ {0} /\ LastSeq + 2 \notin DOMAIN journal
    BY <1>1
  <2> QED BY <2>1, <2>2, DraftsAbout
<1>4. CASE \E t \in Tools : Resolve(t)
  <2>1. PICK t \in Tools, names \in bound.namings :
          AppendEvent(LastSeq + 1, Event("permission.granted", t, names))
    BY <1>4 DEF Resolve
  <2>2. LastSeq + 1 \in Nat \ {0} /\ LastSeq + 1 \notin DOMAIN journal
    BY <1>1
  <2>3. Event("permission.granted", t, names).kind \notin ToolKinds
    BY DEF Event, ToolKinds
  <2> QED BY <2>1, <2>2, <2>3
<1> QED BY <1>2, <1>3, <1>4 DEF EventStep

LEMMA LatestEventStep ==
  JInv /\ LatestEventInv /\ [Next]_vars => LatestEventInv'
<1> SUFFICES ASSUME JInv, LatestEventInv, [Next]_vars PROVE LatestEventInv'
  OBVIOUS
<1>1. CASE UNCHANGED <<journal, latest>>
  BY <1>1 DEF LatestEventInv, OwnEvents, SeqsOf
<1>2. CASE EventStep
  <2>0. PICK s \in Nat \ {0} : \E event :
          /\ s \notin DOMAIN journal /\ AppendEvent(s, event)
          /\ event.kind \in ToolKinds => event.about \in Calls
    BY <1>2, AppendsTool
  <2>1. PICK event :
          /\ s \notin DOMAIN journal /\ AppendEvent(s, event)
          /\ event.kind \in ToolKinds => event.about \in Calls
    BY <2>0
  <2>2. /\ DOMAIN journal' = DOMAIN journal \cup {s} /\ journal'[s] = event
        /\ \A x \in DOMAIN journal : journal'[x] = journal[x]
    BY <2>1, EventAdded DEF JInv
  <2>3. DOMAIN journal \subseteq Nat \ {0}
    BY DEF JInv, JournalInv
  <2>4. latest' = IF event.kind \in ToolKinds /\ s > latest[event.about].seq
                    THEN [latest EXCEPT ![event.about] = [seq |-> s, kind |-> event.kind]] ELSE latest
    BY <2>1 DEF AppendEvent
  <2>5. SeqsOf(ToolKinds)' = IF event.kind \in ToolKinds THEN SeqsOf(ToolKinds) \cup {s}
                                                         ELSE SeqsOf(ToolKinds)
    BY <2>2 DEF SeqsOf
  <2>6. SeqsOf(ToolKinds) \subseteq DOMAIN journal
    BY DEF SeqsOf
  <2>7. \A x \in SeqsOf(ToolKinds)' : journal'[x].about \in Calls
    BY <2>1, <2>2, <2>5, <2>6 DEF LatestEventInv
  <2>8. /\ DOMAIN latest' = Calls
        /\ latest' = [c \in Calls |-> [seq |-> latest'[c].seq, kind |-> latest'[c].kind]]
    BY <2>1, <2>4 DEF LatestEventInv
  <2>9. ASSUME NEW c \in Calls
        PROVE  \/ OwnEvents(c)' = {} /\ latest'[c].seq = 0
               \/ /\ IsMax(OwnEvents(c)', latest'[c].seq)
                  /\ latest'[c].kind = journal'[latest'[c].seq].kind
    <3>1. CASE event.kind \in ToolKinds /\ event.about = c
      <4>1. OwnEvents(c)' = OwnEvents(c) \cup {s}
        BY <2>2, <2>5, <2>6, <3>1 DEF OwnEvents
      <4>2. OwnEvents(c) \subseteq DOMAIN journal
        BY <2>6 DEF OwnEvents
      <4>3. CASE OwnEvents(c) = {} /\ latest[c].seq = 0
        <5>1. latest'[c] = [seq |-> s, kind |-> event.kind]
          BY <2>4, <3>1, <4>3 DEF LatestEventInv
        <5> QED BY <2>2, <4>1, <4>3, <5>1 DEF IsMax
      <4>4. CASE IsMax(OwnEvents(c), latest[c].seq) /\ latest[c].kind = journal[latest[c].seq].kind
        <5>1. latest[c].seq \in DOMAIN journal /\ latest[c].seq \in Nat /\ latest[c].seq # s
          BY <2>1, <2>3, <4>2, <4>4 DEF IsMax
        <5>2. CASE s > latest[c].seq
          <6>1. latest'[c] = [seq |-> s, kind |-> event.kind]
            BY <2>4, <3>1, <5>2 DEF LatestEventInv
          <6>2. \A x \in OwnEvents(c) : x <= s
            BY <2>3, <4>2, <4>4, <5>1, <5>2 DEF IsMax
          <6> QED BY <2>2, <4>1, <6>1, <6>2 DEF IsMax
        <5>3. CASE s < latest[c].seq
          <6>1. latest'[c] = latest[c]
            BY <2>4, <3>1, <5>1, <5>3
          <6> QED BY <2>2, <4>1, <4>4, <5>1, <5>3, <6>1 DEF IsMax
        <5> QED BY <5>1, <5>2, <5>3
      <4> QED BY <4>3, <4>4 DEF LatestEventInv
    <3>2. CASE ~(event.kind \in ToolKinds /\ event.about = c)
      <4>1. OwnEvents(c)' = OwnEvents(c)
        BY <2>2, <2>5, <2>6, <3>2 DEF OwnEvents
      <4>2. latest'[c] = latest[c]
        BY <2>1, <2>4, <3>2 DEF LatestEventInv
      <4>3. \A x \in OwnEvents(c) : journal'[x] = journal[x]
        BY <2>2, <2>6 DEF OwnEvents
      <4> QED BY <4>1, <4>2, <4>3 DEF LatestEventInv, IsMax
    <3> QED BY <3>1, <3>2
  <2> QED BY <2>7, <2>8, <2>9 DEF LatestEventInv
<1>3. CASE QuietStep
  <2>1. UNCHANGED <<journal, latest>>
    BY <1>3 DEF QuietStep, ResolveEventRefused, CloseSession, LearnFacts, PutMemory, BeginWrite,
                ContinueWrite, WriteFails, EditFile, FilesOnly, worldVars, RegisterContextHandle,
                MaterializeContext, ListHandles
  <2> QED BY <1>1, <2>1
<1>4. CASE BuildWorldState
  BY <1>1, <1>4 DEF BuildWorldState
<1>5. CASE Restart
  BY <1>1, <1>5 DEF Restart
<1>6. CASE UNCHANGED vars
  BY <1>1, <1>6 DEF vars, worldVars
<1> QED BY <1>2, <1>3, <1>4, <1>5, <1>6, StepKinds

(* The activity partition of a served snapshot shows every tool call in the *)
(* state of its latest event, in whatever order the events were given      *)
(* their sequences: addActivityWorldState.                                 *)
THEOREM ActivityFollows ==
  Spec => []ActivityFollowsJournal
<1>1. ASSUME JInv, SnapshotInv, LatestEventInv PROVE ActivityFollowsJournal
  <2> SUFFICES ASSUME Fresh, "activity" \notin quiet
               PROVE  entry.snapshot["activity"][1] =
                        [c \in {x \in Calls : latest[x].seq > 0} |-> ToolActivityState(latest[c].kind)]
    BY DEF ActivityFollowsJournal
  <2> DEFINE events == EventsOf(ToolKinds)
             D == SeqsOf(ToolKinds)
  <2>1. entry.snapshot["activity"] = Built("activity", "", AllUp)
    BY <1>1 DEF SnapshotInv, Partitions
  <2>2. entry.snapshot["activity"][1] = ActivityEntries
    <3>1. ASSUME NEW partition, partition = "activity"
          PROVE  Built(partition, "", AllUp) = <<ActivityEntries, HostEntries(partition, "", AllUp)>>
      BY <3>1 DEF Built
    <3>2. \E host : entry.snapshot["activity"] = <<ActivityEntries, host>>
      BY <2>1, <3>1, Zenon
    <3> QED BY <3>2
  <2>3. DOMAIN events = D /\ \A s \in D : events[s] = journal[s]
    BY DEF EventsOf
  <2>4. D \subseteq DOMAIN journal /\ DOMAIN journal \subseteq Nat \ {0}
    BY <1>1 DEF SeqsOf, JInv, JournalInv
  <2>5. Ordered(events)
    BY <1>1, <2>3, <2>4 DEF Ordered, JInv, JournalInv
  <2>6. ActivityEntries = ByLastEvent(events, D)
    BY <2>3, <2>5, ActivityIsLast DEF ActivityEntries, EventsOf
  <2>7. {events[n].about : n \in D} = {x \in Calls : latest[x].seq > 0}
    <3>1. ASSUME NEW n \in D PROVE events[n].about \in Calls /\ latest[events[n].about].seq > 0
      <4>1. events[n].about \in Calls /\ n \in OwnEvents(events[n].about)
        BY <1>1, <2>3 DEF LatestEventInv, OwnEvents
      <4>2. IsMax(OwnEvents(events[n].about), latest[events[n].about].seq)
        BY <1>1, <4>1 DEF LatestEventInv
      <4>3. latest[events[n].about].seq \in D
        BY <4>2 DEF IsMax, OwnEvents
      <4> QED BY <2>4, <4>1, <4>3
    <3>2. ASSUME NEW x \in Calls, latest[x].seq > 0 PROVE \E n \in D : events[n].about = x
      <4>1. latest[x].seq \in OwnEvents(x)
        BY <1>1, <3>2 DEF LatestEventInv, IsMax
      <4> QED BY <2>3, <4>1 DEF OwnEvents
    <3> QED BY <3>1, <3>2
  <2>8. ASSUME NEW c \in Calls, latest[c].seq > 0
        PROVE  events[LastAbout(events, D, c)].kind = latest[c].kind
    <3>1. /\ IsMax(OwnEvents(c), latest[c].seq)
          /\ latest[c].kind = journal[latest[c].seq].kind
      BY <1>1, <2>8 DEF LatestEventInv
    <3>2. OwnEvents(c) = {n \in D : events[n].about = c} /\ OwnEvents(c) \subseteq D
      BY <2>3 DEF OwnEvents
    <3>3. OwnEvents(c) \subseteq Nat
      BY <2>4, <3>2
    <3>4. LastAbout(events, D, c) = latest[c].seq
      BY <3>1, <3>2, <3>3, MaxIs DEF LastAbout
    <3>5. latest[c].seq \in D
      BY <3>1, <3>2 DEF IsMax
    <3> QED BY <2>3, <3>1, <3>4, <3>5
  <2> HIDE DEF events, D
  <2> QED BY <2>2, <2>6, <2>7, <2>8 DEF ByLastEvent
<1>2. Init => LatestEventInv
  BY DEF Init, LatestEventInv, OwnEvents, SeqsOf
<1> QED BY <1>1, <1>2, JournalInvariant, SnapshotInvariant, LatestEventStep, PTL DEF Spec
================================================================================
