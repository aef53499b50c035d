------------------------------- MODULE Workspace -------------------------------
(***************************************************************************)
(* The audited writes to the files of the workspace: each write compares   *)
(* the file with the latest artifact of its path, replaces it, hashes what *)
(* it finds there, and registers an artifact.  Others edit the files at    *)
(* any moment, and a crash, an error of the file system or a refused        *)
(* registration ends a write midway.                                       *)
(*                                                                         *)
(* A hash is the content it is the hash of.  The owner makes one write at  *)
(* a time; its permission is in Permissions.                               *)
(***************************************************************************)
EXTENDS Naturals, Sequences, FiniteSetsExt

CONSTANTS
  Paths,
  Contents,
  None

Absent == "absent"  \* there is no file
Torn == "torn"      \* a file that was left half written

Artifact == [path : Paths, hash : Contents \cup {Torn}, preview : Contents, edited : BOOLEAN]

ASSUME WorkspaceAssumption == None \notin Paths \cup Artifact

VARIABLES
  disk,       \* what is at each path
  artifacts,  \* the registered artifacts, in the order of created_at
  writer,     \* the write in progress
  disturbed   \* history: paths edited, or with a write that broke off, since their latest artifact

workspaceVars == <<disk, artifacts, writer, disturbed>>

(* edited: history, did others edit the file since the check.               *)
(* unchecked: did the store refuse the lookup.                              *)
Idle == [phase |-> "idle", path |-> None, content |-> None, hash |-> None,
         edited |-> FALSE, unchecked |-> FALSE]

WorkspaceInit ==
  /\ disk \in [Paths -> {Absent} \cup Contents]
  /\ artifacts = <<>>
  /\ writer = Idle
  /\ disturbed = {}

ArtifactsOf(p) == {i \in DOMAIN artifacts : artifacts[i].path = p}

(* Variant: the order of created_at is ascending. *)
FirstArtifact(p) == IF ArtifactsOf(p) = {} THEN None ELSE artifacts[Min(ArtifactsOf(p))]

(* GetLatestArtifactByPath *)
LatestArtifact(p) == IF ArtifactsOf(p) = {} THEN None ELSE artifacts[Max(ArtifactsOf(p))]

(* Variant: a file that was restored to an older artifact is in order. *)
TamperedAgainstAll(p) ==
  /\ disk[p] # Absent
  /\ ArtifactsOf(p) # {}
  /\ \A i \in ArtifactsOf(p) : artifacts[i].hash # disk[p]

(* "tamper detected": the file is not what was recorded last. *)
Tampered(p) ==
  /\ disk[p] # Absent
  /\ LatestArtifact(p) # None
  /\ LatestArtifact(p).hash # disk[p]

(* WriteFile up to the check.  A lookup that fails is no record. *)
CheckWrite(p, c, lookupFails) ==
  /\ writer = Idle
  /\ lookupFails \/ ~Tampered(p)
  /\ writer' = [Idle EXCEPT !.phase = "checked", !.path = p, !.content = c,
                            !.unchecked = lookupFails]
  /\ UNCHANGED <<disk, artifacts, disturbed>>

WriteDisk ==
  /\ writer.phase = "checked"
  /\ disk' = [disk EXCEPT ![writer.path] = writer.content]
  /\ writer' = [writer EXCEPT !.phase = "written"]
  /\ UNCHANGED <<artifacts, disturbed>>

(* calculateSHA256 reads the file again. *)
HashDisk ==
  /\ writer.phase = "written"
  /\ IF disk[writer.path] = Absent
       THEN writer' = Idle
       ELSE writer' = [writer EXCEPT !.phase = "hashed", !.hash = disk[writer.path]]
  /\ UNCHANGED <<disk, artifacts, disturbed>>

(* PutArtifact; the preview is of the content that was to be written. *)
RecordArtifact ==
  /\ writer.phase = "hashed"
  /\ artifacts' = Append(artifacts,
       [path |-> writer.path, hash |-> writer.hash, preview |-> writer.content,
        edited |-> writer.edited])
  /\ disturbed' = IF writer.edited THEN disturbed ELSE disturbed \ {writer.path}
  /\ writer' = Idle
  /\ UNCHANGED disk

RecordRefused ==
  /\ writer.phase = "hashed"
  /\ disturbed' = disturbed \cup {writer.path}
  /\ writer' = Idle
  /\ UNCHANGED <<disk, artifacts>>

(* A crash, or an error before the artifact is put; in the middle of         *)
(* os.WriteFile the file is left half written.                             *)
BreakOff ==
  /\ \/ UNCHANGED disk
     \/ /\ writer.phase = "checked"
        /\ disk' = [disk EXCEPT ![writer.path] = Torn]
  /\ writer' = Idle
  /\ disturbed' = IF writer = Idle THEN disturbed ELSE disturbed \cup {writer.path}
  /\ UNCHANGED artifacts

(* A tool, a user or another program changes or removes the file. *)
EditOutside(p, content) ==
  /\ disk[p] # content
  /\ disk' = [disk EXCEPT ![p] = content]
  /\ disturbed' = disturbed \cup {p}
  /\ writer' = [writer EXCEPT !.edited = @ \/ writer.path = p]
  /\ UNCHANGED artifacts

WorkspaceTypeOK ==
  /\ disk \in [Paths -> Contents \cup {Absent, Torn}]
  /\ artifacts \in Seq(Artifact)
  /\ writer.phase \in {"idle", "checked", "written", "hashed"}
  /\ writer.phase = "idle" <=> writer = Idle
  /\ disturbed \subseteq Paths
================================================================================
