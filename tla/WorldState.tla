------------------------------ MODULE WorldState -------------------------------
(***************************************************************************)
(* The projection of one run, Run: how its partitions are built from the   *)
(* journal, the registry of handles, the stores and the host's providers,  *)
(* and what the cached snapshot of unfiltered queries still says after     *)
(* each of them has changed.                                               *)
(*                                                                         *)
(* The owner makes one call at a time, except that events are emitted, and *)
(* files edited, at any moment; queries that overlap with Emit are in      *)
(* WorldStateCache, the allocation of sequences is in EventJournal and the *)
(* permissions behind a decision are in Permissions.  An entry of a        *)
(* partition is its id with what may change of it.                         *)
(***************************************************************************)
EXTENDS HandleRegistry, Workspace, SequencesExt

CONSTANTS
  Run,            \* the run, one of Runs
  Calls,          \* tool calls, by their tool_call_id
  Tools,          \* tools that are not read-only
  Records,        \* memory records of the run
  HostProviders,  \* host projections: the partition they declare, and the one they return
  Namings,        \* the fields of the scope that an event may name, with their values
  Holders,        \* the fields of the scope that a grant is bound to
  Outages,        \* reads and host providers that fail together
  TaskWindow,     \* how many events the task partition has, 12 in the code
  Instances       \* bounds: sets of events, changes, artifacts and mishaps, and namings

ScopeFields == {"session", "task", "actor", "owner", "mode"}

(* What a snapshot reads besides the events, and the partition it feeds: the *)
(* registry's listing, the memory store twice, the host's memory and          *)
(* hypothesis providers, the stored tool schemas, the host's inventories, the *)
(* session's record for both permission partitions, and the grants.           *)
PartitionOfRead ==
  [handles |-> "context", memories |-> "memory", memoryFacts |-> "memory",
   proposals |-> "hypothesis", hypotheses |-> "hypothesis", specs |-> "capability",
   inventories |-> "capability", session |-> "capability", grants |-> "capability",
   sessionStatus |-> "governance"]

Reads == DOMAIN PartitionOfRead

AllUp == [reads |-> {}, providers |-> {}]

ASSUME WorldStateAssumption ==
  /\ Run \in Runs
  /\ \A h \in Handles : h \notin Nat
  /\ TaskWindow \in Nat \ {0}
  /\ \A n \in Namings \cup Holders : DOMAIN n \subseteq ScopeFields
  /\ Outages \subseteq [reads : SUBSET Reads, providers : SUBSET HostProviders]
  /\ \A b \in Instances : b \in [events : Nat, changes : Nat, artifacts : Nat, mishaps : Nat,
                                 namings : SUBSET Namings]

VARIABLES
  journal,   \* the events of Run, by their sequence
  memories,  \* the stage of each memory record
  grants,    \* the persisted grants, each of a tool and bound to a holder
  closing,   \* is the session of the run stopping or stopped
  facts,     \* the version of what the host's providers know
  entry,     \* the cached snapshot of Run, and the watermark it was stamped with
  projSeq,   \* the highest relevant sequence observed by this process
  latest,    \* history: the event of each call with the highest sequence
  quiet,     \* history: partitions of the snapshot that were built without some of their
             \* sources, or changed since then without raising projSeq
  bound, changes, mishaps

worldVars == <<journal, memories, grants, closing, facts, entry, projSeq, latest, quiet>>
vars == <<registryVars, workspaceVars, worldVars, bound, changes, mishaps>>

(***************************************************************************)
(* Events                                                                  *)
(***************************************************************************)
ToolKinds == {"tool.invoked", "tool.succeeded", "tool.failed"}

(* An event with the fields of its payload that a partition uses, and the   *)
(* fields of a scope that it names.                                        *)
Event(kind, about, names) == [kind |-> kind, about |-> about, names |-> names]

Topics ==
  (ToolKinds \X Calls)
  \cup ({"context.packet.created"} \X SUBSET Tools)
  \cup ({"permission.requested", "permission.denied"} \X Tools)
  \cup ({"turn.completed", "model.requested"} \X {"turn"})

DraftsOfHost == {Event(topic[1], topic[2], names) : topic \in Topics, names \in bound.namings}

(* The partitions whose content depends on events of a kind. *)
FedBy(kind) ==
  {"task"} \cup
  (IF kind \in ToolKinds THEN {"activity"} ELSE {}) \cup
  (IF kind = "context.packet.created" THEN {"context", "capability"} ELSE {}) \cup
  (IF kind \in {"permission.requested", "permission.granted", "permission.denied"}
     THEN {"governance"} ELSE {})

(* Variant: a failed tool call is not relevant. *)
LessRelevantKinds ==
  {"context.packet.created", "tool.invoked", "tool.succeeded", "permission.requested",
   "permission.granted", "permission.denied", "turn.completed"}

(* projectionRelevantEvents, of the kinds there are here. *)
RelevantKinds ==
  {"context.packet.created", "tool.invoked", "tool.succeeded", "tool.failed",
   "permission.requested", "permission.granted", "permission.denied", "turn.completed"}

LastSeq == Max(DOMAIN journal \cup {0})
SeqsOf(kinds) == {s \in DOMAIN journal : journal[s].kind \in kinds}

(* worldStateScopeFromEvents: each field as the latest event, of whatever    *)
(* kind, that names it.                                                    *)
LastNamed(field, default) ==
  LET naming == {s \in DOMAIN journal : field \in DOMAIN journal[s].names}
  IN IF naming = {} THEN default ELSE journal[Max(naming)].names[field]

Scope ==
  LET actor == LastNamed("actor", "local")
  IN [session |-> LastNamed("session", "none"), task |-> LastNamed("task", "none"),
      actor |-> actor, owner |-> LastNamed("owner", actor),
      mode |-> LastNamed("mode", "default")]

(* What the host's providers answer: they are asked with the scope.  What    *)
(* they make of the events they are given counts as a change of facts.     *)
Told == <<facts, Scope>>

(***************************************************************************)
(* Partitions, each as its entries, when what is down cannot be read       *)
(***************************************************************************)
Partitions ==
  {"memory", "capability", "activity", "task", "context", "governance", "hypothesis"}

(* Both in one; where both have an id, the second gives its value. *)
Overlay(entries, newer) ==
  [id \in DOMAIN entries \cup DOMAIN newer |->
     IF id \in DOMAIN newer THEN newer[id] ELSE entries[id]]

(* Variant: an id that is there already is kept. *)
KeepFirst(entries, id, value) == Overlay([x \in {id} |-> value], entries)

(* addEntry and addHandle: one per id, of the latest source.  The events    *)
(* come in the order of their sequences.                                   *)
AddEntry(entries, id, value) == Overlay(entries, [x \in {id} |-> value])

(* addActivityWorldState: the state of a call by its latest event, since    *)
(* the event with the highest sequence is added last.                      *)
ToolActivityState(kind) ==
  CASE kind = "tool.succeeded" -> "completed"
    [] kind = "tool.failed" -> "failed"
    [] OTHER -> "running"

ActivityOf(events) ==
  MapThenFoldSet(LAMBDA s, entries :
                   AddEntry(entries, events[s].about, ToolActivityState(events[s].kind)),
                 <<>>, LAMBDA s : s, Max, DOMAIN events)

ActivityEntries == ActivityOf([s \in SeqsOf(ToolKinds) |-> journal[s]])

(* addTaskWorldState: the last events, of whatever kind. *)
TaskEntries ==
  [s \in {x \in DOMAIN journal : Cardinality({y \in DOMAIN journal : y > x}) < TaskWindow} |->
     journal[s].kind]

(* addContextWorldState *)
ContextEntries(down) ==
  Overlay([s \in SeqsOf({"context.packet.created"}) |-> "assembled"],
          IF "handles" \in down.reads THEN <<>> ELSE Listing(Run))

(* findPermissionGrant: a grant is found by the scope it is bound to. *)
GrantFound(t) ==
  \E grant \in grants :
    grant.tool = t /\ \A field \in DOMAIN grant.holder : Scope[field] = grant.holder[field]

(* A tool, or a skill of that name, is authorized by the mode or by a grant, *)
(* while the session is open or cannot be read.  The state of a capability  *)
(* also carries the hash of the scope.                                     *)
CapabilityStatus(t, down) ==
  LET open == ~closing \/ "session" \in down.reads
      granted == "grants" \notin down.reads /\ GrantFound(t)
  IN <<IF open /\ (Scope.mode = "yolo" \/ granted) THEN "authorized" ELSE "available", Scope>>

LatestPacketTools ==
  LET packets == SeqsOf({"context.packet.created"})
  IN IF packets = {} THEN {} ELSE journal[Max(packets)].about

(* What the host's inventories know of skills. *)
InventoryEntries(down) ==
  IF "inventories" \in down.reads THEN <<>>
  ELSE [item \in {"skill"} \X Tools |-> <<Told, CapabilityStatus(item[2], down)>>]

(* addCapabilityWorldState: the tools of the latest packet, and the inventories. *)
CapabilityEntries(down) ==
  Overlay(InventoryEntries(down),
          [t \in IF "specs" \in down.reads THEN {} ELSE LatestPacketTools |->
             CapabilityStatus(t, down)])

(* addGovernanceWorldState, of permissionSnapshotFromEvents. *)
GovernanceEntries(down) ==
  LET requests == SeqsOf({"permission.requested"})
      grantings == SeqsOf({"permission.granted"})
      denials == SeqsOf({"permission.denied"})
      pending == {s \in requests : \A x \in requests \cup grantings \cup denials :
                    journal[x].about = journal[s].about => x <= s}
      blocked == closing /\ "sessionStatus" \notin down.reads
  IN {<<"pending", journal[s].about, blocked>> : s \in pending}
     \cup {<<"denied", s>> : s \in denials}
     \cup (IF blocked THEN {} ELSE {<<"grant", journal[s].about>> : s \in grantings})
     \cup {<<"rules", Scope.mode, blocked>>}

(* addMemoryWorldState and addHypothesisWorldState *)
MemoryVisible(m) == memories[m] \notin {"absent", "rejected", "superseded", "invalidated"}
FromHost(read, down) == IF read \in down.reads THEN {} ELSE {<<"host", Told>>}
MemoryEntries(down) ==
  (IF "memories" \in down.reads THEN {}
   ELSE {<<m, memories[m]>> : m \in {x \in Records : MemoryVisible(x) /\ memories[x] # "proposed"}})
  \cup FromHost("memoryFacts", down)
HypothesisEntries(down) ==
  (IF "proposals" \in down.reads THEN {}
   ELSE {<<m, "proposed">> : m \in {x \in Records : memories[x] = "proposed"}})
  \cup FromHost("hypotheses", down)

(* addExternalWorldStateProviders: a provider that declares another         *)
(* partition than the one selected is not asked, and what it returns goes   *)
(* to the partition it names there, if it names one.                       *)
Target(provider) ==
  IF provider.returned # "" THEN provider.returned
  ELSE IF provider.declared # "" THEN provider.declared ELSE "external"

Asked(selected) ==
  {provider \in HostProviders : selected = "" \/ provider.declared \in {"", selected}}

HostEntries(partition, selected, down) ==
  {<<provider, Told>> :
     provider \in {x \in Asked(selected) \ down.providers : Target(x) = partition}}

(* One partition of buildWorldStateSnapshot. *)
Built(partition, selected, down) ==
  << CASE partition = "activity" -> ActivityEntries
       [] partition = "task" -> TaskEntries
       [] partition = "context" -> ContextEntries(down)
       [] partition = "capability" -> CapabilityEntries(down)
       [] partition = "governance" -> GovernanceEntries(down)
       [] partition = "memory" -> MemoryEntries(down)
       [] partition = "hypothesis" -> HypothesisEntries(down),
     HostEntries(partition, selected, down) >>

(* A partition outside worldStatePartitionOrder is left out. *)
FullSnapshot(down) == [partition \in Partitions |-> Built(partition, "", down)]
FilteredAnswer(partition) == Built(partition, partition, AllUp)

(* The partitions that what the host knows is in, beside those of its        *)
(* memory, hypothesis and inventory providers.                             *)
FedByHost ==
  {"memory", "hypothesis", "capability"} \cup ({Target(x) : x \in HostProviders} \cap Partitions)
FedByScope == FedByHost \cup {"governance"}

(* The partitions that are built without some of their sources. *)
Lost(down) ==
  {PartitionOfRead[read] : read \in down.reads}
  \cup ({Target(x) : x \in down.providers} \cap Partitions)

(***************************************************************************)
(* The initial state                                                       *)
(***************************************************************************)
NoSnapshot == [snapshot |-> <<>>, upTo |-> 0]

Init ==
  /\ RegistryInit
  /\ WorkspaceInit
  /\ journal = <<>>
  /\ memories = [m \in Records |-> "absent"]
  /\ grants = {}
  /\ closing = FALSE
  /\ facts = 0
  /\ entry = NoSnapshot
  /\ projSeq = 0
  /\ latest = [c \in Calls |-> [seq |-> 0, kind |-> "none"]]
  /\ quiet = {}
  /\ bound \in Instances
  /\ changes = 0
  /\ mishaps = 0

Change == changes < bound.changes /\ changes' = changes + 1
Mishap == mishaps < bound.mishaps /\ mishaps' = mishaps + 1
NoChange == UNCHANGED changes
NoMishap == UNCHANGED mishaps

Quietly(partitions) == quiet' = quiet \cup partitions

(***************************************************************************)
(* Emit and what changes without an event                                  *)
(***************************************************************************)

(* observeEvent: only a relevant event with a higher sequence invalidates   *)
(* the snapshot.  Of an event at the journal's end that is not relevant the *)
(* code says that it changes no partition; it does change the task          *)
(* partition, and the scope when it names a field of it.                   *)
ObserveEvent(s, kind) ==
  IF kind \in RelevantKinds /\ s > projSeq THEN projSeq' = s /\ UNCHANGED quiet
  ELSE /\ UNCHANGED projSeq
       /\ Quietly({"task"} \cup (IF s > projSeq THEN {} ELSE FedBy(kind))
                           \cup (IF Scope' = Scope THEN {} ELSE FedByScope))

AppendEvent(s, event) ==
  /\ Cardinality(DOMAIN journal) < bound.events
  /\ journal' = Overlay(journal, [x \in {s} |-> event])
  /\ latest' = IF event.kind \in ToolKinds /\ s > latest[event.about].seq
                 THEN [latest EXCEPT ![event.about] = [seq |-> s, kind |-> event.kind]] ELSE latest
  /\ ObserveEvent(s, event.kind)

(* With the next sequence, or with one of the draft's own that is free. *)
Emit ==
  /\ \E s \in 1 .. LastSeq + 1, event \in DraftsOfHost :
       /\ s \notin DOMAIN journal
       /\ AppendEvent(s, event)
  /\ NoChange /\ NoMishap
  /\ UNCHANGED <<registryVars, workspaceVars, memories, grants, closing, facts, entry, bound>>

EmitAhead ==
  /\ \E event \in DraftsOfHost : AppendEvent(LastSeq + 2, event)
  /\ Change /\ NoMishap
  /\ UNCHANGED <<registryVars, workspaceVars, memories, grants, closing, facts, entry, bound>>

(* ResolvePermission: the grant, then its event, which may be refused. *)
Grant(t, holder) == grants' = grants \cup {[tool |-> t, holder |-> holder]}

Resolve(t) ==
  /\ \E s \in SeqsOf({"permission.requested"}) : journal[s].about = t
  /\ \E holder \in Holders : Grant(t, holder)
  /\ \E names \in bound.namings :
       AppendEvent(LastSeq + 1, Event("permission.granted", t, names))
  /\ NoChange /\ NoMishap
  /\ UNCHANGED <<registryVars, workspaceVars, memories, closing, facts, entry, bound>>

ResolveEventRefused(t) ==
  /\ \E s \in SeqsOf({"permission.requested"}) : journal[s].about = t
  /\ \E holder \in Holders : Grant(t, holder)
  /\ Quietly({"capability"})
  /\ Mishap /\ NoChange
  /\ UNCHANGED <<registryVars, workspaceVars, journal, memories, closing, facts, entry,
                 projSeq, latest, bound>>

(* The session of the run is stopped or starts to drain. *)
CloseSession ==
  /\ ~closing
  /\ closing' = TRUE
  /\ Quietly({"capability", "governance"})
  /\ Change /\ NoMishap
  /\ UNCHANGED <<registryVars, workspaceVars, journal, memories, grants, facts, entry,
                 projSeq, latest, bound>>

(* PutMemory has no caller in the repository: another user of the store. *)
PutMemory(m, stage) ==
  /\ memories[m] # stage
  /\ memories' = [memories EXCEPT ![m] = stage]
  /\ Quietly({"memory", "hypothesis"})
  /\ Change /\ NoMishap
  /\ UNCHANGED <<registryVars, workspaceVars, journal, grants, closing, facts, entry,
                 projSeq, latest, bound>>

(* What the host's providers know changes. *)
LearnFacts ==
  /\ facts' = facts + 1
  /\ Quietly(FedByHost)
  /\ Change /\ NoMishap
  /\ UNCHANGED <<registryVars, workspaceVars, journal, memories, grants, closing, entry,
                 projSeq, latest, bound>>

(***************************************************************************)
(* Files and handles                                                       *)
(***************************************************************************)
FilesOnly == UNCHANGED <<registryVars, worldVars, bound>>

BeginWrite ==
  /\ Len(artifacts) < bound.artifacts
  /\ \E p \in Paths, c \in Contents :
       \/ CheckWrite(p, c, FALSE) /\ NoMishap
       \/ CheckWrite(p, c, TRUE) /\ Mishap
  /\ NoChange /\ FilesOnly

ContinueWrite ==
  /\ WriteDisk \/ HashDisk \/ RecordArtifact
  /\ NoChange /\ NoMishap /\ FilesOnly

WriteFails ==
  /\ \/ RecordRefused
     \/ writer.phase \in {"checked", "written"} /\ BreakOff
  /\ Mishap /\ NoChange /\ FilesOnly

EditFile ==
  /\ \E p \in Paths, content \in Contents \cup {Absent} : EditOutside(p, content)
  /\ Mishap /\ NoChange /\ FilesOnly

(* RegisterContextHandle, of an artifact the host was given. *)
RegisterContextHandle ==
  /\ writer = Idle
  /\ \E h \in Handles, r \in Runs, i \in DOMAIN artifacts :
       \/ Register(h, [run |-> r, ref |-> i]) /\ NoMishap
       \/ RegisterRefused(h, [run |-> r, ref |-> i]) /\ Mishap
  /\ Quietly({"context"})
  /\ Change
  /\ UNCHANGED <<workspaceVars, journal, memories, grants, closing, facts, entry, projSeq,
                 latest, bound>>

(* MaterializeContext fills the registry's cache. *)
Materialized(h) == artifacts[Served(h).ref].preview

MaterializeContext ==
  /\ writer = Idle
  /\ \E h \in Handles : Served(h) # Unknown /\ Get(h)
  /\ NoChange /\ NoMishap
  /\ UNCHANGED <<workspaceVars, worldVars, bound>>

(***************************************************************************)
(* Queries                                                                 *)
(***************************************************************************)

(* put stamps the snapshot with the watermark of this moment. *)
Stamp == projSeq

Fresh == entry # NoSnapshot /\ entry.upTo >= projSeq

(* WorldState without a partition, when the cache does not answer it: what   *)
(* cannot be read leaves at most a warning in the snapshot, which is cached *)
(* all the same.                                                           *)
BuildWorldState ==
  /\ writer = Idle
  /\ ~Fresh
  /\ \E down \in Outages \cup {AllUp} :
       /\ entry' = [snapshot |-> FullSnapshot(down), upTo |-> Stamp]
       /\ quiet' = Lost(down)
       /\ IF "handles" \in down.reads THEN UNCHANGED registryVars ELSE ListByRunID(Run)
       /\ IF down = AllUp THEN NoMishap ELSE Mishap
  /\ NoChange
  /\ UNCHANGED <<workspaceVars, journal, memories, grants, closing, facts, projSeq, latest, bound>>

(* WorldState with a partition, or of another run: only the listing is left *)
(* of it.  It may take back a registration that the store refused.         *)
ListHandles(r) ==
  /\ writer = Idle
  /\ ListByRunID(r)
  /\ Quietly(IF r # Run /\ refused # {} THEN {"context"} ELSE {})
  /\ NoChange /\ NoMishap
  /\ UNCHANGED <<workspaceVars, journal, memories, grants, closing, facts, entry, projSeq,
                 latest, bound>>

(* A crash or a shutdown, and a new process on the same store. *)
Restart ==
  /\ BreakOff
  /\ ForgetHandles
  /\ entry' = NoSnapshot
  /\ projSeq' = 0
  /\ quiet' = {}
  /\ Mishap /\ NoChange
  /\ UNCHANGED <<journal, memories, grants, closing, facts, latest, bound>>

Next ==
  \/ Emit \/ EmitAhead
  \/ \E t \in Tools : Resolve(t) \/ ResolveEventRefused(t)
  \/ CloseSession \/ LearnFacts
  \/ \E m \in Records, stage \in {"proposed", "committed", "superseded"} : PutMemory(m, stage)
  \/ BeginWrite \/ ContinueWrite \/ WriteFails \/ EditFile
  \/ RegisterContextHandle \/ MaterializeContext
  \/ BuildWorldState \/ \E r \in Runs : ListHandles(r)
  \/ Restart

Spec == Init /\ [][Next]_vars
(***************************************************************************)
(* Properties                                                              *)
(***************************************************************************)

(* The state keeps its types, and no snapshot is stamped ahead of the       *)
(* events that were observed.                                              *)
WorldTypeOK ==
  /\ RegistryTypeOK
  /\ WorkspaceTypeOK
  /\ DOMAIN journal \subseteq Nat \ {0}
  /\ DOMAIN entry.snapshot \in {{}, Partitions}
  /\ quiet \subseteq Partitions
  /\ grants \subseteq [tool : Tools, holder : Holders]
  /\ entry.upTo <= projSeq
  /\ projSeq \in SeqsOf(RelevantKinds) \cup {0}

(* A snapshot served from the cache says of each partition what a filtered  *)
(* query, which is never cached, says of it when it can read everything,    *)
(* with these exceptions.  The partition was built without some of its      *)
(* sources, because they could not be read.  Or it changed without an event *)
(* that raised the watermark: by the registry, the stores, the session's    *)
(* status, the host's facts, an event at an explicit lower sequence, or an  *)
(* event that is not relevant, which changes the task partition and, when   *)
(* it names another actor, session, task or mode, what is permitted and     *)
(* what the host's providers are asked.  A provider that returns another    *)
(* partition than it declares is missing from the filtered answer.         *)
StaleOnlyByQuietChange ==
  Fresh =>
    \A p \in Partitions \ quiet :
      LET cachedPart == entry.snapshot[p]
          answer == FilteredAnswer(p)
      IN /\ cachedPart[1] = answer[1]
         /\ answer[2] \subseteq cachedPart[2]
         /\ \A x \in cachedPart[2] \ answer[2] : x[1].declared \notin {"", x[1].returned}

(* The activity partition of a served snapshot shows each tool call in the  *)
(* state of its latest event: a call that is over is not shown running, and *)
(* no call is missing.                                                     *)
ActivityFollowsJournal ==
  Fresh /\ "activity" \notin quiet =>
    entry.snapshot["activity"][1] =
      [c \in {x \in Calls : latest[x].seq > 0} |-> ToolActivityState(latest[c].kind)]

(* A handle that a served snapshot lists is materialized from the record it *)
(* was listed with, also after a registration that the store refused.       *)
ListedIsServed ==
  Fresh /\ "context" \notin quiet =>
    \A h \in DOMAIN entry.snapshot["context"][1] \cap Handles :
      Served(h) = entry.snapshot["context"][1][h]

(* What Materialize returns for a handle is the preview of the artifact the *)
(* last successful registration named, in this process and in the next one, *)
(* unless the store has refused a later one; and the preview is the content *)
(* that was hashed, unless others edited the file during the write.         *)
MaterializedAsRegistered ==
  \A h \in Handles \ refused :
    registered[h] # Unknown =>
      /\ Served(h) = registered[h]
      /\ stored[h] = registered[h]
      /\ LET art == artifacts[registered[h].ref] IN
           ~art.edited => Materialized(h) = art.hash

(* Through its cache the registry shows each handle as HandleStore          *)
(* promises: neither a lookup, a listing, a build nor a restart brings back *)
(* a record that was replaced, or loses a handle.                          *)
Store == INSTANCE HandleStore WITH
  kept  <- stored,
  shown <- [h \in Handles |-> Served(h)]

ImplementsStore == Store!Spec

(* A path is refused as tampered with only if others edited the file or a   *)
(* write ended without its artifact; the writes that were recorded never    *)
(* stand in the way of the next one.                                       *)
PathStaysWritable ==
  \A p \in Paths : Tampered(p) /\ writer.path # p => p \in disturbed

(* A write does not replace content that differs from the latest artifact   *)
(* of its path, unless it came there after the check, or the store refused  *)
(* the lookup.                                                             *)
EditsSurvive ==
  [][\A p \in Paths :
       writer.phase = "checked" /\ writer'.phase = "written" /\ writer.path = p =>
         \/ disk[p] = Absent
         \/ ArtifactsOf(p) = {}
         \/ disk[p] = artifacts[Max(ArtifactsOf(p))].hash
         \/ writer.edited
         \/ writer.unchecked]_vars
================================================================================
