# RTAgent-SDK in TLA+

TLA+ models of the agent runtime in `pkg/rtagent` and `internal/`, the TLC
configurations that check them, and TLAPS proofs of the safety of each of the
models: the session lifecycle, the event journal and the cache beside it, the
permission center, the run lease, the core loop, the model turns with the tool
registry, and WorldState with the handles and the files it lists.
Paths are relative to the root of the repository; "handbook" is
`docs/sdk-handbook.md`.

1. [The system](#1-the-system)
2. [The modules and the code](#2-the-modules-and-the-code)
3. [The runs](#3-the-runs)
4. [Fairness](#4-fairness)
5. [The proofs](#5-the-proofs)
6. [Where the code and its documents differ](#6-where-the-code-and-its-documents-differ)
7. [What is left out](#7-what-is-left-out)
8. [Plan](#8-plan)

## 1. The system

A host embeds one `Runtime` over one SQLite database. It submits runs, each in
a session; a run is a loop of model turns and tool calls that ends in an
answer, a failure, a denial, or a suspension that waits for a person's
approval. Everything the runtime knows is in the database: run and session
records, the journal of events, checkpoints, permissions, leases, artifacts,
memories. The handbook (:738) asks that one owner make the facade calls one
after the other; `Emit` alone may be called from any goroutine (:733). Model
and tools are host code, and the tests (`session_test.go:268-352`) call
`StopSession` while a model turn is in progress.

| Component | State | Operations | Hard because |
|---|---|---|---|
| Session and run lifecycle: `runtime_run.go`, `session.go`, `session_stop.go`, `loop_outcomes.go`, `runtime_projection.go` | status of runs and sessions; `session.ended` | SubmitRun, InterruptRun, StopSession (drain, cancel_active), completion of a drain | one call is a dozen separate writes; other calls land while its model turn is in progress; a cancelled context also cancels the writes that clean up |
| Core loop: `loop.go`, `loop_tools.go`, `loop_helpers.go` | the continuation: iteration, rounds, pending calls, messages | a model turn, a round of tool calls, complete, fail, deny, suspend | rounds and iterations count different things and a resume moves them apart |
| Checkpoints and resume: `checkpoint.go`, `approval_resume.go` | checkpoints, continuations stored with approvals | a checkpoint at seven kinds of place; ResumeRun by approval or checkpoint | a resume may start from any earlier state, any number of times |
| Event journal: `runtime_events.go`, `checkpoint_event_store.go` | events by (run, sequence); a mutex | Emit | concurrent emitters; the host may choose a sequence; any write may be refused |
| WorldState cache: `world_state_cache.go` | a watermark and an entry for each run | observeEvent, get, put | the steps of a fill are separate from Emit's |
| WorldState projection: `world_state*.go`, `runtime_projection.go` | a cached snapshot for each run | WorldState, filtered by partition or not | seven partitions out of the journal, three stores and the host; most of what they read changes without an event |
| Permission center: `permission_center*.go` | permission records, grants | CheckPermission, ResolvePermission | a grant is found by rebuilding its id from the check, for a run or a session, and outlives what it was given for; record, grant and event are separate writes |
| Permission projection: `permission_projection.go` | none | the permission events of a run, folded | must agree with records and checks it does not look at |
| Run lease: `internal/runtime/governance/lease.go` | lease records | Acquire, Renew, Release | shared by activity; expires on a clock that a goroutine of the loop has to beat; times are kept in whole seconds |
| Convergence: `convergence.go` | signatures, a streak, replans; anew in each activation | observe | three reasons that hide one another; must end the loop before the hard limit |
| Context window: `loop_context_budget.go` | the messages of the loop | trims them before each turn | what one cut leaves is cut again; pairs of calls and observations at its edge |
| Tool registry: `tool_registry.go` | providers behind a mutex | Register, ToolSpecs, ExecuteTool | names depend on all providers; they are fixed in the packet and looked up again when the call is made |
| Event bus: `internal/runtime/events` | a buffer, listeners | Publish, Subscribe, Close | dropped and reordered deliveries |
| Context registry: `internal/runtime/contextengine`, `runtime_context.go` | a cache in front of a store | Register, Get, ListByRunID, Materialize | the cache is written first; lookups and listings write to it |
| Workspace writes: `internal/runtime/execution/workspace.go` | files and artifact records | WriteFile | check, write, hash and record are separate steps, beside other users of the files |
| Tool schemas, provider adapters | none | normalise, hash | pure |
| SQLite adapters | tables | Put, Get, List | conversions |
| OpenAI provider, kernel, startup, session graph, public types, commands | configuration | wiring, HTTP, projections | I/O without state of the runtime |

How they interact: the facade calls of the lifecycle enter the core loop, which
calls the permission center for each tool call, writes checkpoints and asks
convergence after each round; every outcome of the loop comes back to the
lifecycle as a status write, and through `emitActivityCompleted` to the
completion of a drain. Every one of them emits events; `Emit` appends to the
journal, publishes on the bus and tells the WorldState cache, in that order and
after its mutex is free. A lease keeps two activities from looping on one run.

What has to be true of each, in one line: a stopped session runs nothing and a
stopping one gets stopped (lifecycle); only approved calls are executed, none
is lost or repeated, and the loop ends (core loop, resume); a decision admits
what it covers and nothing else, and what is shown of it is true (permissions);
the journal of a run is a contiguous, immutable log (journal); an answer of
WorldState is not older than the journal (cache) and what it lists can be had
(projection); one activity loops on a run, and a run whose loop is gone gets
free (lease); the model keeps its task and whole rounds (context window), and is
told when it stalls (convergence); a call is executed by the tool it was checked
against (tool registry); a registered handle is what Materialize returns
(context registry); an edit is not written over, and recorded writes do not
stand in one another's way (workspace).

## 2. The modules and the code

`SessionGate`, `EventLog`, `RunLock` and `HandleStore` are what four components
promise; `SessionLifecycle`, `EventJournal`, `RunLease` and `HandleRegistry`
(with the rest of `WorldState` around it) are shown to implement them.
`WorldStateCache` extends `EventJournal`. `ToolLoop` looks inside the part that
`SessionLifecycle` sees as one stay in a "turn", and `ModelTurns`, which extends
`ToolRegistry`, at what the model is shown there. `WorldState` composes
`HandleRegistry`, `Workspace` and the journal, as the projection reads them.
`RunLease` looks inside the `lease` that `SessionLifecycle` has for each run,
and `RunLock` is where the two meet: the lease of each run in the lifecycle is
shown to be a RunLock (`LeasesAreLocks`), so that the lifecycle takes nothing
from leases but what `RunLease` is shown to give. The MC modules give the
constants of small instances, the Proofs modules hold theorems. `PROJECT.json`
names the source lines of each definition.

**SessionLifecycle.** The records are `status` (runs), `thread` (sessions),
`ended`, `requested` (approvals with a permission record), `checkpointed`, and
the `lease` of each run with the calls that keep it alive. `call[c]` is one
facade call in progress and the place it has reached; each place lies between
two writes of the database. `OwnerFree` is the threading contract: a call takes
its steps without another call in between until it enters a host callback
(building the context packet, or the turns of the loop, where the model and the
tools run). There any other facade call may be made, a second loop of the same
run included. `SubmitRun`, `RecordSessionRun`, `AcquireLease`, `EnterLoop`,
`FinishRun` and `ReleaseLease` are the stations of `Run`; `SuspendRun`,
`FinishRun` and `DenyRun` write the status without looking at the one they
overwrite, as `putRunStatus` does. `CompleteDrainedSessionIfIdle` is where
`emitActivityCompleted` and `InterruptRun` end. `StopSessionCancel` lists the
active runs once and `InterruptNext` interrupts them one at a time before
`PutStoppedSession`. `CancelContext` ends a call where it stands, because each
later store access of that call fails too, failRun's and Release's among them.
`Crash` ends all calls. `ExpireLease` needs a lease nobody renews. `LookUp` is
GetThread as the gate, recordSessionRun, StopSession, ResolvePermission and
completeDrainedSessionIfIdle use it: an error counts as a record that is not
there. Then `AcceptsRuns` opens the gate (`session.go:34`), `RecordSessionRun`
writes an active record over the one it could not read (`session.go:56`), and
`CanStop` goes on with a session made up from its runs (`session.go:107`).
`misreads[s]` counts such lookups; SessionGate has the same count as `unread`,
and says for each what it may let through: `Trespass` (one run, whatever the
phase), `Reopen`, or nothing (`Miss`).

**EventJournal.** `journal[r]` maps sequences to kinds. An emitter goes from
"locking" through `Allocate` (lock, MAX + 1 unless the draft has a sequence) to
`AppendEvent` (the insert under the unique index, unlock) and returns after
"observing". `AllocateFails` and `EmitFails` are the two error returns.

**WorldStateCache.** A query takes the steps of `get` and of `put` apart:
`BeginQuery` reads the watermark, `Lookup` compares, `ListAndBuild` is
ListEvents with the projection, `StampEntry` reads the watermark again as `put`
does, `StoreEntry` writes the entry. A snapshot is the set of relevant events
it covers. Two history values tell what an answer owes: `query.must`, the
relevant events whose Emit had returned when the query began, and `raced`, the
events appended while a fill was between its listing and its put.

**ToolLoop.** One run. `loop` is the `loopContinuation`, its messages reduced
to the calls without a tool message (`unanswered`). A checkpoint holds a copy
of it as `appendLoopCheckpoint` gets it, at the same places with the same
differences (the model_response checkpoint already has the calls pending and
the next iteration). `approvals` are permission records with the continuation
stored in them, `grants` what `findPermissionGrant` looks through. Call ids
follow `normalizeToolCall`: the model's own, or round and index. `EndRound`
includes what convergence decides about the budget: observe(iteration + 1)
against MaxToolIterations - 1. `history` is not in the code: the calls that a
reviewer who saw them allowed, those executed, recorded, repeated or left out.

**Permissions.** A facade call reads and then makes its writes one by one:
`CheckPermission`, `ResolvePermission` and `RequestModelApproval` compute the
list `work` from the state they read, and `PutPermission`, `PersistGrant`,
`EmitPermissionRequested`, `EmitPermissionGranted` and `EmitPermissionDenied`
take it off at its head. `LoseWrites` drops the rest: a write was refused and
the call returned its error, or the process died. That no call starts before
the one before it is through is the threading contract; permission calls enter
no host callback. A grant is a record of the fields that its id hashes, so that
`GrantForDecision(...) \in grants` is the lookup of `findPermissionGrant`.
`Ground` is the cascade of CheckPermission. `snapshot` is kept as the fold of
the permission events of each run, event by event; `ActiveGrants`,
`AvailableDecisions` and `CapabilityAuthorized` are what the projections make
of it. An action has the capability of the check and the one that WorldState
derives (`projected`: the first required grant of the tool). `decided` (the
decision behind each persisted grant, with the action as the reviewer saw it)
and `unsettled` (requests whose last call lost a write) are history. A scope
names the session of its run, or one that has no record (`PermissionsAssumption`),
and an override repeats the run, session and actor it names
(`RepeatsScope`, as validateApprovalResumeScope requires of a resume). Four
operators state what a property needs of the callers: `IDNamesAction`,
`ModelCapabilityReserved`, `ApprovalNamesRun` and `TargetNamesCapability`
(section 5).

**RunLease.** The lease on one run as its records: `leases[l]` has the holder,
the times and whether it was released, cut to whole seconds as the store cuts
them (`Truncated`, in PutLease and in GetActiveLeaseByResource alike). A call
goes from `Acquire` (a new record), `AcquireShared` (the same activity, the
record renewed) or `AcquireUnread` (the lookup failed, which the code takes for
no lease) through `Renew` at each tick of its ticker to `Release` and then to
`CancelRenewal`, so that the renewal outlives the release for a moment, as the
deferred calls of Run have it. `Tick` lets time pass as long as no renewal is
later than `Slack`; `Stall` is a renewal that is later. `CancelContext` ends the
renewals of a call whose Release will then be refused (`ReleaseRefused`), and
`Crash` ends all calls. `faults` remembers the two things that void the lease:
a late renewal and a lookup that failed. A refused Acquire changes nothing and
has no action.

**ModelTurns and ToolRegistry.** One run from its packet to its end, over
suspensions. `messages` is state.Messages, each message its role, what it is
about and the ids of its calls; `RequestTurn` trims it and keeps the result, as
the loop does. `CallTools` appends the answer, `ExecuteCall` the observation,
`EndRound` the steering message. `AskApproval` is a response that asks for an
approval itself: it is appended with its calls (`loop.go:214`), the run is
suspended before any of them is made (`loop.go:235`), and `Resume` goes on with
a message of the user that says so (`approval_resume.go:161`). `CutOff` is a
stop or a failure of the host after which the latest checkpoint is resumed; two
kinds of checkpoint keep no more than one call of the round. `history.dropped`
names the calls that neither keeps. `controller` is the convergenceController; a
`Resume` starts with a new one, and its round is not observed
(`EndResumedRound`). The decision is taken before the iteration is counted up,
so `iteration + 1` is the code's 1-based one. `registry` is the providers in the
order of their registration, `packet` the exposed names with the tool whose
specification each has; `Route` looks a name up in the registry of the moment. A
name is the sequence of its parts. `Exposed` joins a namespace and a name with
`Joint`, the "__" of `tool_registry.go:166`, to one sequence, which may be the
plain name of another tool or the join of another pair; a provider's "x_2" and
the second "x" are one namespace too. Two tools with one name are an error of
registryTools (`Clashes`); one after the other, in the packet and in the
registry of a later moment, they are the exception of `RoutedAsChecked`.
`history` has the whole conversation, the rounds the controller saw, and the
latest route.

**WorldState, HandleRegistry and Workspace.** `Built` is one partition of
buildWorldStateSnapshot from `journal`, `memories`, `grants`, `closing`, the
registry and `facts` (what the host's providers know); a partition is its
entries by id, with what may change of each. An event has the fields of a scope
that its payload names, and `Scope` is worldStateScopeFromEvents: each field as
the latest event that names it, of whatever kind. It decides which grant is
found (`GrantFound`), the mode, the rules of governance, and what the host's
providers are asked (`Told`). `down` is what a build cannot read, of the reads
in `PartitionOfRead` and the host's projections; a partition then lacks what
came from there, the session's record counts as open
(`permission_projection.go:204`), and the snapshot is cached all the same.
`BuildWorldState` is the unfiltered query that misses the cache, with the
handles that its listing puts into the registry's cache; a filtered query is
`FilteredAnswer`, and `ListHandles` is what it leaves behind. `Emit` takes the
next sequence or a free lower one, `EmitAhead` one that leaves a gap.
`HandleRegistry` keeps `cached` and `stored` apart, and `Listing` says which of
the two wins. `Workspace` takes WriteFile apart: `CheckWrite` (compare with the
latest artifact), `WriteDisk`, `HashDisk` (the file is read again),
`RecordArtifact` or `RecordRefused`; `EditOutside` comes at any moment, and
`BreakOff`, a crash or an error of the file system, may leave half a file.
`quiet` (partitions that were built without some of their sources, or changed
since without raising the watermark), `disturbed` (paths edited or written
without a record), `refused` and `registered` are history.

Definitions marked "Variant" are what a plausible mistake would make of the
definition that follows; no specification uses them. They show that each
property can be violated by a change of the code.

## 3. The runs

| Run | Instance | Shows |
|---|---|---|
| `lifecycle_safety` | 2 runs in 1 session, 3 calls, 1 approval, 1 cancelled context or crash, 2 failed lookups of the session | `DrainNeverStranded`, `StoppedSessionRunsNothing`, `RunningRunIsDriven`, `EndedMeansStopped`, the refinement of `SessionGate`, and of `RunLock` by the lease of each run (`LeasesAreLocks`) |
| `lifecycle_liveness` | 2 runs, 2 calls, 1 cancelled context, fairness | `DrainCompletes` |
| `lifecycle_cancel` | 1 run, 2 calls | a counterexample of `StoppedSessionHasNoActiveRun` |
| `journal_explicit` | 1 run, 3 emitters, drafts with sequences 1 and 3, 1 restart, fairness | `AllocationStillFresh`, `EmitTerminates` |
| `cache_concurrent` | 2 emitters beside queries, a relevant and an irrelevant kind, 3 sequences, 1 restart | `AnswerMissesOnlyRaced`, `WatermarkExactWhenQuiet`, and the refinement of `EventLog` |
| `cache_race` | 1 emitter | a counterexample of `WorldStateConsistentWithJournal` |
| `loop_safety` | budget 2, 2 resumes from any of four kinds of checkpoint or any approval | `NothingRunsUnapproved`, `FreshRunConverges`, `EveryCallAnswered`, `SuspendedRunResumable` |
| `loop_recovery` | budget 2, 3 resumes from the latest of all seven kinds of checkpoint, fairness | `RecordedNotRepeated`, `RoundsBounded`, `LoopExits` |
| `permission_center` | 3 runs in 2 sessions, 12 checks, 1 record, 2 grants | `AdmittedIsCovered`, `DecisionHonoured`, `SnapshotFollowsRecords`, `OfferedDecisionsAccepted`, `ActiveGrantsHold`, `AuthorizedIsAdmitted` |
| `run_lease` | 2 calls of 2 activities, a clock of 8 half seconds, 2 leases, 2 mishaps | `LeaseNeverLapses`, `ActiveLeaseHasHolder`, and the refinement of `RunLock` |
| `model_turns` | a window of 3 messages, 4 calls, 2 suspensions, 2 registrations of 2 providers | `WindowIsOfTheWhole`, `MessagesBounded`, `TaskAndRoundsKept`, `StallIsSteered`, `RoutedAsChecked` |
| `world_state` | 1 run beside another, 1 handle, 1 path; 3 events or 3 artifacts, events that name an actor or a mode, 2 changes and 2 mishaps, failed reads among them (six mixes) | `StaleOnlyByQuietChange`, `ActivityFollowsJournal`, `ListedIsServed`, `MaterializedAsRegistered`, `PathStaysWritable`, `EditsSurvive`, and the refinement of `HandleStore` |

The type invariant of each module is a theorem (section 5), and so are some
action properties that no run has: `EventsAreImmutable`, `AbandonedNotExtended`,
`LoopDescends`. The bounds:

* Two runs of one session are what the drain is about: the last active run
  completes it, and the other must not. Sessions share nothing else. Three calls
  let two loops of one run be in callbacks while a third call stops, interrupts,
  denies or resumes. One cancelled context or one crash can fall between any two
  writes. Of two failed lookups the first can let a run into a stopped session
  and the second write an active record over it, which is what one SubmitRun
  does when the store is away for a moment. For any number of everything see the
  proofs. `lifecycle_liveness` has no failed lookup: with one beside the
  cancelled context (MaxMisreads = 1) `DrainCompletes` holds too, in 492,016
  states, which takes longer than a run should. Calls are interchangeable, so
  the run uses symmetry; the liveness runs do not.
* One approval per instance is enough for a run to be suspended, approved
  twice, and denied after it went on.
* Three sequences let an emitter allocate while another has appended and has
  not yet told the cache; an emitter that would pass `MaxSeq` takes the error
  return instead. One restart empties the cache over a journal that is not
  empty.
* A budget of 2 makes every branch of the limit reachable: convergence after
  the first round, a resumed round that convergence does not see, the limit.
  Two resumes let the second one use a checkpoint from before the first. A
  model answer has at most three calls, the second with side effects, which
  makes a round that is half executed when it is suspended, with a call still
  to come; an answer may ask for approval with a call beside it.
* The 12 checks of `permission_center` differ in one thing at a time: run,
  session, actor, task, mode, the id of the call, the tool, a read, a dangerous
  command, a scope without a session or a run. Permission records share nothing
  but the ids, and a second check of the same id replaces the record, so one
  record is enough for requests that are answered, repeated and lost; two
  grants, so that the order of findPermissionGrant matters. Where the bound is
  reached a call that would write one more is not made.
* `run_lease`: a time to live of 5 ticks with seconds of 2 is the shortest
  that the assumption admits with a slack of 1 (`RunLeaseAssumption`); in 8
  ticks a lease is renewed twice, or expires and is taken over. Two calls and
  two leases are enough for two activities to exclude each other; the theorems
  are for any number, and for every time to live that satisfies the assumption.
* `model_turns` lowers the code's IterationFloor of 12 and StreakThreshold of 3
  to 2, so that the two replans and the pre-flush follow one another within
  four rounds of one call, and keeps the repetitions at 3. A window of 3
  messages cuts through rounds of one and of two calls. Two providers have a
  tool "read" in one namespace "x", and the first also lists a plain "x__read":
  registered twice it gives both of its tools other names, and beside the second
  its names clash. With a limit of 5 and 4 calls the limit itself is not reached
  (`ToolLoop` checks it); the pre-flush before it is.
* `world_state` keeps events and files in different instances, since the
  partitions that read them are different ones. Two mixes have no events: three
  artifacts with a change and a mishap, or two of each. Two have events that
  name nothing, with a change or with a mishap, and two have events that name
  another actor or the mode, two with a change, or one with a change and a
  mishap. A mishap is also a build in which one read, one provider, or
  everything fails; the grants are of any run of the session, or of one actor. A
  task window of 2 instead of 12 lets an event leave it.
* Neither a run of `ModelTurns` nor the clock of `RunLease` goes on for ever,
  and these runs do not check for deadlock.
* The ToolLoop runs do not check for deadlock: a run ends, and when the
  resumes are used up nothing is left to do.

What some properties say beyond their comment:

* `DrainNeverStranded` and `RunningRunIsDriven` are for executions without a
  cancelled context or a crash; `DrainCompletes` is about what these leave. A
  stranded drain is completed by InterruptRun of a run of the
  session, also of a terminal one, since InterruptRun goes to
  completeDrainedSessionIfIdle for these as well.
* `StoppedSessionRunsNothing`, `DrainNeverStranded` and the first half of
  `EndedMeansStopped` are stated for sessions whose record could be read at
  every lookup, because the code lets one that fails through (section 6).
  `ImplementsGate` is stated without that condition: a failed lookup lets
  through one step of SessionGate of its own, and every step that is not one
  starts runs in open sessions only.
* `AnswerMissesOnlyRaced` is the strongest promise the cache keeps beside
  concurrent emitters; `cache_race` shows why the exception is there.
* `RoundsBounded`: a resume makes the pending calls of its checkpoint before
  the limit is looked at. When the limit fails a run, the last response has
  been checkpointed with its calls pending, so the next resume makes one round
  more. It takes two resumes to get there, which is why the third is the first
  that passes the limit; the instance has three.
* `SnapshotFollowsRecords` is for the requests of CheckPermission, and for those
  whose calls were not cut short; the approvals of a model are the exception
  that section 6 reports. The three properties after it hold also when writes
  were lost.
* `DecisionHonoured` fixes session, task and actor, which a grant is bound to
  beside what the handbook names; section 6 lists that as a difference.
* `FreshRunConverges` is what is true of handbook:652; with resumes the limit can
  be hit (section 6), and `RoundsBounded` is what is left.
* `NothingRunsUnapproved` is checked for a model that names its calls; for one
  that does not, section 6 has the exception.
* `LeaseNeverLapses` needs the time to live to leave room for a period of the
  ticker, its slack and the second that is cut off. The code takes any positive
  RunLeaseTTL (section 6).
* `StaleOnlyByQuietChange` compares a snapshot that the cache would serve with
  filtered answers, which are always computed, of a query that can read
  everything; `quiet` is the list of the exceptions, by partition: what the
  build could not read, and what changed since without an event that raises the
  watermark. An event that is not relevant is among these changes when it names
  another actor, session, task or mode.
* `TaskAndRoundsKept` names the calls that are shown to the model without an
  observation: exactly those that `history.dropped` has, of a response with an
  approval request or of a round that was cut off.
* `RoutedAsChecked` excepts tools whose plain name reads as a joined one. With
  such a name ("x__read") the code can execute another tool than the one whose
  specification the call was checked against (section 6).
* `RecordedNotRepeated` is about observations that were recorded. A call whose
  effect came before a crash and whose checkpoint did not is made again.
* `PathStaysWritable`, `EditsSurvive` and `MaterializedAsRegistered` name what the
  code cannot avoid (a write broken off, an edit after the check, a refused
  registration or lookup) and say that nothing else does the same harm.
* `AuthorizedIsAdmitted` compares the two computations for one scope. WorldState
  takes the scope of the latest events, which is `WorldState!Scope`.
* `EveryCallAnswered` excepts two known losses: a model answer that asks for
  approval drops the calls beside it, and a checkpoint in the middle of a
  round lists only one pending call.

## 4. Fairness

`SessionLifecycle!Fairness`: the owner goes on with the call it is in (weak;
between two callbacks no other call takes a step). A callback returns, and the
loop takes a bounded number of turns (`ToolLoop!LoopExits`); the return waits
until the owner is in no other call, so the fairness is strong. The last two
conditions are the host's part and nothing the code enforces: in a session that
is stopping it denies the suspended runs in the end (they can no longer be
approved), and when a fault has occurred, or a lookup of the session failed, it
interrupts the runs of the session.

`EventJournal!FairSpec`: an emitter that can take the mutex again and again
takes it, which is what sync.Mutex provides through its starvation mode; a
store call returns.

`ToolLoop!FairSpec`: weak fairness of the loop's own steps; callbacks return.
The resumes, the decisions and the crash have none.

`RunLease`, `ModelTurns` and `WorldState` state no liveness and no fairness;
that renewals come in time is a condition on the clock (`Tick`).

## 5. The proofs

TLAPS checks the theorems for all values of the constants; the only assumptions
are the ones the modules declare, one for each module with constants
(`LifecycleAssumption`, `JournalAssumption`, `CacheAssumption`,
`ActionsAssumption` and `PermissionsAssumption`, `RunLeaseAssumption`,
`ToolLoopAssumption`, `ToolRegistryAssumption`, `ModelTurnsAssumption`,
`RegistryAssumption`, `WorkspaceAssumption`, `WorldStateAssumption`), and what
these theorems name as hypotheses:

| Theorem | Hypothesis | Without it |
|---|---|---|
| `RefinesLog`, `CacheRefinesLog`, `AnswerComplete` | `ExplicitSeqs = {}`: no draft carries a sequence | the host leaves gaps, or appends below the watermark |
| `OfferedAccepted` | `ApprovalNamesRun`: the models of two runs name their approvals differently | the second request replaces the record of the first, whose snapshot still offers decisions that are then refused |
| `AuthorizedAdmitted` | `TargetNamesCapability`: if an action of a tool has the capability WorldState looks up, all of its actions are checked for that one | the tool is shown as authorized by a grant that the check does not find |
| `SnapshotFollows` | `IDNamesAction`: a permission id names one action; `ModelCapabilityReserved`: no tool is checked for "model.approval" | a dangerous action under the id of an open request denies it in the snapshot and not in the record; the event of a decision about a model approval meets the record of a check |
| `UnapprovedNeverRuns` | `ModelNamesCalls`: the model gives its calls ids of their own | section 6, `loop_helpers.go:22` |
| `RoundsStayBounded` | `MaxToolIterations >= 2` | with a limit of one the second resume exceeds it, and not the third (section 6) |
| `RecordedOnce` | `ResumesLatest`: the host resumes from the latest checkpoint, observations are checkpointed, and no call waits for an approval | an older state, or the one stored with an approval, has the call still to be made |

The hypotheses hold in the instances that the runs check: `MCPermissions` assumes
the four of Permissions, so that TLC evaluates them, `loop_safety` has
`ModelNamesCalls` and `loop_recovery` the other two.

**SessionLifecycleProofs.** `DrainNeverStranded` is not inductive: that a call
goes to the drain with the right session depends on what kind of call stands
where. `IInv` adds

* `CallsOK`: what a call of each operation can hold at each of its places;
* `OneOwner`: at most one call is between two callbacks, which keeps a check
  and its write together;
* `StopCovers`: while cancel_active interrupts, each active run of its session
  is still on its list, so that none is active when the record says stopped;
* `EndingStopped`: session.ended is only reached after the record says
  stopped;
* `HoldersLoop`: the calls that hold a lease are loops between Acquire and
  Release, for the activity of the lease.

One lemma for each action shows that it keeps each part; `NextIInv` joins them,
`Inductive` is `Spec => []IInv`, and the safety properties of `lifecycle_safety`
follow: `TypeCorrect`, `DrainSafe`, `StopSafe`, `DriveSafe`, `EndSafe`,
`LeaseSafe`. The parts of `IInv` that a failed lookup can break are stated for
the sessions with `misreads[s] = 0`, and a failed lookup takes its session out
of them. `RefinesGate` proves `Spec => ImplementsGate`: every write of a status
or a session record is a step of SessionGate or a stutter; a step whose lookup
failed is a Trespass, a Reopen or a Miss. The steps that need the invariant are
the ones that close a session (`StopCovers`) and those that start a run (the
session's record has not moved since it was checked). `LeaseIsLock` proves `Spec
=> LeasesAreLocks`, which says besides which call takes or gives, and
`RefinesRunLock` reads off it that the lease of each run behaves as RunLock.
Acquire takes a free lease or joins its own activity (`CallsOK` says which
activity a call that acquires works for); Release gives back only what its call
still holds.

**EventJournalProofs.** `JInv` adds to the type: whoever is between allocation
and append holds the mutex (`MutexInv`), what drafts hold (`DraftInv`), and
that the journal of each run has a highest sequence (`HasMax`), so that
`MaxEventSequence` is a number. `AllocationFresh`, `Immutable` and
`JournalTypeCorrect` follow, and `RefinesLog`: without explicit sequences the
domain of a run's journal is 1 .. n, and an append is EventLog's.

**WorldStateCacheProofs.** Every step of the cache is a step of the journal or a
stutter of it (`CacheJournalStep`), so `JInv`, `IsLog` and `CacheRefinesLog` come
from EventJournalProofs. `CInv` adds that the watermark is 0 or a relevant
sequence, and that in the first process every relevant event is `Told`: below
the watermark, or in the hands of an emitter that has yet to observe it;
`WatermarkExact` is that statement with no emitter under way. `FreshInv` follows
a query through its steps: what an entry is missing was raced, or lies above its
stamp and is `Told` (`EntryInv`), so an event that a query must have is above
the stamp of a stale entry and not above the watermark the query has read
(`LookingInv`), and the entry is not taken. It needs that an append is above
every sequence before it, which is where explicit sequences must be absent; with
them the statement is false (section 6, `world_state_cache.go:95`).

**PermissionsProofs.** `PInv` says that grants and decisions belong together:
`GrantsInv`, the store holds exactly the grants that `GrantForDecision` makes of
the persisted decisions and the actions their reviewers saw; `WorkInv`, so does
every grant a call is still to persist, and a call makes at most three writes;
`DecidedInv`, those decisions allow. It is inductive because ResolvePermission
takes the action from the record unchanged (`StoredAction`). `AdmittedCovered`
follows by comparing the fields of the two grants with equal ids, decision by
decision; `DecisionsHonoured` by naming the place in `AllowDecisions` at which
the check finds the grant.

The other theorems relate the store to the snapshot, which follow each other
through the order of the writes. `RInv` says what a call may have left to write,
by the number of its writes: an event speaks of a record or a grant that is
there, and a write before it is of the same decision (`WritesInv`, the reason
why losing the writes at any point does no harm); that each record is of a check
or of a model approval (`RecordsInv`); and that an active grant is persisted or
was for one read (`ActiveInv`), which is `ActiveGrantsPersisted`. `PendingInv`
adds that a pending permission has a record of the run it is shown in, and
`OfferedAccepted` follows: the scope of the record is the one that offers and
the one that ResolvePermission compares. `AuthorizedAdmitted` needs no more than
these. `SnapshotFollows` has an invariant of its own, `SInv`: each record but the
one whose writes are under way, and those that lost one, is pending exactly
while it is unresolved, or has a grant that admits the next check
(`SettledInv`), and the events still to come make it so (`EventsInv`).

**RunLeaseProofs.** `LInv` adds to the type: `CallOwns`, the record of a call
that drives or renews has the call's activity; `RenewedInTime`, as long as no
renewal was late, the next one is due at most a period from now and the record
of a driving call expires no earlier than a slack after it is due, rounded down
to a second, which is where the assumption on the time to live is used;
`OneActive`, without a fault at most one record is active, for whichever
activity; `Held`, an active record has a driving call or is an orphan.
`NeverLapses`, `OneDrives` and `HasHolder` follow; `AbandonedSafe` looks at the
steps that extend a record. `RefinesLock` maps the one active record to the
holder: Acquire and AcquireShared are Take, Release is GiveBack, a cancelled
context, a refused release and a crash are Lose, and a tick with which the last
record expires is Lapse, which LeaseNeverLapses allows only when nobody keeps
the run.

**ToolLoopProofs.** `IInv` has one part for each thing the loop must remember
over a suspension or a crash:

* `NamesInv`: a call, wherever it is kept (in memory, in a checkpoint, with an
  approval or in the history), is known by its turn and index, and by its id
  where the model names its calls, and calls to come are of later turns.
  That is what makes a grant for an id a grant for a call.
* `ApprovalsInv` and `GrantsInv`: a record shows the call of its id, and a grant
  is for the whole run, for a model approval, or for a call that its reviewer
  saw. With `NamesInv`, the call that `findPermissionGrant` admits is one the
  reviewer has seen (`ExecuteInv`).
* `RunningInv`, `PendingInv` and `AnsweredInv`: where the loop may be in which
  status, and that a call without a tool message is still to be made or was left
  out; `EveryCallAnswered` alone says so only before a turn.
* `SuspendedRunResumable` is part of it as it stands.
* `FreshRunInv`: until the first resume rounds and iterations are one count, so
  that convergence sees the limit coming.

`TypeCorrect`, `UnapprovedNeverRuns`, `CallsAnswered`, `SuspendedResumable` and
`FreshConverges` follow from it. `RoundsStayBounded` has `RoundsInv` beside it:
the bound that `RoundsBounded` states after n resumes (`Limit`) is one above the
bound of the states that have calls pending (`PendingLimit`), for the loop, for
every checkpoint and for every approval; a resume adds the one round. After the
first resume the iterations are behind the rounds by at most one, which is why
convergence still ends the loop before the limit, and the bound is first passed
by the third. `RecordedOnce` follows pending calls: those of the checkpoint to
resume from and of the memory are each there once, and none of them recorded
(`StoreToMake`, `MemoryToMake`).

`ActivationsDescend` and `WorkRunsOut` are the part of `LoopExits` that can be
proved: a step that does not end the activation lowers `WorkLeft` (the rounds
the budget has room for, the calls of the round, the steps to the next call or
turn, in this order), and the order is well-founded. So an activation that goes
on for ever stands still for ever, which fairness of the loop's own steps
excludes; that last conclusion is temporal and stays with TLC.

**WorldStateProofs.** `FInv` is about files: what a write in progress has compared
and written (`WriterInv`), that a preview is of the hash unless the file was
edited in between (`PreviewInv`), that each path with artifacts has a latest one
(`LatestInv`), and that a file nobody disturbed is in order while it is not
being written (`OrderInv`): `PathsWritable` and `EditsKept`. `HInv` says that the
store has the latest registration of a handle that was not refused and the
cache, if anything, the same (`HandlesInv`), and that it names an artifact
(`RefsInv`): `MaterializesRegistered`. `JInv` is that a set of sequences has a
highest one, and that the snapshot is stamped with no more than the highest
relevant sequence: `WorldTypeCorrect`. `ListedInv` and `SnapshotInv` are the two
properties of snapshots, in the form that is kept by each step: the first one
holds of a snapshot whether it is served or not, as long as no change of the
context is unannounced, and the second one for whole partitions. The proof of
`StaleOnlyQuietly` goes through what each partition is built from: a step
changes one of the sources of a partition only if it makes the partition quiet
or raises the watermark above the stamp. `ScopeKept` and `ToldKept` are the steps
that leave the scope of the latest events alone, and `BuiltBeside` says that a
partition outside `Lost(down)` is built with an outage as it is without: a cached
snapshot lacks something only in partitions that are quiet from the start.

`ActivityFollows` compares two folds with what they fold. The projection folds
the events in the order of their sequences (`ActivityOf`); the property names
the latest event of each call. The induction that this seems to take is avoided:
the fold is a recursive function, one that satisfies its equation is given
outright (what the latest of the first n events leaves, `FoldsToLast`), and any
two that satisfy it agree, since there is no least place at which they differ
(`FoldUnique`). `LatestEventInv` says that `latest`, kept event by event, is the
last of the journal for each call.

`RefinesStore` maps the registry's two records of a handle to HandleStore:
`kept` is what is stored, `shown` what a lookup would serve. Register and
RegisterRefused are its steps of those names; a listing, a materialization and a
restart change what is served only to what is stored, and by `HInv` only of
handles whose latest registration was refused, which is FallBack.

**ModelTurnsProofs.** Five groups of invariants, on top of one for the types:

* `TInv` has the types, where a round may be half made, and `PacketInv`: the
  packet is what the registry exposed when it had fewer providers.
  `RoutedAsChecked` is inductive with it, because a name that a smaller registry
  exposed stays with its tool when providers are added, or clashes, as long as
  no plain name reads as a joined one (`NameKept`): a joined name without such
  tools can be taken apart at its last `Joint` in one way only.
* `WindowInv`: the messages are one window on a part of the conversation and
  all that came after it, so that the next cut is a cut of the whole, by the law
  Trim(Trim(w) \o r) = Trim(w \o r) (`TrimJoined`), which is proved for every
  size of the window, with and without a task: `OneWindow`.
* `BoundInv` adds up what a round appends to the last cut: the answer, an
  observation for each of its calls, one steering message; with `TrimBounds`,
  what a cut leaves, that is `KeptMessagesBounded`, over suspensions too.
* `ConversationInv` is about the whole conversation: each call is answered,
  pending or dropped, and no pending or dropped one is answered; each
  observation comes after its call with nothing but observations in between; the
  pending calls are of the last answer. What a window keeps of it is
  `TaskAndRounds`.
* `SteeringInv`, `CountInv` and `DueInv` relate the controller to the
  conversation and to the rounds it observed: it remembers the reasons it gave
  since it was made, its counts are those of the interactions observed, its
  streak covers the rounds without a new one, and what is due was said before
  the next turn: `StallsAreSteered`. Counts are cardinalities of sets of places,
  so that a round adds its own places to them.

Model-checked only: liveness (`DrainCompletes`, `EmitTerminates`, `LoopExits`),
which the prover does not reach. Every other property of a run that passes is a
theorem.

## 6. Where the code and its documents differ

With a counterexample of a run:

* handbook:485 against `loop_outcomes.go:199`: after cancel_active a run that
  was in a model turn can suspend itself (`lifecycle_cancel`).
* README.md:28 against `world_state_cache.go:128`: an event emitted during a
  fill is taken as covered by the entry (`cache_race`).

Met while reading and modelling, and left without a run:

* handbook:652 ("A run never ends with tool_iteration_limit_exceeded") against
  `loop.go:266`: the controller is new in each activation and does not see the
  round of a resume, so a resumed run can. `history.limitHit` of ToolLoop is
  set in both of its instances when `resumes > 0`.
* handbook:426 against `loop_helpers.go:22`: a generated call id comes up again
  after a resume from an earlier checkpoint, and the allow_once grant of
  another call admits the new one. With `ModelNamesCalls = FALSE` and answers
  that have a call with side effects, TLC finds NothingRunsUnapproved violated.
* `lease.go:80-83` says that Renew returns an error when the lease has been
  released; renewLease puts the record back with a later expiry
  (`RunLease!RenewLease`). It stays released, so nobody is excluded by it.
* `lease.go:27`: Acquire goes on when GetActiveLeaseByResource fails, as if there
  were no lease; a second activity then drives the run (`AcquireUnread`).
* `session.go:34` is such a gate too: ensureSessionCanAcceptRun returns nil on any
  error of GetThread, so that a run or a resume gets into a stopping or stopped
  session (handbook:486: "Reject new runs"). `session.go:56` takes
  the error for a new session and puts an active record over the stopped one,
  and StopSession makes one up from the runs (`session.go:107`); a drain whose
  completion cannot read the record stays stopping. `SessionLifecycle!LookUp` has
  all of these; with `misreads[s] = 0` taken out of it, TLC finds
  StoppedSessionRunsNothing violated by a SubmitRun in a stopped session.
* `approval_resume.go:207`: a resume that is refused the lease of a run marks the
  run failed, and the loop that has the lease goes on (`AcquireLease`).
* Renew does not look at the expiry either: a renewal that comes after the lease
  has lapsed and another activity has acquired the run leaves two active
  leases (`Stall`).
* `runtime.go:144` takes any positive RunLeaseTTL. Below two seconds the second
  that is cut off can exceed the half that is left, and the lease of a healthy
  loop lapses; at one nanosecond NewTicker panics.
* `loop_context_budget.go:76`: a window of one message keeps two, the task and
  the latest one.
* The tail may begin with a tool message whose assistant message has been cut
  off; it follows the task then. `TaskAndRoundsKept` has it as the exception.
* `convergence.go:120`: when a repetition has been pointed out, further
  repetitions return before the streak is looked at, so the replan for lack of
  progress (handbook:275) does not come as long as the model repeats itself.
* `convergence.go:44` ("across a run"): counts start again with each resume.
* `model_history.go:17`: the assistant message keeps the calls as the model gave
  them, with no id where it gave none, while the tool message has the
  generated id.
* `loop_helpers.go:50`: a name that the packet does not have is checked without
  a specification; if a provider registered since then exposes it, it is
  executed. A name of the packet that has become ambiguous fails the run.
* handbook:593-602 shows a provider of a partition "my-custom";
  `worldStatePartitionOrder` has seven names, and what is in any other partition
  is dropped, "artifact" (handbook:356) and "external" too.
* A provider that declares one partition and returns another is left out of the
  filtered answer of the latter (`world_state_external.go:28`).
* handbook:352: the activity partition comes from activity.started and
  completed; `world_state_runtime.go:103` takes the tool events.
* `tool_registry.go:166` joins a namespace and a name with "__", and nothing keeps
  a plain name from looking like that. In a packet "x__read" is the plain name of
  one tool; if a second tool of that name is registered before the call is
  executed, both get their namespaces, and "x__read" may now be a "read" of the
  namespace "x". A call that was checked against the one is executed by the other
  (the exception of `RoutedAsChecked`; `model_turns` has it).
* `loop.go:214` appends a response with all its calls; if it asks for an approval
  (`loop.go:235`) they are never made, and after the resume the model is shown
  calls without observations, which some APIs refuse. So is what a checkpoint in
  the middle of a round leaves (`history.dropped`).
* A cached snapshot does not see a registered handle, a memory, a changed
  inventory or a closed session before the next relevant event (`quiet`).
* `world_state_helpers.go:81` takes session, task, actor, owner and mode each from
  the latest event that names one, of any kind, where `world_state_cache.go:13`
  says that the kinds it leaves out alter no partition: such an event with
  another actor or mode changes what the capability and governance partitions
  say and what the host's providers are asked, and the cached snapshot stays
  (`FedByScope`). The permission check takes the scope of the run.
* `runtime_projection.go:173` caches a snapshot whatever could not be read for it,
  and serves it until the next relevant event, also when the store or the
  provider has long been back. A failed read is a warning in the snapshot,
  except for the session's record, which counts as open
  (`permission_projection.go:204`), and a grant, which counts as not there
  (`permission_center_store.go:24`): these leave none.
* `registry.go:44`: a registration that the store refused is served until the
  process ends, or, if it moved the handle to another run, until a listing of
  the old run takes it back (`RegisterRefused`, `ListByRunID`).
* `workspace.go:65`: after a crash or a refused PutArtifact, or an edit by
  others, every later WriteFile to the path is refused as tampering, and no
  operation of the runtime repairs it. The latest artifact of a path is looked
  up without the run or the workspace, and a lookup that fails counts as none.
* The memories of a run are listed twice in one build, for two partitions, and
  a change in between shows a memory in both or in neither
  (`world_state_memory.go:13`, `:96`).
* handbook:282-288 against `loop_outcomes.go:120`: failRun writes with the
  cancelled context, and the run stays recorded as running
  (`SessionLifecycle!CancelContext`).
* handbook:208 (PermissionSnapshot shows the effective pending approvals)
  against `permission_center_events.go:45`: the event of a decision carries the
  id rebuilt from the check, a model approval was requested under another, and
  stays pending in the snapshot after it is resolved.
* handbook:447 against `permission_center.go:115`: the gate of a closing session
  looks at the session in the scope. WriteFile and EvaluateProposal take the
  run's id for a session that is not given, which has no record, and the write
  passes with an existing grant.
* `permission_center_grants.go:119` offers the allow decisions for an approval
  without a session; `session.go:31` refuses each of them.
* handbook:427 and :429: "in this run". The grant also binds the task and the
  actor of the request (`permission_center_grants.go:11`), as do those for a
  session the actor.
* handbook:425: a denial after an allow leaves the grant of the allow in the
  store, and the next check finds it.
* `permission_center.go`: grants and the mode yolo are looked at before the
  command is: allow_all_for_run admits dangerous commands, for which a request
  is denied at once otherwise.
* handbook:517 lists a failed run among those whose checkpoints are not
  resume-ready; `approval_resume.go:272` accepts it.
* `world_state_cache.go:95` only raises the watermark: a relevant event whose
  draft carries a lower, free sequence never invalidates an entry.
* `world_state_cache.go:13` says the other kinds alter no partition; the task
  partition (`world_state_runtime.go:134`) lists the latest events of all kinds.
* handbook:447-448: grants of a stopping session are inactive in WorldState;
  StopSession emits no relevant kind, so a cached snapshot still shows them
  active (`runtime_projection.go:158`).
* With MaxToolIterations = 1 the rounds pass the limit one resume sooner than
  `RoundsBounded` says, since no turn is left in which convergence could ask for
  the final answer; `RoundsStayBounded` supposes a limit of two.
* handbook:138 calls MaxToolIterations a hard cap; `approval_resume.go:263`
  makes the pending calls of a checkpoint without a look at it.
* handbook:426: an allow_once grant is not consumed
  (`permission_center_store.go:14`), and the same call is admitted again.
* handbook:828: a checkpoint is a continuation state point; one written after
  an approved resume carries the approval's id, and resuming it takes the older
  continuation stored with that approval (`approval_resume.go:50`).

## 7. What is left out

* SessionLifecycle: a run id is submitted once (the code lets a host submit an
  existing id again); titles, latest run and latest checkpoint of the records;
  the resumes from different checkpoints of one run share one activity.
* EventJournal: ids of events; a draft whose EventID collides is one more
  append that is refused. The database keeps what it has acknowledged.
* WorldStateCache: the contents of the partitions; only the owner queries.
* ToolLoop: one tool with side effects and read-only calls; its session stays
  open; the decisions allow_once and allow_all_for_run (the others and the modes
  are in Permissions); messages and replans are in ModelTurns; failRun stands for
  each failure.
* Permissions: the denied list, the rules, hashes and warnings of the snapshot,
  and the lookups of its projection that fail, which are in WorldState;
  the record of a tool target, which follows capability and target; capability
  records, which nothing reads; expiry, which no grant of the runtime has. The
  continuation that goes with an approval is in ToolLoop. A host that resolves
  in the name of another actor through an override is left out by `RepeatsScope`.
* RunLease: one run, since every lookup is by resource; the clock of all
  processes is one, and never goes back.
* ModelTurns: a model without call ids; failures of the store, which end the run
  as in ToolLoop; a provider whose list of tools changes; the derivation of the
  window from the provider's tokens; schema hashes and epochs. A run resumed
  by an approval has an approval id in its checkpoints, which lead back to the
  stored continuation; what it makes again from there, and the rounds beyond the
  limit that a resume may make, are in ToolLoop.
* WorldState: texts, counts and hashes; warnings, so that what says that a read
  failed is not told apart from what does not; the resource rules of governance
  one by one (they are a function of the mode and of the session being closed).
  What a host's provider makes of the events it is given counts as a change of
  its facts. The owner makes one call at a time (handbook:738), so two
  overlapping calls of the registry, or two WriteFiles, are not there. Two
  artifacts have different times of creation. PutMemory has no caller in the
  repository and is an action of another user of the store.
* The event bus: outside its tests nothing subscribes, so that a lost or
  reordered delivery changes no state. TokenBudgetManager and the capability
  records have no reader either.
* The components that PROJECT.json lists as not modelled, with the reasons
  there: pure functions, wiring, I/O, projections, or later in the plan.

## 8. Plan

Done: SessionLifecycle, EventJournal, WorldStateCache, Permissions, RunLease,
ToolLoop, ModelTurns with ToolRegistry, and WorldState with HandleRegistry and
Workspace, each with its proofs. To come:

1. A refinement: what WriteFile promises as an abstract specification that
   `Workspace` implements, beside its invariants.
2. Permissions: `normalizePermissionCheck`, which now is in the actions that a
   host is assumed to propose, with the second normalisation of a resolution.
3. SessionLifecycle: submitting an existing run id again; the last_checkpoint
   fields.

A type invariant or an action property that a theorem shows for every instance is
left out of the runs, which then take the questions no theorem answers.
