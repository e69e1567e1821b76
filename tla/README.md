# A verification project for Open Agent Workflow

This directory holds TLA+ models of `oaw`, the TLC configurations that check
them on small instances, and proofs that TLAPS checks for every instance. The
models follow the Go code under `src/`; `PROJECT.json` names, for every
definition, the lines it stands for.

1. [The system](#1-the-system)
2. [The modules](#2-the-modules)
3. [From the code to the model](#3-from-the-code-to-the-model)
4. [What the runs check](#4-what-the-runs-check)
5. [Fairness](#5-fairness)
6. [What is proved](#6-what-is-proved)
7. [Where code and documentation disagree](#7-where-code-and-documentation-disagree)
8. [What is left out](#8-what-is-left-out)
9. [Plan](#9-plan)

## 1. The system

`oaw` installs a set of policies for coding agents: a Policy Set in a directory
of its own, and for each selected Host a *target* - a managed block inside a file
the user also edits (a router), or files of its own (native entrypoints) - and a
*state record* that says what was installed. It runs as a short-lived command,
holds no lock and no journal on disk, and shares every file it writes with the
user's editor, the Hosts and other `oaw` processes. The Codex Bridge is a second
program that is installed into Codex and talks to a Codex App Server.

| Component | State | Operations | What makes it correct |
| --- | --- | --- | --- |
| Application of updates and uninstalls (`management/mutation_apply.go`, `filesystem.go`, `mutation_values.go`) | the plan; the journal of inverse actions; the directories created | validate, back up, replace, remove, retain, remove a directory, undo, clean up | a failure leaves what was there; a success is complete; the state record never runs ahead of the disk; nothing of somebody else's is lost |
| Application of installs (`install_apply.go`) | the same, and the directories *recorded* for the rollback | prepare again and compare, write, record, undo, clean up | the same |
| Backups of forced operations (`backup.go`) | backup directory, manifest | copy, look again, write the manifest, verify before each destructive action | the bytes a forced operation destroys are in the backup when it destroys them |
| Managed tree (`filesystem.go`, `paths.go`) | files and directories below the allowed roots | scoped inspection, creation, rename, unlink, rmdir | writes stay below the directory that was opened |
| Preparation (`install_prepare.go`, `mutation_prepare.go`, `update.go`, `uninstall.go`, `force.go`) | none between calls; reads state record, Policy Set and targets | PrepareInstall, PrepareUpdate, PrepareUninstall, forced and legacy variants | what is refused, retained or overwritten; ownership of directories and of shared destinations |
| State record, targets, health (`state.go`, `targets.go`, `health.go`, `readiness.go`, `checksum.go`) | the state file | parse, validate, check | a record is accepted only if it is consistent with the tree |
| Managed blocks and rendering (`managed.go`, `render.go`) | none | find, insert, replace, remove a block | the user's text around the block survives |
| Codex Bridge installation (`codexbridge/install/`) | payload directories, `install.json`, registrations inside Codex | install, update, uninstall, check; rollback of each | files, record and registrations agree, or the outcome says that they do not; the payload the record names is not lost |
| App Server client (`codexbridge/appserver/`) | transport, initialisation and its directory, request ids | Observe, Close, deadlines and cancellations | an answer belongs to its request; one client observes one directory; no server is lost; every call returns |
| Bridge service, hooks, diagnostics (`codexbridge/*.go`, `hook/`, `bridgecli/`) | none | `observe_profile`: Binding inventory, claims, Overlay, diagnostics | what is claimed was on disk; no claim is a choice; nobody affected goes unnamed |
| Discovery, integrity, assurance, catalog (`discovery/`, `integrity/`, `assurance*/`, `catalog/`, `canonicaljson/`, `builtin/`) | none | candidates, attestation, digests, Overlays | a digest is of one tree; an Overlay verifies for the Profile it was issued for |
| Policy Set, profiles (`policy_set.go`, `profileinspect/`) | none; reads the Profile directories | discovery of Profiles, selectors, occurrences | one selector names one Profile |
| Command line (`cli/`, `cmd/`, `install.sh`) | none | parsing, dispatch, printing | - |

How they interact: the command line calls a `Prepare...` function, shows the
result, and calls `Apply`. Preparation hands `Apply` a plan with a snapshot of
everything it looked at: contents, the identities (device and inode) of
destinations and their parents, and which directories are missing. Everything
between that snapshot and the last system call of `Apply` is open to other
processes. `Apply` reports one of: refused, dry run, committed, failed (undone),
failed and *rollback failed*.

The Bridge is a process of its own. Codex calls its one tool, `observe_profile`,
with the context a Hook has added; the service resolves the Profile, has the App
Server client ask Codex which Skills it has, discovers the installations of the
catalog's Providers, digests them, and issues an Assurance Overlay that
`oaw-assurance` can verify later. The installation of the Bridge calls Codex's
command line to register a marketplace and a plugin.

The hard behaviours, listed line by line under `hazards` in `PROJECT.json`:

- every look at a file is separated from the rename, unlink or rmdir that relies
  on it, and the code repeats the look as late as it can;
- any system call may fail, in particular in the middle of a stage, and again
  while the failure is being undone;
- directories made on the way may be filled, removed or replaced before the
  next target below them is written or before the cleanup reaches them;
- the process may be killed between any two system calls, and nothing replays
  what it left;
- the backup is verified before each destructive action because it may be
  pruned in between;
- any sequence of installs, updates and uninstalls of overlapping selections, with
  edits and kills in between, has to leave records that the next command accepts;
- the Bridge's installation spans files and registrations in another program
  that can fail or time out after having taken effect;
- calls of the App Server client run concurrently over one pair of pipes, and
  the server may answer late, twice, wrongly or never;
- plugins are updated and Profiles edited while they are read and digested.

## 2. The modules

| Module | Contents |
| --- | --- |
| `ManagedTree` | files and directories below the allowed roots, and every other process that edits them |
| `PreparedChange` | a prepared plan; what installs, updates and uninstalls share: making directories, publishing, undoing the journal, cleaning up; the shared properties |
| `MutationApply` | `applyMutationPlan`: updates and uninstalls, with backups |
| `InstallApply` | `applyInstall` |
| `AtomicChange` | the abstract specification: one all-or-nothing change of a set of items |
| `Lifecycle` | what `install`, `update` and `uninstall`, forced or not, accept and plan, what applying it makes of the tree, and what `check` says: sequences of commands of several processes |
| `BridgeInstall` | `Install`, `Update` and `Uninstall` of the Codex Bridge with their rollbacks |
| `AppServerClient` | `Observe` and `Close` by several goroutines, the pipes and the App Servers |
| `ProfileObservation` | `observe_profile` from the Profile to the Overlay, with the discovery and the digests, and the later verification |
| `MCMutationApply`, `MCInstallApply`, `MCLifecycle`, `MCBridgeInstall`, `MCAppServerClient`, `MCProfileObservation` | small instances for TLC |
| `PreparedChangeProofs` | the invariant of the shared actions |
| `MutationApplyProofs` | the theorems on updates and uninstalls |
| `InstallApplyProofs` | the theorems on installs |
| `AppServerClientProofs` | the theorems on the App Server client |
| `BridgeInstallProofs` | the theorems on the installation of the Bridge |
| `ProfileObservationProofs` | the theorems on the observation of a Profile |
| `LifecycleProofs` | the theorems on the life of installations: what is never lost, of records, directories' owners and users' files |
| `LifecycleTreeProofs` | the theorems on the life of installations: what commands leave in the tree, and what `check` sees of it |

`MutationApply` and `InstallApply` extend `PreparedChange`, which extends
`ManagedTree`. `PreparedChange` instantiates `AtomicChange` with a refinement
mapping: the items are the files the plan changes, an item is applied when its
file no longer shows what was prepared, and the verdict is read off phase and
outcome.

The other four stand side by side, as the code does. `Lifecycle` uses what
`ImplementsAtomicChange` shows: for it, applying a plan is one step, or a strict
prefix of its actions when the process is killed. `ProfileObservation` takes of
`AppServerClient` that an observation succeeds or fails.

## 3. From the code to the model

**Tree.** `files` maps each path to its content and an identity; `dirs` maps each
directory to an identity. Identities are who made the thing: `prepared` (it is the
one the preparation saw), `engine` (this run made it), `foreign` (somebody else).
That is all the code can tell from device and inode numbers. `Data` stands for
bytes and permissions together: the code compares them together
(`installPathSnapshot`). Files under a directory exist only while it stands.

**Other processes.** `EditFile` and `EditDirectory` write, remove or replace any
file or directory at any moment; `MaxEdits` bounds how often. `touched` remembers
what they changed, so that a property can speak of everything else.
`PruneBackup` takes a copy out of the backup, and counts as an edit.

**Plan.** A member of `PlanType` is what the preparation returns: actions by
stage, the snapshot (`before`, `standing`), the planned directories, whether a
backup is required, and the terminal and dry-run flags. `Steps` lists the actions
in the order of `mutationApplicationStages`, or of `applyInstall`.

**Control.** `phase` says which call the process is about to make, `pc` which
action (or, in the cleanup, which planned directory) is under way.

| phase | the code is about to | actions |
| --- | --- | --- |
| `validate` | check the plan again | `Validate` |
| `backup`, `copy` | create the backup, copy, write the manifest | `OpenBackup`, `CopyToBackup`, `WriteManifest` |
| `begin` | inspect the next destination | `Begin`, `RemoveDirectory`, `Complete` |
| `require`, `walk` | check, then make, the directories above it | `RequirePlanned`, `MakeDirectory`, `MakeInstallDirectory`, `PathReady` |
| `open`, `look`, `publish` | open the parent, look once more, rename or unlink | `OpenDirectory`, `LookAgain`, `Publish`, `FindRemoved` |
| `rmdir` | remove a directory of the plan | `Rmdir` |
| `record`, `abandon` | record created directories (install), after an action and after a failure | `Record`, `RecordFails`, `Abandon` |
| `rollback`, `restore` | undo the journal from its end | `UndoFile`, `Restore`, `UndoDirectory`, `NothingToUndo`, `UndoFails`, `JournalUndone` |
| `cleanup`, `sweep` | take away created directories | `CleanUp...`, `Sweep`, `CleanUpFails`, `ReportFailure` |

`OperationFails` lets any call return an error, `UndoFails` and `CleanUpFails` any
call of the rollback. `Kill` stops the process anywhere. One step of the model is
the code between two points at which another process can make a difference: an
inspection and the decision it leads to, or one system call that changes the
tree.

Differences between the two operations that the models keep: an update compares
identities of files and parents, an install only contents of files and
identities of directories; an update cleans up the directories it created, an
install those it managed to record; an update reports a created directory that
is not empty, an install passes over it; an install drops an error of recording
after a failed action; a removal that finds its destination gone counts as done
and is journaled.

`held` is what the process last saw and holds: the identity of the parent
directory it has open, which makes a later rename fail when that directory was
removed, and the file as of the last look, which the properties use to tell the
unavoidable window from a missed check.

### Lifecycle

`tree` is what all commands share: `files` (for each path a `body` - the release
that wrote it, or `Edited` - the state of its markers, and whether there is text
of the user's `own` around them), `dirs`, the state `record` of each installation
(format, version, targets with destination and checksum, owned directories) and
what is `saved` in backups. `Registry` is the table of `targets.go` with its
destinations, of which `Targets` are in play.

`Prepare` is `PrepareInstall`, `PrepareUpdate` or `PrepareUninstall`: a command is
pending with the tree it has seen. `Accepted` and `Steps` are functions of that
tree: `InstallAccepted` and `InstallSteps`, and so on, translate the functions of
`install_prepare.go`, `update.go`, `uninstall.go` and `force.go` by their names.
Where the code goes through a sorted list, the model does (`Ordered`, `DeepestFirst`):
the order in which directories are made and removed decides what a killed command
leaves. These are recursive functions, so that proofs can use them.
`Apply` applies the steps to the tree as it is then, if the plan is `StillValid`
(an install is prepared again; every action must find what it has seen) and
`Applicable`; `Kill` applies a strict prefix. `WriteOwn`, `EditBody`,
`BreakMarkers` and `Delete` are the user. `TargetStatus` is what `check` reports.

### Codex Bridge installation

`disk` holds the two directories of a payload (`bin`, `marketplace`) in their three
places (live, staging, backup), each with at most one owned file of some version,
changed or not, and files nobody recorded. `record` is `install.json`, `codex` the
two registrations. `pc` is the call the command is about to make; one action is
one system call, or one call of Codex with the inspection that precedes it.
`Succeeds` and `Fails` let a call of Codex fail with or without having taken effect;
`CallFails` does the same for files; `MaxFaults` bounds how many do in one command.
`Kill` leaves staging and backup directories as `litter`; the next command starts
from what is there. `Edit` changes payload, record or registrations.

### App Server client

The client's fields are `transport` (0 for nil), `initialized`, `initializedCWD`,
`userAgent`, `nextID`, and its mutex `mu`. A caller is at `pc`: waiting for the mutex,
looking at the transport without it (`check`, `use`: `exchange` reads the field
twice), awaiting the goroutine that does its exchange, or closing. `io` is that
goroutine: it takes the pipes of the transport (`ioMu`), writes, and reads lines
until one has an id. `GiveUp` is the deadline or the cancellation, at any moment:
the caller closes the transport, waits for the process and then for the goroutine.
A nil transport in `use` panics: `crashed`. `Answer`, `Stray` and `Exit` are the
servers.

### Observation of a Profile

A file of an installation is `right` (what the catalog's digests were taken of),
`wrong`, `garbled` or `absent`. `phase` follows `ObserveProfile`; `reading` is the tree
under digest: `ReadFile` reads one file (which one is next is fixed, as by the sorting
of names, but not how), and the digest is right when every file was right when read and
the names are the same at the end as at the start. `Attest`, `AttestBinding` and
`AttestDistribution` are `attestCandidate`, `MatchSkill`, `MatchBinding` and
`ConfirmBinding` the loop of `BuildBindingInventory`, `Return` what follows it. Between
any two of them `Edit` changes a file and `Replace` removes or installs a whole tree.
Profiles are edited before they are read, and between the answer and `VerifyOverlay`.
What is expected of a catalog is stated as assumptions, which TLC evaluates: IDs of
Bindings are unique in a Provider, a Skill has its `SKILL.md`. `lately` and `throughout`
are history variables for the properties: which files were right at some moment after
discovery, and which were so all the time.

## 4. What the runs check

| Run | Instance | Properties |
| --- | --- | --- |
| `mutation_safety` | nine plans; one edit anywhere, any failure, a kill anywhere (458,128 states) | `TypeOK`, `FailureRestores`, `CommitIsComplete`, `StateTrailsDisk`, `Concludes` |
| `mutation_races` | three short plans; two edits or prunings (195,807) | `BackupCoversLoss`, `EditsSurvive` |
| `mutation_atomic` | nine plans, no other process (11,033) | `ImplementsAtomicChange` |
| `install_safety` | three plans; two edits (602,059) | `TypeOK`, `FailureRestores`, `CommitIsComplete`, `StateTrailsDisk`, `EditsSurvive` |
| `install_atomic` | three plans, no other process (2,984) | `ImplementsAtomicChange` |
| `lifecycle_safety` | a project, Codex and OpenCode (one router file), two releases: three commands, forced or not, one edit, one kill (52,585) | `TypeOK`, `RecordsStayReadable`, `AppliedMeansClean`, `NothingLeft`, `CleanMeansManageable`, `ForceHeals`, `CheckSeesEverything`, `NoUserLoss` |
| `lifecycle_shared` | a user installation and a legacy project, Claude and Cursor, two processes: three commands, a file of the user's (19,579) | `NoSharedOwnership`, `NoUserLoss` |
| `bridge_safety` | two releases: three commands, two failing calls each, one edit, kills anywhere (2,016,044) | `TypeOK`, `FailureIsHonest`, `OneFaultIsUndone`, `SuccessIsComplete`, `PreviousPayloadKept`, `EditsSurvive` |
| `appserver_calls` | two goroutines, two calls, two servers, one stray line, two directories (152,359) | `TypeOK`, `BindsCwd`, `NoServerIsLost`, `OwnAnswers`, `EveryCallReturns` |
| `profile_safety` | three installations, four probes, three Profile files; eight disks, six answers of Codex, two edits (1.37 million) | `TypeOK`, `ClaimsAreLive`, `OneInstallation`, `VerifiedOverlayFits`, `NobodyForgotten` |
| `mutation_foreign` | a legacy migration, one edit | `ForeignContentPreserved`, violated: section 7 |
| `install_reclaim` | three plans, one edit | `CreatedDirectoriesReclaimed`, violated: section 7 |

What the properties say:

- **`FailureRestores`**: a plain failure means that every file (and, for updates
  and uninstalls, every directory) nobody else touched is as it was prepared. The
  model lets undo steps fail, so the property also says that such a failure is
  never reported as a plain one. For installs the part on directories is weaker,
  because `Abandon` and `RecordFails` may leave some unrecorded: it holds when
  nobody touched a directory and no inspection failed.
- **`CommitIsComplete`**: a success means that all the plan's bytes are in place and
  every planned directory is of this run.
- **`StateTrailsDisk`**: whenever the state record shows the outcome of the
  operation, so do the Policy Set and the targets - in every state, so also in the
  one a kill leaves. This rests on the order of the stages, forwards and
  backwards.
- **`EditsSurvive`**: bytes that the plan does not account for are replaced or
  removed only if they arrived after the last look at that very file; a directory
  of somebody else's is removed only if it came in place of the one last looked at.
- **`BackupCoversLoss`**: the bytes a forced operation has destroyed are in its
  backup, unless the copy was pruned after the action had begun.
- **`ImplementsAtomicChange`**: undisturbed, the operation refines `AtomicChange`:
  changes are only ever all in place (committed), none (aborted), or reported as
  incomplete; and it ends.
- **`Concludes`**: whatever fails, the process reports an outcome.

`Lifecycle`:

- **`RecordsStayReadable`**: whatever sequence of commands wrote it, and wherever one
  was killed, `ParseInstallationState` and `ValidateOwnedDirectories` accept the record.
- **`AppliedMeansClean`**: the step that applies an install or update leaves each target
  it selected clean for `check`, whatever else the tree held. The one exception: when
  something foreign has come into the Policy Set since an update was prepared, which the
  application does not look at again, `check` goes on reporting it.
- **`NothingLeft`**: when the last target goes, so do all files, blocks and directories
  of OAW's in the installation's scope, unless they hold something of the user's.
- **`CleanMeansManageable`**: what `check` finds clean, or ready to be upgraded, can be
  updated to any release and uninstalled without force.
- **`ForceHeals`**: as long as no recorded file is missing, nothing foreign lies in the
  Policy Set and the markers can be told, a forced update is accepted and heals every
  target.
- **`CheckSeesEverything`**: when `check` reports no drift, all that OAW wrote in the
  scope is on record as it is, also after a kill.
- **`NoUserLoss`**: no command drops the user's own text or changed bytes of OAW's files
  unless they are in a backup.
- **`NoSharedOwnership`**: no directory is owned by two installations, whichever
  process prepared before the other applied.

`BridgeInstall`:

- **`FailureIsHonest`**: refused, predicted or rolled back means that payload, record
  and registrations are as before, as far as nobody else changed them (an install
  that is rolled back removes a marketplace that its own failed call may have added).
- **`OneFaultIsUndone`**: one failing call, with or without effect, is always made
  good in an install or update.
- **`SuccessIsComplete`**: payload, record and registrations name the new version;
  after an uninstall exactly the owned files still there are recorded.
- **`PreviousPayloadKept`**: from its first rename on, and when killed, an update keeps
  the files of the payload the record names until the record names the new one.
- **`EditsSurvive`**: as above, for the payload and the record.

`AppServerClient`:

- **`OwnAnswers`**: an observation rests on the answer to its own request, and unless
  the client was closed meanwhile it names the version of the server that answered.
- **`BindsCwd`**: between two closings one client observes one working directory.
- **`NoServerIsLost`**: a running server is the client's, or somebody is about to close
  it.
- **`EveryCallReturns`**: every call ends though servers may never answer; the program
  can panic instead, but only after a `Close`.

`ProfileObservation`:

- **`ClaimsAreLive`**: each file of a claimed Binding was as the catalog knows it at
  some moment after discovery had ended, whatever was edited and put back. (Not all
  of them at one moment: the digest reads one file after the other.)
- **`OneInstallation`**: when two installations that were right all the time offer
  the same enabled Skill, there is no Overlay.
- **`VerifiedOverlayFits`**: an Overlay that verifies claims each occurrence of the
  Profile it is verified against, in order, however Profiles were edited since.
- **`NobodyForgotten`**: for each well-named enabled Skill that gave no observation,
  the diagnostics, merged and cut as they are, name its Providers.

**Bounds.** The plans cover what the preparations build: an update, a forced one
with a target that needs no change, a legacy migration with two nested new
directories, one that also needs a new Policy Set directory, full, forced and
partial uninstalls, a manual recovery that only makes a backup, and a dry run;
for installs a fresh one, an added target and a dry run. Each names at least
three targets at different depths, so that a failure has earlier actions in its own
and in earlier stages to undo, and a directory shared by two of them. Three
contents (`old`, `new`, `alien`) are what the comparisons tell apart: what was
prepared, what is written, and anything else. One edit suffices to separate any
look from its use; two let a directory be removed and made again, or a copy be
pruned and its source edited.

In `Lifecycle` the two targets of `lifecycle_safety` share a router file, and the second
release drops one Policy Set file and adds another, so that ownership, obsolete files
and shared destinations all occur; three commands allow install, partial uninstall
and update in any order, and one kill or edit separates any two of them. The second
instance has what the first lacks: user scope, an installation of format 1, a target
that exists in projects only, and two processes. Commands that would be refused leave
no trace and are not counted.

In `BridgeInstall` two faults let a rollback fail after the failure it rolls back, and
three commands let one start from what another has left, partial uninstalls included.

In `AppServerClient` two calls are one exchange disturbed by another or by a Close. A
third call lets a caller come back after a failure; with symmetric callers the
safety properties hold there too, but liveness cannot be checked under symmetry, and
without it three calls take longer than a run may. The safety properties are proved for
any number of goroutines, calls, servers and directories (section 6), so only
`EveryCallReturns` rests on the bounds.

In `ProfileObservation` two edits let a file be changed and put back around a digest,
or a plugin be removed and installed again. Two diagnostics stand for the budget of
thirty-two, so that cutting happens. The eight disks and six answers reach every
diagnostic and every result code but one: `OVERLAY_INVALID`, which the Bridge's own
verification cannot produce. All five properties are proved for any number of edits and
any budget (section 6), so nothing rests on these bounds.

## 5. Fairness

`Spec` assumes `WF_vars(Process)`: each step of the process is a system call, or
computation between two of them, and it returns, with a result or an error. The
program has one goroutine here and waits for nobody. Nothing obliges the editor,
the pruning or the kill to happen; the editor is bounded by `MaxEdits`, which is
what makes `MakeDirectory` unable to go on for ever against somebody who removes
what it makes - as it could in the code. Every system state with the process at
its end stutters explicitly (`~Running /\ UNCHANGED vars`), so deadlock is checked
in all runs of these modules.

`AppServerClient` assumes strong fairness of each caller's steps and of each
exchange: Go's `sync.Mutex` hands a starving goroutine the lock after a millisecond,
timers fire, and pipe operations return once their other end is closed. `GiveUp` is
one of those steps, since every exchange has a deadline. Of the servers only
`Killed` is fair: a killed process exits. Nothing makes a server answer. The code's
`Wait` also waits until `stderr` is closed by every process that inherited it; that
this happens is part of the assumption.

`Lifecycle`, `BridgeInstall` and `ProfileObservation` state safety only: their commands
are straight-line code without loops that others could prolong. They switch deadlock
off, or end in an explicit stuttering step, because they stop when their bounds are
used up.

## 6. What is proved

**Installer.** For all paths, contents, plans and numbers of edits that satisfy the
assumptions:

| Updates and uninstalls (`MutationApplyProofs`) | Installs (`InstallApplyProofs`) | Statement |
| --- | --- | --- |
| `MutationInvariant` | `InstallInvariant` | `Spec => []MutationInv`, `Spec => []InstallInv` |
| `TypeCorrect` | `InstallTypeCorrect` | `Spec => []TypeOK` |
| `CommitCompletes` | `InstallCompletes` | `Spec => []CommitIsComplete` |
| `FailureIsUndone` | `InstallFailureIsUndone` | `Spec => []FailureRestores` |
| `TraceInvariant` | `TraceInvariant` | the two above, and what journal, last look and backup tell |
| `StateTrails` | `StateTrails` | `Spec => []StateTrailsDisk` |
| `BackupCovers` | - | `Spec => []BackupCoversLoss` |
| `EditsAreSpared` | `EditsAreSpared` | `Spec => EditsSurvive` |
| `AtomicWhenAlone` | `AtomicWhenAlone` | `MaxEdits = 0 => (Spec /\ Concludes => ImplementsAtomicChange)` |

Assumptions, which TLC evaluates on every run: `PathsAssumption` (files
and directories are different paths, each with its sequence of directories above
it, and a missing file has no content), `MaxEditsAssumption`,
`PlansAssumption` (plans are well formed, name no destination twice - the code
merges or refuses those - and plan only directories that are missing),
`StateIsLastAssumption` (a plan has at most one action on the state record -
`prepareUninstallStateActions`, `prepareUpdateStateActions` and `prepareInstall` append
exactly one - and the stage after it removes directories only) and
`MutationPlansAssumption` (the plan is an update or uninstall). Installs need
`InstallPlansAssumption` (all actions are writes), `AncestorsAssumption` (the
directories above a path include those above each of them) and
`InstallTreesAssumption` (the snapshot is one of a tree: what stands has its
directories standing; new directories are planned from the outermost).

None of the properties is inductive. That a plain failure has restored everything
depends on what the journal says about files at *every* earlier step. The
invariant has these parts:

- `ChangeInv` (`PreparedChangeProofs`), shared with installs: types; where `pc`
  points in each phase; the journal lies below `pc`, is empty from the cleanup on,
  and `broken` is only set by the rollback (`JournalInv`); an untouched file shows
  what its journaled action made of it, and otherwise what was prepared, unless an
  undo step failed (`FilesInv`); going forward no changing action has been passed
  over without being journaled (`ProgressInv`); created directories are planned
  ones and stand until they are cleaned up (`CreatedInv`); the directory held open
  stays in place as long as it holds an untouched file (`HeldInv`) - needed so that
  an undo which could not proceed because its parent vanished is never mistaken for
  one that had nothing to do.
- `DirsInv` (`MutationApplyProofs`): an untouched directory is missing, prepared or
  ours according to the snapshot, the journal and the created set; in the cleanup
  the planned directories already passed are gone or were reported.
- `BackupTypeOK`.
- `RecordInv` (`InstallApplyProofs`), in place of `DirsInv` for installs: as long as
  nobody touches a directory and no inspection fails, every directory made is a
  planned one and is recorded by the time the rollback begins, none is recorded
  under an identity that is gone, and the cleanup has taken away each it has passed,
  unless it holds something of somebody else's. The last part needs the order of
  the cleanup: when a directory is not empty, what is left in it is either a file
  nobody planned or an inner directory that was passed before.

- `TraceInv` (`PreparedChangeProofs`): the journal has no gaps - an action that changes
  a file is journaled if a later one is (`OrderInv`) -; what was last seen of a
  destination before a rename, an unlink or a rmdir is what the plan accounts for
  (`LookInv`); nothing is touched without an edit, and an operation that never began
  leaves no journal (`EndInv`). `StateTrailsDisk` follows from `OrderInv` because the
  state record is the last file of the plan (`StateIsLast`, the one place where a proof
  goes into the concatenation of the stages); `EditsSurvive` from `LookInv`; and what a
  caller is told is true of all files (`TrueVerdict`) from `FilesInv` and `EndInv`.
- `BackupInv` (`MutationApplyProofs`): every journaled action, and the one past its
  check of the backup, is covered by the backup, or its copy was lost after the action
  began. It is what `BackupCoversLoss` lacks to be inductive: the check and the write
  are two steps.

The refinement is proved step by step: no step but a publication or a restoration
changes a file, and those change one each while the verdict is open (`StepIsAtomic`);
a verdict is only given when it is true. It holds with `MaxEdits = 0`: another process may
well make a change visible in part. The liveness half of `AtomicChange` (`Ends`) is taken
from `Concludes`, which TLC checks of the same specification.

Each action has a lemma that it keeps `ChangeInv`, one for the families of actions
that leave directories alone, and one for each that makes or removes one.
`StepKeeps` collects them, in each of the two modules.

**App Server client** (`AppServerClientProofs`). For any goroutines, directories, calls,
servers and stray lines:

| Theorem | Statement |
| --- | --- |
| `ClientInvariant` | `Spec => []ClientInv` |
| `ClientTypeCorrect` | `Spec => []TypeOK` |
| `NoServerLost` | `Spec => []NoServerIsLost` |
| `OneDirectory` | `Spec => []BindsCwd` |
| `AnswersAreOwn` | `Spec => OwnAnswers` |

Assumptions: `CountsAssumption` (the bounds are naturals) and `CallersAssumption` (a
goroutine is not the value that stands for a free mutex). The safety of the client does
not rest on fairness. `ClientInv` has these parts:

- `Shape` and `PlaceInv`: where a caller is determines which call it can be in.
- `MutexInv`: whoever initializes holds the mutex, the client is not initialized
  meanwhile, and its transport is the one being initialized. Without it a `Close`, or a
  second initialization, could come between the answer to `initialize` and the end.
- `AgentInv`: an initialized client has the version of its own server; an observation
  begun since the last `Close` runs over the client's transport. From this follows the
  second half of `OwnAnswers`.
- `EpochInv`: whatever has been, or is about to be, observed since the last `Close` is for
  the directory the client is initialized for. Callers that are past the check count
  here, since they observe later without the mutex.
- `DirectoryInv`: `BindsCwd`, also between callers that have passed the check and
  observations already made, for every period between two closings: a late caller may
  report for a period that has ended long ago.
- `ServerInv`: `NoServerIsLost`, and that servers are started in order.

`Types` completes it to `TypeOK`. It includes that an exchange goes on only in callers that
wait for it and have a server (`ExchangeInv`), which is why its pipes exist. Each action
has a lemma for each of the two.

**Codex Bridge installation** (`BridgeInstallProofs`). For any releases and any numbers of
commands, edits and failing calls:

| Theorem | Statement |
| --- | --- |
| `BridgeInvariant` | `Spec => []BridgeInv` |
| `BridgeTypes` | `Spec => []TypeOK` |
| `BridgeFailureIsHonest` | `Spec => []FailureIsHonest` |
| `BridgeOneFaultIsUndone` | `Spec => []OneFaultIsUndone` |
| `BridgeSuccessIsComplete` | `Spec => []SuccessIsComplete` |
| `BridgePreviousPayloadKept` | `Spec => []PreviousPayloadKept` |
| `BridgeEditsSurvive` | `Spec => EditsSurvive` |

Assumptions: `VersionsAssumption` (there is a release, and none is named like another
kind of content or registration) and `BoundsAssumption` (the bounds are naturals). What
the command reports when it ends depends on all it has done; `BridgeInv` says, for each
call it may be about to make, what that was:

- `ControlInv`: types; which operations come to which call (`PlaceInv`), on which directory or
  rename (`IndexInv`), in which direction and with which failures behind them
  (`DirectionInv`), and what was seen last (`LookInv`).
- `RecordsInv`: a record names a file. An uninstall that removed everything forgets
  the record, so none is written without files.
- `StagingInv`: nothing is in a directory that is missing, so that a rename onto a missing
  one loses nothing; which directories are still in staging.
- `PayloadInv`: where each directory of the payload is that nobody else touched. Going
  forward it is in place, set aside, or replaced by the new one (`PublicationInv`); going back
  it is put in place again from the last to the first (`RollbackInv`); an uninstall counts
  as remaining exactly the files that are still there (`RemovalInv`). In every place
  an update's files are in the live directory or in the backup (`Saved`), which gives
  `PreviousPayloadKept`; `PayloadIsSaved` derives it.
- `RecordInv`, `CodexInv`: record and registrations as far as the command has come. What
  `codex plugin add` registers is read from the live manifest, so `CodexInv` rests on
  `PayloadInv`.
- `FaultInv`: how many calls must have failed for the command to be here, unless somebody else
  interfered. `OneFaultIsUndone` is about what a second failure would break: without
  this part one could not tell that a rollback that gives up has met two.
- `ReportInv`: the properties themselves, which stay true while no command runs.

Each action has a lemma that it keeps `BridgeInv`. `BridgeEditsSurvive` needs the
invariant as well: a rename that goes through loses no file (`MoveSpares`), and the
record a command replaces is the one it has read (`LookInv`).

**Observation of a Profile** (`ProfileObservationProofs`). For any catalog, disks, Profiles,
answers of Codex, budget of diagnostics and number of edits:

| Theorem | Statement |
| --- | --- |
| `ObservationInvariant` | `Spec => []ObservationInv` |
| `ObservationTypes` | `Spec => []TypeOK` |
| `ClaimedFilesWereLive` | `Spec => []ClaimsAreLive` |
| `NoChoiceOfInstallation` | `Spec => []OneInstallation` |
| `VerifiedFitsProfile` | `Spec => []VerifiedOverlayFits` |
| `EveryoneIsNamed` | `Spec => []NobodyForgotten` |

Assumptions: `CatalogAssumption` (what the decoder of the catalog enforces, and that it
declares the `SKILL.md` of its Skills), `FiniteAssumption` (Bindings, probes and the paths
they visit are finitely many), `DisksAssumption`, `AnswersAssumption` (disks map files to
contents, Codex lists a sequence of entries) and `NoneAssumption` (no value is mistaken
for a missing one). `ObservationInv` follows one Skill from the list to its claim:

- `PhaseInv`, `ReportInv`: what each phase has in hand; a candidate is reported with all
  its Bindings attested or with none.
- `HistoryInv`, `ReadingInv`: every file that was read and found right is in `lately`; a
  digest of files that were right all the time cannot fail. The two together are why
  nothing is claimed that was not live, and nothing that was undisturbed is missed.
- `JobInv`: the Skill being matched lies in exactly one reported installation, which is
  the candidate of the job.
- `InventoryInv`: an observation is of an attested Binding each of whose files was
  right. That it is *this* Binding needs the uniqueness of Binding IDs (`VerifiedFacts`).
- `SeenInv`: a Skill that is listed unambiguously and was right all the time (`Clear`) is
  waiting, being matched, or observed. `ClaimsAreLive` and `OneInstallation` are
  properties of the end; these two parts carry them through the loop.
- `AnsweredInv`: every well-named Skill is waiting, being matched, observed or diagnosed.
- `IssuedInv`: the Overlay has, for each occurrence, the one verified Binding of its
  reference, and its diagnostics name everybody.

Two installations that are both clear for one reference would both be observed, once
each since there are no duplicates (`OnceFacts`), so both verified, against `IssuedInv`:
that is `OneInstallation`. `NobodyForgotten` also needs that merging and cutting lose
nobody: a diagnosed key has its own place in the order (`RankFacts`, `AggregateFacts`), and
what the budget cuts is in the summary (`NormalizeFacts`).

**Life of installations** (`LifecycleProofs`, `LifecycleTreeProofs`). For any projects,
releases and their Policy Sets, targets, requests, users' files and numbers of
processes, commands, edits and kills:

| Theorem | Statement |
| --- | --- |
| `LifecycleHolds` | `Spec => []LifecycleInvariant` |
| `ReadableForEver` | `Spec => []RecordsStayReadable` |
| `DirectoriesHaveOneOwner` | `Spec => []NoSharedOwnership` |
| `FilesFit` | `Spec => []FittingInvariant` |
| `UsersLoseNothing` | `Spec => NoUserLoss` |
| `AppliedIsClean` | `SameDirectories => (Spec => AppliedMeansClean)` |
| `ForcedUpdateHeals` | `Spec => []ForceHeals` |
| `TreeHangs` | `Spec => []RootedInvariant` |
| `LifecycleTyped` | `Spec => []TypeOK` |
| `CleanIsManageable` | `SameDirectories => (Spec => []CleanMeansManageable)` |
| `CheckIsHonest` | `OneProcess => (Spec => []CheckSeesEverything)` |
| `NothingIsLeft` | `Spec => []NothingLeft` |
| `UnkilledCheckIsHonest` | `Spec => [](kills = 0 => CheckSeesEverything)` |

Assumptions: `InstallationsAssumption` (a project is named apart from the other roots),
`PolicySetAssumption` (the Policy Set of a release is a finite set of relative paths with
`POLICY.md` and a file in the directory `profiles`, as `ValidatePolicySet` demands),
`TargetsAssumption` (the targets in play are in the registry),
`RequestsAssumption` (requests name installations, releases and targets in play),
`LegacyAssumption` (at most one installation begins in format 1, with a record that can
be read), `UserAssumption` (the user's files and directories have paths, and the
directories that were there hang in each other) and `BoundsAssumption` (the bounds are
naturals). None of the properties is inductive: a command writes the record its *preparation*
computed, from a tree other processes have changed since. The invariant says of the
tree, and of the tree each pending command has seen and accepted, that it is `Good`:

- every record is `Kept`: it is finite, lies in the scope of its installation, and can be
  read again;
- the namespaces shared by installations stand as long as a record owns something there;
- directories owned by different installations are different.

A step writes at most one record (`InstallPlan`, `UpdatePlan`, `UninstallPlan`: what the
plans consist of, whatever the paths). An update or an uninstall writes it over the one it
has seen (`RecordSeen`), so that its directories are still its own. An install is prepared
again: the directories it claims are missing when it is applied, and what another
installation owns either stands as a namespace or lies elsewhere (`ScopesApart`). Since
`RemoveEmptyDirectory` spares what is not empty, a namespace goes only with the last
record in it. Plans are run to any length: `RunTrail` and `SetInduction` argue about sets
of positions, where the library's induction theorems would need an operator.

`UsersLoseNothing` is about files, and rests on the invariant above and on a second one,
`FittingInvariant`. That a command spares what users wrote follows from what its
preparation checked only together with what files and records can be at all. Of the tree,
and of the tree each pending command has seen, it says:

- markers stand only where the registry puts managed blocks (`BlockPath`: the last name of
  the path, and not inside a Policy Set directory, tells them apart; `RegistrySorted` goes
  through the entries), and a file without markers there has no body of OAW's;
- elsewhere a file that OAW wrote holds no text of the user's: who writes into it has
  `Edited` it;
- a record's targets are at their registry destinations, in the registry's mode, and it
  vouches for renderings of releases, never for edited text.

The argument has three parts. *The plan*: each write or removal spares the file it
touches, since the record vouches for it (`RenderSpares`, `UninstallSpares`,
`PolicySpares`), or nothing of OAW's was there (`UntrackedSpares`, `NothingForeign`), or
the plan begins with a copy of everything it destroys (`WithBackupSound`). `InstallSound`,
`UpdateSound` and `UninstallSound` say so of the three commands, whatever was forced.
*The tree*: an update or uninstall was planned for the tree it had seen; each of its
actions still finds the file it saw, so the plan is sound for the tree it meets as well
(`SeenSound`). An install is planned again. *The run*: `RunTraced` follows the file at
each path through a plan of any length - it is as before, or as some step wrote it, or
some step removed it - and so through each part of it that a killed process has done
(`CarefulRun`, `CarefulPart`).

`AppliedIsClean` and `ForcedUpdateHeals` say what a whole plan leaves for `check`.

- *What a plan does*: an install and an update both renew (`Renewing`): they render
  targets at their destinations, write the files of the release, remove files of older
  releases, make directories, copy into a backup, and write the record (`InstallOrderly`,
  `UpdatePlanned`, `BackupRenews`). Whatever the order of such steps, those that touch one
  file agree on it (`RenewalTouches`), so that the run leaves it that way
  (`RenewalFiles`); directories only come, and in the Policy Set only ones above a file
  of the release (`RenewalDirectories`).
- *What `check` makes of it*: a target whose record was renewed is clean when the Policy
  Set holds nothing but the release's files and directories (`RenewedClean`). That an
  update leaves nothing older there is so because the record names every file in it
  (`ValidatePolicySetTree`), and the plan removes those the release has no longer.
- *The tree it meets*: an install is planned again for it. An update was planned for an
  older one, and writes the record it prepared then over the one it has seen; what has
  come into the Policy Set meanwhile is the exception in the property.
- *When it is accepted* (`ForcedUpdateHeals` only): a forced update of all targets accepts
  each record that is present and can be told (`RepairedIsFine`, `RepairedHeals`), and
  the record it writes can be read again since its targets are those it read
  (`WholeUpdateTargets`, `WholeUpdateRecord`).

The hypothesis `SameDirectories` says that the files of all releases lie in the same
directories. That is so of every release this code makes: `canonicalPolicySetFS` embeds
the Policy Set by patterns for three directories (`policy_set.go:69`), and
`ValidatePolicySet` requires files in each (`policy_set.go:146`). Without it
`AppliedMeansClean` is false, since an update removes files only (section 7).
`ForcedUpdateHeals` needs no such hypothesis: it stays with one release. The instances
satisfy it; that they have a release which drops a file, and none that drops a
directory, is therefore no accident.

The other theorems are about the whole tree. Each has an invariant of its own beside the
two above.

`TreeHangs` (`RootedInvariant`): every file and directory has all directories above it.
`TypeOK` follows from it together with `FittingInvariant`. A plan keeps it for one of two
reasons, which hold of each part of the plan that a killed process has done as well.
Installs and updates are `Grounded`: a directory that is made or written into stands, or
an earlier step of the plan makes it; that rests on the order in which
`MakingDirectories` puts directories before the files below them (`MakingLed`), and on
`Applicable`. Uninstalls are `Settled`: they write only over files that are there and stay,
and remove a directory only when it is empty.

`CleanIsManageable`: what `check` calls clean or ready (`CheckedManageable`) is what the
preparation demands without force (`Manageable`). An uninstall is accepted as it is. An
update of all targets finds each artifact on record, or nothing at its destination
(`MovingWanted`, `MovingArtifact`); the record it plans can be written (`MovingRecord`),
also where a format 1 installation is migrated, whose missing directories are planned;
and every directory it writes into stands or is planned (`MovingApplicable`). For the
Policy Set that needs `SameDirectories`, since an update plans no directory there.

`CheckIsHonest` (`SightInvariant`): what OAW wrote lies where the Policy Set or an artifact
of some target goes (`Known`), and when it lies in the Policy Set of an installation that has
no record, so does `POLICY.md` (`Announced`), which `check` looks for. The second part is about
kills and about order: an install writes `POLICY.md` first and its record last
(`BeginsPolicy`), an uninstall removes every file of the Policy Set before the record
(`EndsPolicy`), and an update has a record all the time (`KeepsRecord`). That the plan is
for the records as they are, and for no less than is there, follows with one process from
its having looked last. With two it is false: section 7.

`NothingIsLeft` (`TidyInvariant`) is for any number of processes, and for histories without a
kill. Of each installation it says that it is `Accounted` for: every file in its scope with
text of OAW's is on its record; every directory in its scope was there before OAW, is on
its record, or holds something of theirs - a file that is not on record, or one that was
there before OAW. When there is no record, that is `NothingLeft`. How the commands keep it:

- *An install or update* records all it makes and drops nothing it does not remove
  (`Follows`, `RenewalAccounted`). Origins stay: what was created counts as created for as
  long as it is on record, and a new artifact counts as created only where there was no
  file (`RenewedOrigin`), which for an update depends on every path being looked at again
  (`RenewedPresent`).
- *An uninstall* takes away each file and block it forgets (`UninstallFiles`), and it
  removes directories from the deepest (`Clearing`), after the files in them. So a
  directory it forgets can stay only because something lies below it at the end
  (`RunClears`). Take the deepest directory below it that still stands: it is not a
  recorded one that was to be kept, for then the one above it were kept too
  (`RetainedAbove`); so it holds something of theirs (`UninstallAccounted`).
- *A command elsewhere* changes nothing in the scope but what two installations share, which
  lies outside both (`Local`, `LocalAccounted`).

`UnkilledCheckIsHonest` is `CheckSeesEverything` for any number of processes and histories
without a kill. `TidyInvariant` puts every file with text of OAW's on a record, and `check`
looks at all that is on record: the whole Policy Set once any target is asked about, and
each artifact under its target.

Every safety property that a run checks is now stated by a theorem, for all instances.

The proofs found six places where the model had been wrong or too weak to be reasoned
about, all corrected after the source. `NoUserLoss` had called text lost that a forced
command replaces together with the file around it, though it copies both first.
`RequireUnclaimedPolicySetDirectory` had accepted a file in the place of the profiles
directory. `AppliedMeansClean` was stated of states, where its exception could only be
approximated. The assumptions on releases had left out what `ValidatePolicySet` checks. A
backup had made its own directory but not the one above it (`createPrivateBackupPath` makes
each), and `Applicable` had asked for the directory of a written file only, where
`requirePlannedMutationDirectories` walks through all of them.

**Only model-checked.** `Concludes` and `EveryCallReturns` are liveness under fairness, which
TLAPS does not reach; `AtomicWhenAlone` takes the liveness half of the refinement from the
first. What the proofs take as hypotheses, and the runs do not show beyond their
instances, is `SameDirectories` and `OneProcess`.

## 7. Where code and documentation disagree

- **A concurrent replacement of a file can be lost** (`mutation_foreign`). The
  installer's documentation says that foreign content is preserved rather than
  deleted. The rollback looks at the destination and then renames over it
  (`filesystem.go:147`) or unlinks it; what another process puts there in between
  is lost, and the operation can report a plain failure. `EditsSurvive` shows that
  this window is the only one.
- **A created directory can be left behind** (`install_reclaim`). When one of the
  directories an action created vanishes before it is recorded,
  `recordCreatedInstallDirectories` returns early, in map order, and the other ones
  stay unknown to the rollback: they remain, empty, after a plain failure.

The rest was met while modelling. No run shows it, since it is either an exception a
property above makes, or outside the instances.

*Installations.* The directories `state`, `installations` and `projects` are recorded by
the first installation only, and stay for good when that one is uninstalled first. A
release that drops the last Policy Set file of a directory leaves the directory, which
`check` then reports as drift (`SameDirectories` rules such a release out, as the patterns
of `policy_set.go:69` do); a release that adds a Policy Set file in a new directory
cannot be applied by `update`, which plans none (`update.go:265`). A kill in a first
install leaves an untracked tree that the next install refuses, forced or not.
Updating some of the targets leaves the others with the checksum of the old release.
A file that a user puts into the Policy Set directory after an update was prepared is not
looked at when the update is applied: it stays, and `check` reports drift.

*Check.* Two processes and two kills can leave a file of OAW's that `check` does not see. A
forced update to a second release is killed after `POLICY.md`; an uninstall of everything,
forced, is prepared; a second such update is killed after it has written a profile that the
first release lacks; the uninstall is applied, since none of its own paths has changed:
record and `POLICY.md` are gone, the profile stays, and `check` says `not-installed`
(`health.go:20`). `CheckIsHonest` shows that one process does not get there, and
`UnkilledCheckIsHonest` that no number of processes does without a kill.

*Bridge installation.* A kill between publication and `WriteState` leaves a payload
without record, which `install` refuses and `uninstall` calls not installed. When the
undoing of a failed swap fails as well, a plain error is reported and the backup is
nobody's. A live directory that was edited after publication and is taken back to
staging is deleted with it. A registration listed twice counts as none.

*App Server client.* A timed-out call closes the transport, but the client keeps it,
so that every later observation fails until `Close` (`client.go:352`, against the
comment at 275-277). When the initialization for one directory fails, the server that
was started there stays, and a later `Observe` of another directory uses it
(`client.go:194-202`). `exchange` reads the transport without the mutex `Close` takes.

*Observation.* The claims for an installation that is only content-equivalent carry
the catalog's distribution revision and tree digest, which nobody observed
(`service.go:179`, against `docs/en/machine-assurance.md:8-13`). The tree digest in a
manifest is trusted without digesting the tree. `oaw-assurance overlay issue` checks a
claim against nothing but the Profile's occurrence. When a Binding is unavailable the
diagnostics that would say why are dropped. One evidence file that is no text fails
every observation. A Skill in an ambiguous installation is skipped, so that another
installation of the same reference may still be claimed.

## 8. What is left out

Inside the modelled components: symbolic links and file types (the code refuses
them where it would refuse a foreign file), modes apart from contents, the
creation of an allowed root itself, the temporary file, its sync and the directory
sync (their failure is `OperationFails`), the text of the manifest and the modes of
the backup directory (a copy is intact or not), the lines a result prints. A mkdir
that succeeds and whose inspection fails right after is one step, so the directory
left behind in that case is not seen. In these modules
plans are given, not computed, and one process applies one plan.

`Lifecycle`: the reads of one preparation are one step, and so is one application
(`AtomicChange` justifies it; two interleaved applications, and a backup copied in
part, are not seen). Rendered text and its checksum are the number of the release.
The dry run, texts of errors, the syntax of records, symbolic links and other file
types, and the path of a backup in its record are left out. Users remove no
directories.

`BridgeInstall`: `templates.go`, which renders the payload; two Bridge commands at a
time (the code has no lock); edits of staging and backup directories and of the
feature evidence; file modes. A directory holds one owned file instead of several.

`AppServerClient`: the fields of a projection (a line breaks the protocol or does not),
the canonical form of directories, sizes of requests.

`ProfileObservation`: one observation per behaviour, since the service keeps no state; the
discovery of Profiles is one step; directories below an installation are flat, and
symbolic links that leave it, nested installations, file types and size limits are
left out. Only the host `codex` occurs. That a file's size, times and inode do not
change when it is rewritten while being read is ruled out, as the code does. What
Codex answers is drawn when it is first looked at. The hook's rewriting of tool
inputs, JSON-RPC, and the decoding of catalog and manifests are left out.

Not modelled at all: the command line (`cli/`, `cmd/`, `install.sh`), which parses
arguments and prints.

## 9. Plan

Done: the installers and their proofs (`MutationApply`, `InstallApply`), `Lifecycle`,
`BridgeInstall`, `AppServerClient` and `ProfileObservation` and their proofs. What
remains, the most useful first:

1. `CheckSeesEverything` for several processes and kills, with a record of what kills have
   left.
2. Two Bridge commands at a time, and two interleaved applications of installer plans.
3. Managed blocks as sequences of lines, against the reference that a block inserted
   and removed gives back the text.
4. The Hook's rewriting of tool inputs, and the decoding of the catalog.
