--------------------------- MODULE MutationApply ---------------------------
(***************************************************************************)
(* How oaw applies a prepared update or uninstall                          *)
(* (internal/management/mutation_apply.go, filesystem.go, backup.go): the  *)
(* plan is validated once more, the files it destroys are backed up, its   *)
(* actions run in stages, and a failure undoes them in reverse order.      *)
(***************************************************************************)
EXTENDS PreparedChange

VARIABLES copies,     \* backup directory: Files -> copied content
          manifest,   \* the backup manifest has been written
          pruned      \* first action not begun when a copy was last lost, 0 if never (history)

backupVars == <<copies, manifest, pruned>>
vars == <<tree, editorVars, control, backupVars>>

TypeOK == /\ TreeTypeOK /\ ChangeTypeOK
          /\ copies \in [Files -> Data \union {Absent}]
          /\ manifest \in BOOLEAN
          /\ pruned \in Nat

ASSUME MutationPlansAssumption == \A p \in Plans : p.operation # "install"

Init == /\ ChangeInit
        /\ copies = [f \in Files |-> Absent] /\ manifest = FALSE /\ pruned = 0

-----------------------------------------------------------------------------
(* Inspection *)

PreparedFile(f) == FileNode(plan.before[f], "prepared")
PreparedDir(d) == IF d = Root \/ d \in plan.standing THEN "prepared" ELSE "missing"

(* revalidateMutationActionSnapshot: same content, and the same inodes for *)
(* the destination and its parent.                                         *)
FileAsPrepared(f) == /\ files[f] = PreparedFile(f)
                     /\ DirNode(Parent(f)) = PreparedDir(Parent(f))
DirAsPrepared(d) == /\ dirs[d] = PreparedDir(d)
                    /\ DirNode(Parent(d)) = PreparedDir(Parent(d))

(* mutationActionNeedsBackup: the action destroys bytes that were there.   *)
NeedsBackup(p, a) == /\ a.effect \in {"replace", "remove"}
                     /\ p.before[a.path] # Absent
                     /\ After(p, a) # p.before[a.path]

Candidates(p) == p.recovery \union
    {Steps(p)[i].path : i \in {j \in DOMAIN Steps(p) : NeedsBackup(p, Steps(p)[j])}}
CandidatesAsPrepared == \A f \in Candidates(plan) : FileAsPrepared(f)

(* verifyActiveMutationBackup: the manifest and the copied bytes, every time. *)
BackupHolds(a) == manifest /\ copies[a.path] = plan.before[a.path]
BackupMissingFaulty(a) == plan.backup /\ NeedsBackup(plan, a) /\ ~manifest
BackupMissing(a) == plan.backup /\ NeedsBackup(plan, a) /\ ~BackupHolds(a)

-----------------------------------------------------------------------------
(* applyMutationPlan up to the first action *)

PlanStillValid ==
    /\ \A i \in DOMAIN Steps(plan) :
          LET a == Steps(plan)[i]
          IN IF IsFile(a) THEN FileAsPrepared(a.path) ELSE DirAsPrepared(a.path)
    /\ \A d \in PlannedSet : dirs[d] = "missing"
    /\ plan.backup => CandidatesAsPrepared

AfterBackup == IF plan.terminal THEN Finish("terminal") ELSE Goto("begin")

Validate == /\ phase = "validate"
            /\ \/ ~PlanStillValid /\ Finish("refused")
               \/ PlanStillValid /\ plan.dryRun /\ Finish("predicted")
               \/ PlanStillValid /\ ~plan.dryRun /\ plan.backup /\ Goto("backup")
               \/ PlanStillValid /\ ~plan.dryRun /\ ~plan.backup /\ AfterBackup
            /\ UNCHANGED <<plan, tree, journal, created, held, broken, backupVars, editorVars>>

(* applyMutationBackup: look at the sources, copy what was prepared, look   *)
(* at the sources again, and only then write the manifest.                  *)
OpenBackup == /\ phase = "backup"
              /\ IF CandidatesAsPrepared THEN Goto("copy") ELSE Fail
              /\ UNCHANGED <<plan, tree, journal, created, held, broken, backupVars, editorVars>>

CopyToBackup(f) == /\ phase = "copy"
                   /\ f \in Candidates(plan) /\ copies[f] = Absent
                   /\ copies' = [copies EXCEPT ![f] = plan.before[f]]
                   /\ UNCHANGED <<tree, control, manifest, pruned, editorVars>>

WriteManifest == /\ phase = "copy"
                 /\ \A f \in Candidates(plan) : copies[f] # Absent
                 /\ IF CandidatesAsPrepared
                    THEN manifest' = TRUE /\ AfterBackup
                    ELSE Fail /\ UNCHANGED manifest
                 /\ UNCHANGED <<plan, tree, journal, created, held, broken, copies, pruned, editorVars>>

-----------------------------------------------------------------------------
(* One action: applyMutationActionWithDirectories, applyMutationDirectories *)

UpToDate(a) == \/ a.effect = "retain"
               \/ FileAsPrepared(a.path) /\ After(plan, a) = plan.before[a.path]
MayChange(a) == /\ FileAsPrepared(a.path) /\ After(plan, a) # plan.before[a.path]
                /\ ~BackupMissing(a)
MakesDirectories(a) == a.effect = "replace" /\ plan.planned # <<>>

Begin == LET a == Current
         IN /\ phase = "begin" /\ pc \in DOMAIN Steps(plan) /\ IsFile(a)
            /\ \/ UpToDate(a) /\ NextAction /\ UNCHANGED held
               \/ a.effect # "retain" /\ ~UpToDate(a) /\ ~MayChange(a) /\ Fail /\ UNCHANGED held
               \/ a.effect # "retain" /\ MayChange(a) /\ MakesDirectories(a)
                     /\ Goto("require") /\ UNCHANGED held
               \/ a.effect # "retain" /\ MayChange(a) /\ ~MakesDirectories(a) /\ Goto("look")
                     /\ held' = [file |-> PreparedFile(a.path), parent |-> PreparedDir(Parent(a.path))]
            /\ UNCHANGED <<plan, tree, journal, created, broken, backupVars, editorVars>>

(* requirePlannedMutationDirectories: only planned directories may be missing. *)
RequirePlanned == /\ phase = "require"
                  /\ IF \A i \in DOMAIN Above[Current.path] :
                           Standing(Above[Current.path][i]) \/ Above[Current.path][i] \in PlannedSet
                     THEN Goto("walk") ELSE Fail
                  /\ UNCHANGED <<plan, tree, journal, created, held, broken, backupVars, editorVars>>

(* The last look before the rename or the unlink: the content of the        *)
(* preparation, and the inodes held.                                        *)
LookAgain == LET f == Current.path
             IN /\ phase = "look"
                /\ IF /\ files[f].data = plan.before[f] /\ files[f].inode = held.file.inode
                      /\ DirNode(Parent(f)) = held.parent /\ ~SomeMissing(f)
                   THEN Goto("publish") /\ held' = Seen(f)
                   ELSE Fail /\ UNCHANGED held
                /\ UNCHANGED <<plan, tree, journal, created, broken, backupVars, editorVars>>

(* scopedAtomicRemoveMutation takes a destination that has vanished since   *)
(* its first look for one it removed.                                       *)
FindRemoved == /\ phase = "publish" /\ Current.effect = "remove"
               /\ \/ files[Current.path] = AbsentFile
                  \/ DirNode(Parent(Current.path)) # held.parent
               /\ Applied
               /\ UNCHANGED <<plan, tree, created, held, broken, backupVars, editorVars>>

(* scopedRemoveMutationDirectory: a directory that is not empty stays.      *)
RemoveDirectory == LET d == Current.path
                   IN /\ phase = "begin" /\ pc \in DOMAIN Steps(plan) /\ ~IsFile(Current)
                      /\ \/ ~DirAsPrepared(d) /\ Fail /\ UNCHANGED held
                         \/ DirAsPrepared(d) /\ ~Standing(d) /\ NextAction /\ UNCHANGED held
                         \/ /\ DirAsPrepared(d) /\ Standing(d) /\ Goto("rmdir")
                            /\ held' = [held EXCEPT !.parent = dirs[d]]
                      /\ UNCHANGED <<plan, tree, journal, created, broken, backupVars, editorVars>>

Rmdir == LET d == Current.path
         IN /\ phase = "rmdir"
            /\ IF Standing(d) /\ Empty(d)
               THEN dirs' = [dirs EXCEPT ![d] = "missing"] /\ Applied
               ELSE /\ IF Standing(d) THEN NextAction ELSE Fail
                    /\ UNCHANGED <<dirs, journal>>
            /\ UNCHANGED <<plan, files, created, held, broken, backupVars, editorVars>>

(* The plan ends well only if every directory it planned was created.       *)
Complete == /\ phase = "begin" /\ pc \notin DOMAIN Steps(plan)
            /\ IF PlannedSet \subseteq created THEN Finish("committed") ELSE Fail
            /\ UNCHANGED <<plan, tree, journal, created, held, broken, backupVars, editorVars>>

-----------------------------------------------------------------------------
(* cleanupCreatedMutationDirectories                                        *)
CleanUpMutation == \/ CleanUp(created, {d \in Dirs : ~Standing(d)}, {d \in Dirs : dirs[d] = "engine"})
                   \/ CleanUpFails(created)

-----------------------------------------------------------------------------
(* The backup directory is private, but nothing keeps it from being pruned. *)
PruneBackup(f) == /\ Running /\ edits < MaxEdits /\ manifest /\ copies[f] # Absent
                  /\ copies' = [copies EXCEPT ![f] = Absent]
                  /\ pruned' = IF phase = "begin" THEN pc ELSE pc + 1
                  /\ edits' = edits + 1
                  /\ UNCHANGED <<tree, touched, control, manifest>>

Shared == \/ MakeDirectory \/ PathReady \/ OpenDirectory \/ Publish \/ OperationFails
          \/ UndoFile \/ Restore \/ UndoDirectory \/ NothingToUndo \/ UndoFails
          \/ JournalUndone \/ CleanUpMutation \/ Sweep \/ ReportFailure

Process == \/ Validate \/ OpenBackup \/ (\E f \in Files : CopyToBackup(f)) \/ WriteManifest
           \/ Begin \/ RequirePlanned \/ LookAgain \/ FindRemoved \/ RemoveDirectory \/ Rmdir
           \/ Complete
           \/ Shared /\ UNCHANGED backupVars

Next == \/ Process
        \/ Edit /\ UNCHANGED backupVars
        \/ \E f \in Files : PruneBackup(f)
        \/ Kill /\ UNCHANGED backupVars
        \/ ~Running /\ UNCHANGED vars

(* A process that is not killed goes on: every step is a system call that   *)
(* returns.  Nothing obliges the editor to act.                             *)
Spec == Init /\ [][Next]_vars /\ WF_vars(Process)

-----------------------------------------------------------------------------
(* Properties *)

(* An update or uninstall that reports a plain failure has put back every   *)
(* file and every directory that nobody else changed meanwhile, whichever   *)
(* step failed (failMutationApplication).                                   *)
FailureRestores ==
    /\ FilesRestored
    /\ outcome = "failed" =>
          \A d \in Dirs : Untouched(d) => (dirs[d] = "missing" <=> d \notin plan.standing)

(* No step of an update or uninstall destroys bytes the plan does not       *)
(* account for, or a directory of somebody else's, except in the window     *)
(* between the last look and the rename, unlink or rmdir.                   *)
EditsSurvive == [][/\ \A f \in Files : SparesAlien(f)
                   /\ \A d \in Dirs : SparesDirectory(d)]_vars

(* docs/en/installer.md on a failed migration, read literally: foreign      *)
(* content is preserved rather than deleted, whenever it arrives.           *)
ForeignContentPreserved ==
    [][\A f \in Files : phase \in {"rollback", "restore"} /\ Alien(f) /\ edits' = edits
          => files'[f] = files[f]]_vars

(* While a forced operation runs, every file whose original bytes are gone  *)
(* has them in the backup, and once a copy is lost no further action        *)
(* destroys that file (verifyActiveMutationBackup).                         *)
BackupCoversLoss ==
    plan.backup => \A i \in journal : NeedsBackup(plan, Steps(plan)[i]) =>
                      BackupHolds(Steps(plan)[i]) \/ i < pruned
=============================================================================
