--------------------------- MODULE PreparedChange ---------------------------
(***************************************************************************)
(* What the application of a prepared install, update or uninstall has in  *)
(* common: the plan with the snapshot it was prepared against, the journal *)
(* of changed destinations and its undoing in reverse order                *)
(* (internal/management/mutation_apply.go, install_apply.go).              *)
(***************************************************************************)
EXTENDS ManagedTree

CONSTANT Plans        \* the prepared plans to apply

FileEffects == {"replace", "remove", "retain"}
Actions == [effect : FileEffects, path : Files, data : Data \union {Absent}]
           \union [effect : {"rmdir"}, path : Dirs, data : {Absent}]
IsFile(a) == a.effect \in FileEffects

(* A plan lists its actions by stage.  recovery holds the sources a manual *)
(* recovery plan backs up without changing anything.                       *)
PlanType == [operation : {"install", "update", "uninstall"},
             targets : Seq(Actions), targetDirectories : Seq(Actions), policy : Seq(Actions),
             state : Seq(Actions), namespaceDirectories : Seq(Actions),
             before : [Files -> Data \union {Absent}], standing : SUBSET Dirs,
             planned : Seq(Dirs), backup : BOOLEAN, recovery : SUBSET Files,
             terminal : BOOLEAN, dryRun : BOOLEAN]

(* An install writes the Policy Set, the targets and last the state record. *)
(* An update or uninstall (mutationApplicationStages) takes the targets and *)
(* their directories first, then the Policy Set, the state record, and the  *)
(* namespace directories.                                                   *)
StepsFaulty(p) == p.state \o p.targets \o p.targetDirectories \o p.policy \o p.namespaceDirectories
Steps(p) == IF p.operation = "install" THEN p.policy \o p.targets \o p.state
            ELSE p.targets \o p.targetDirectories \o p.policy \o p.state \o p.namespaceDirectories

After(p, a) == CASE a.effect = "replace" -> a.data
                 [] a.effect = "remove" -> Absent
                 [] OTHER -> p.before[a.path]

(* addMutationAction merges the actions of one destination, and             *)
(* validateMutationPlan refuses a plan that still names one twice.  The     *)
(* planned directories are those the preparation finds missing.             *)
DistinctPaths(p) == \A i, j \in DOMAIN Steps(p) :
                       Steps(p)[i].path = Steps(p)[j].path => i = j

ASSUME PlansAssumption == \A p \in Plans : /\ p \in PlanType
                                           /\ Steps(p) \in Seq(Actions)
                                           /\ DistinctPaths(p)
                                           /\ \A i \in DOMAIN p.planned : p.planned[i] \notin p.standing

(* The preparations give one state record at most, and plan nothing after   *)
(* it but the removal of directories.                                       *)
ASSUME StateIsLastAssumption ==
    \A p \in Plans : /\ Len(p.state) <= 1
                     /\ \A i \in DOMAIN p.namespaceDirectories : ~IsFile(p.namespaceDirectories[i])

VARIABLES plan,       \* the prepared plan
          phase,      \* where the process is
          pc,         \* index of the action, or of the planned directory, under way
          journal,    \* actions to undo: their indices, undone from the highest down
          created,    \* planned directories this run created
          held,       \* what the process last saw: the destination and the parent it holds
                      \* open, or the directory it is about to remove
          broken,     \* an undo step or a directory cleanup has failed
          outcome     \* what the caller is told

control == <<plan, phase, pc, journal, created, held, broken, outcome>>

Phases == {"validate", "backup", "copy", "begin", "require", "walk", "open", "look",
           "publish", "rmdir", "record", "abandon", "rollback", "restore", "cleanup", "sweep",
           "done", "killed"}
Outcomes == {"running", "refused", "predicted", "terminal", "committed",
             "failed", "rollback failed"}

ChangeTypeOK == /\ plan \in Plans
                /\ phase \in Phases
                /\ pc \in Nat
                /\ journal \subseteq DOMAIN Steps(plan)
                /\ created \subseteq Dirs
                /\ held \in [file : FileNodes, parent : DirNodes]
                /\ broken \in BOOLEAN
                /\ outcome \in Outcomes

ChangeInit == /\ plan \in Plans
              /\ TreeOf(plan.before, plan.standing)
              /\ phase = "validate" /\ pc = 1
              /\ journal = {} /\ created = {}
              /\ held = [file |-> AbsentFile, parent |-> "missing"]
              /\ broken = FALSE /\ outcome = "running"

Current == Steps(plan)[pc]
FileSteps == {i \in DOMAIN Steps(plan) : IsFile(Steps(plan)[i])}
PlannedSet == {plan.planned[i] : i \in DOMAIN plan.planned}

(* A planned directory that stands must be the one this run created.        *)
Unexpected(p) == \E i \in DOMAIN Above[p] :
                    LET d == Above[p][i]
                    IN d \in PlannedSet /\ Standing(d) /\ (d \notin created \/ dirs[d] # "engine")

(* Where a step of the process leads *)
Goto(p) == phase' = p /\ UNCHANGED <<pc, outcome>>
NextActionFaulty == phase' = "begin" /\ pc' = pc + 2 /\ UNCHANGED outcome
NextAction == phase' = "begin" /\ pc' = pc + 1 /\ UNCHANGED outcome
Finish(o) == phase' = "done" /\ outcome' = o /\ UNCHANGED pc
(* A failed install first records the directories it created.               *)
Installing == plan.operation = "install"
Fail == Goto(IF Installing THEN "abandon" ELSE "rollback")

Running == phase \notin {"done", "killed"}

-----------------------------------------------------------------------------
(* Writing one destination: scopedAtomicReplace and                         *)
(* scopedAtomicReplaceMutationWithDirectories                               *)

(* ensureScopedInstallDirectory goes down the path and makes what is        *)
(* missing; only planned directories are remembered as created.             *)
MakeDirectory == /\ phase = "walk" /\ ~Unexpected(Current.path)
                 /\ \E i \in DOMAIN Above[Current.path] :
                       LET d == Above[Current.path][i]
                       IN /\ FirstMissing(Current.path, i)
                          /\ dirs' = [dirs EXCEPT ![d] = "engine"]
                          /\ created' = created \union ({d} \intersect PlannedSet)
                 /\ UNCHANGED <<plan, files, phase, pc, journal, held, broken, outcome, editorVars>>

PathReady == /\ phase = "walk"
             /\ \/ Unexpected(Current.path) /\ Fail
                \/ ~Unexpected(Current.path) /\ ~SomeMissing(Current.path) /\ Goto("open")
             /\ UNCHANGED <<plan, tree, journal, created, held, broken, editorVars>>

(* openScopedActionDirectory, and what an update takes for the identity of  *)
(* the destination from here on                                             *)
Seen(f) == [file |-> files[f], parent |-> DirNode(Parent(f))]
OpenDirectory == /\ phase = "open"
                 /\ IF SomeMissing(Current.path) THEN Fail /\ UNCHANGED held
                    ELSE Goto("look") /\ held' = Seen(Current.path)
                 /\ UNCHANGED <<plan, tree, journal, created, broken, editorVars>>

(* rename(2) replaces whatever is there by now; unlink(2) takes it away.    *)
(* Both fail when the directory held open has been removed meanwhile.       *)
Applied == /\ journal' = journal \union {pc}
           /\ IF Installing THEN Goto("record") ELSE NextAction
Publish == LET f == Current.path
           IN /\ phase = "publish"
              /\ IF DirNode(Parent(f)) # held.parent
                    \/ (Current.effect = "remove" /\ files[f] = AbsentFile)
                 THEN Fail /\ UNCHANGED <<files, journal>>
                 ELSE /\ files' = [files EXCEPT ![f] = FileNode(After(plan, Current), "engine")]
                      /\ Applied
              /\ UNCHANGED <<plan, dirs, created, held, broken, editorVars>>

(* Any inspection, write, sync, rename or unlink can return an error.       *)
OperationFails == /\ phase \in {"backup", "copy", "begin", "require", "walk", "open", "look",
                                "publish", "rmdir"}
                  /\ Fail
                  /\ UNCHANGED <<plan, tree, journal, created, held, broken, editorVars>>

-----------------------------------------------------------------------------
(* Undoing the journal from its end: rollbackMutationJournal,               *)
(* rollbackInstallApplication.  An undo step that fails is remembered, and  *)
(* the next one is tried.                                                   *)

Undone == /\ journal' = journal \ {pc} /\ pc' = pc - 1
          /\ phase' = "rollback" /\ UNCHANGED <<broken, outcome>>
CannotUndoSilently == /\ journal' = journal \ {pc} /\ pc' = pc - 1
                      /\ phase' = "rollback" /\ UNCHANGED <<broken, outcome>>
CannotUndoRetries == /\ broken' = TRUE /\ phase' = "rollback"
                     /\ UNCHANGED <<journal, pc, outcome>>
CannotUndo == /\ journal' = journal \ {pc} /\ pc' = pc - 1
              /\ phase' = "rollback" /\ broken' = TRUE /\ UNCHANGED outcome

(* revalidateAppliedMutationForRollback: only what oaw left there is undone *)
StillAppliedFaulty(a) == TRUE
StillApplied(a) == files[a.path].data = After(plan, a)

(* restoreMutationAction, up to its last look at the destination            *)
UndoFile == LET f == Current.path
            IN /\ phase = "rollback" /\ pc \in journal /\ IsFile(Current)
               /\ IF files[f].data = plan.before[f] THEN Undone /\ UNCHANGED held
                  ELSE IF ~StillApplied(Current) \/ ~Standing(Parent(f))
                  THEN CannotUndo /\ UNCHANGED held
                  ELSE Goto("restore") /\ held' = Seen(f) /\ UNCHANGED <<journal, broken>>
               /\ UNCHANGED <<plan, tree, created, editorVars>>

(* The rename or unlink takes whatever is there by now, unless the          *)
(* directory held open has been removed.  A removal that finds nothing left *)
(* succeeds or fails with the moment it looks.                              *)
Restore == LET f == Current.path
               lost == DirNode(Parent(f)) # held.parent
               vanished == plan.before[f] = Absent /\ (lost \/ files[f] = AbsentFile)
           IN /\ phase = "restore"
              /\ \/ (lost \/ vanished) /\ CannotUndo /\ UNCHANGED files
                 \/ vanished /\ Undone /\ UNCHANGED files
                 \/ /\ ~lost /\ ~vanished /\ Undone
                    /\ files' = [files EXCEPT ![f] = FileNode(plan.before[f], "engine")]
              /\ UNCHANGED <<plan, dirs, created, held, editorVars>>

(* restoreMutationDirectory                                                 *)
UndoDirectory == LET d == Current.path
                 IN /\ phase = "rollback" /\ pc \in journal /\ ~IsFile(Current)
                    /\ IF dirs[d] # "missing" THEN Undone /\ UNCHANGED dirs
                       ELSE IF ~Standing(Parent(d)) THEN CannotUndo /\ UNCHANGED dirs
                       ELSE dirs' = [dirs EXCEPT ![d] = "engine"] /\ Undone
                    /\ UNCHANGED <<plan, files, created, held, editorVars>>

NothingToUndoFaulty == /\ phase = "rollback" /\ pc >= 0 /\ pc \notin journal
                       /\ pc' = pc - 1
                       /\ UNCHANGED <<plan, tree, phase, journal, created, held, broken,
                                      outcome, editorVars>>
NothingToUndo == /\ phase = "rollback" /\ pc > 0 /\ pc \notin journal
                 /\ pc' = pc - 1
                 /\ UNCHANGED <<plan, tree, phase, journal, created, held, broken,
                                outcome, editorVars>>

UndoFails == /\ phase = "restore" \/ (phase = "rollback" /\ pc \in journal)
             /\ CannotUndo
             /\ UNCHANGED <<plan, tree, created, held, editorVars>>

-----------------------------------------------------------------------------
(* The directories made on the way, from the innermost.  Between the last   *)
(* look at one and rmdir(2) it may be filled, removed or replaced.  An      *)
(* update reports one that is not empty, an install passes over it.         *)

JournalUndone == /\ phase = "rollback" /\ pc = 0
                 /\ phase' = "cleanup" /\ pc' = Len(plan.planned)
                 /\ UNCHANGED <<plan, tree, journal, created, held, broken, outcome, editorVars>>

(* What the process knows it created, what it finds gone and what it        *)
(* recognises as its own                                                    *)
CleanUp(known, gone, own) ==
    LET d == plan.planned[pc]
        removes == d \in known \ gone /\ d \in own
    IN /\ phase = "cleanup" /\ pc > 0
       /\ IF removes THEN phase' = "sweep" /\ held' = [held EXCEPT !.parent = dirs[d]] /\ UNCHANGED pc
          ELSE pc' = pc - 1 /\ UNCHANGED <<phase, held>>
       /\ broken' = (broken \/ (d \in known \ gone /\ ~removes))
       /\ UNCHANGED <<plan, tree, journal, created, outcome, editorVars>>

Sweep == LET d == plan.planned[pc]
             removes == dirs[d] # "missing" /\ Empty(d)
         IN /\ phase = "sweep"
            /\ dirs' = IF removes THEN [dirs EXCEPT ![d] = "missing"] ELSE dirs
            /\ broken' = (broken \/ dirs[d] = "missing" \/ (~removes /\ ~Installing))
            /\ phase' = "cleanup" /\ pc' = pc - 1
            /\ UNCHANGED <<plan, files, journal, created, held, outcome, editorVars>>

CleanUpFails(known) == /\ \/ phase = "cleanup" /\ pc > 0 /\ plan.planned[pc] \in known
                          \/ phase = "sweep"
                       /\ phase' = "cleanup" /\ pc' = pc - 1 /\ broken' = TRUE
                       /\ UNCHANGED <<plan, tree, journal, created, held, outcome, editorVars>>

ReportFailureFaulty == /\ phase = "cleanup" /\ pc = 0
                       /\ Finish("failed")
                       /\ UNCHANGED <<plan, tree, journal, created, held, broken, editorVars>>
ReportFailure == /\ phase = "cleanup" /\ pc = 0
                 /\ Finish(IF broken THEN "rollback failed" ELSE "failed")
                 /\ UNCHANGED <<plan, tree, journal, created, held, broken, editorVars>>

(* The process is killed: what is on disk stays.                            *)
Kill == /\ Running
        /\ phase' = "killed"
        /\ UNCHANGED <<plan, tree, pc, journal, created, held, broken, outcome, editorVars>>

Edit == Running /\ EditTree /\ UNCHANGED control

-----------------------------------------------------------------------------
(* Properties shared by the operations *)

(* The bytes of an operation that reports success are all in place: nobody  *)
(* made it skip an action, and it created every directory it recorded.      *)
CommitIsComplete ==
    outcome = "committed" =>
        /\ \A i \in FileSteps : Untouched(Steps(plan)[i].path) =>
              files[Steps(plan)[i].path].data = After(plan, Steps(plan)[i])
        /\ \A d \in PlannedSet : Untouched(d) => dirs[d] = "engine"

(* An operation that reports a plain failure has put back every file that   *)
(* nobody else changed meanwhile, whichever step failed.                    *)
FilesRestored ==
    outcome = "failed" => \A f \in Files : Untouched(f) => files[f].data = plan.before[f]

(* Bytes the plan does not account for - neither those it was prepared      *)
(* against nor those it writes - are never replaced or removed, unless they *)
(* arrived after the last look at that very file: between the inspection    *)
(* and the rename or unlink.                                                *)
Alien(f) == /\ files[f].inode = "foreign"
            /\ files[f].data # plan.before[f]
            /\ \A i \in FileSteps : Steps(plan)[i].path = f => files[f].data # After(plan, Steps(plan)[i])
SparesAlien(f) == Alien(f) /\ files'[f] # files[f] /\ edits' = edits
                     => phase \in {"publish", "restore"} /\ Current.path = f /\ held.file # files[f]

(* A directory of somebody else's is never removed, unless it came in place *)
(* of one of oaw's after the last look at it.                               *)
SparesDirectory(d) == dirs[d] = "foreign" /\ dirs'[d] # "foreign" /\ edits' = edits
                         => phase \in {"rmdir", "sweep"} /\ held.parent # "foreign"

(* The state record never runs ahead of the disk, not even in a process     *)
(* killed half way or half way back: when the record shows the outcome of   *)
(* the operation, so do the targets and the Policy Set.  An undo step that  *)
(* failed is the exception, and is reported.                                *)
StateSteps == {i \in FileSteps : \E j \in DOMAIN plan.state : plan.state[j].path = Steps(plan)[i].path}
Shows(i) == files[Steps(plan)[i].path].data = After(plan, Steps(plan)[i])
Changes(i) == After(plan, Steps(plan)[i]) # plan.before[Steps(plan)[i].path]
StateTrailsDisk ==
    (\E i \in StateSteps : Changes(i) /\ Shows(i) /\ Untouched(Steps(plan)[i].path)) /\ ~broken
        => \A i \in FileSteps : Untouched(Steps(plan)[i].path) => Shows(i)

(* Rollback and cleanup never get stuck, whatever failed: a process that is *)
(* not killed reports an outcome.                                           *)
Concludes == <>(phase \in {"done", "killed"})

(* With no other process about, the operation is one atomic change of its   *)
(* files.                                                                   *)
ChangedFiles == {Steps(plan)[i].path : i \in {j \in FileSteps : Changes(j)}}
Verdict == CASE phase = "killed" -> "killed"
             [] outcome = "committed" -> "committed"
             [] outcome \in {"failed", "refused", "predicted", "terminal"} -> "aborted"
             [] outcome = "rollback failed" -> "incomplete"
             [] OTHER -> "open"
Atomic == INSTANCE AtomicChange WITH
             Destinations <- Files,
             items <- ChangedFiles,
             applied <- {f \in ChangedFiles : files[f].data # plan.before[f]},
             verdict <- Verdict
ImplementsAtomicChange == Atomic!Spec
=============================================================================
