---------------------------- MODULE InstallApply ----------------------------
(***************************************************************************)
(* How oaw applies a prepared installation                                 *)
(* (internal/management/install_apply.go, filesystem.go): the preparation  *)
(* is repeated and must give the same plan; the Policy Set, the targets    *)
(* and the state record are written; the directories made on the way are   *)
(* recorded after each of them, so that a failure can take them away.      *)
(* Destinations are compared by content only, directories by identity.     *)
(***************************************************************************)
EXTENDS PreparedChange

VARIABLES recorded,   \* created directories the rollback knows of
          replaced,   \* those made again since: recorded with an identity that is gone
          blind       \* an inspection failed while recording (history)

installVars == <<recorded, replaced, blind>>
vars == <<tree, editorVars, control, installVars>>

TypeOK == /\ TreeTypeOK /\ ChangeTypeOK
          /\ recorded \subseteq created
          /\ replaced \subseteq recorded
          /\ blind \in BOOLEAN

ASSUME InstallPlansAssumption ==
    \A p \in Plans : /\ p.operation = "install"
                     /\ \A i \in DOMAIN Steps(p) : Steps(p)[i].effect = "replace"

(* A plan is a snapshot of a tree: what stands has its directories standing. *)
(* The directories to make are listed from the outermost.                   *)
ASSUME InstallTreesAssumption ==
    \A p \in Plans : /\ \A f \in Files : p.before[f] # Absent => Parent(f) \in p.standing \union {Root}
                     /\ \A d \in p.standing : Parent(d) \in p.standing \union {Root}
                     /\ \A i, j \in DOMAIN p.planned : Parent(p.planned[i]) = p.planned[j] => j < i
(* The directories above a path include those above each of them.           *)
ASSUME AncestorsAssumption ==
    \A p \in Paths : \A i \in DOMAIN Above[p] :
        Parent(Above[p][i]) = Root \/ \E j \in DOMAIN Above[p] : Above[p][j] = Parent(Above[p][i])

Init == ChangeInit /\ recorded = {} /\ replaced = {} /\ blind = FALSE

-----------------------------------------------------------------------------
AsPrepared(f) == files[f].data = plan.before[f]

(* The directories a preparation looks at: those above a destination.       *)
OnTheWay == {d \in Dirs : \E i \in DOMAIN Steps(plan) :
                             \E j \in DOMAIN Above[Steps(plan)[i].path] : d = Above[Steps(plan)[i].path][j]}

(* applyInstall prepares once more and compares the two plans: the contents *)
(* of the destinations, and which directories are missing.                  *)
PreparesTheSame == /\ \A i \in DOMAIN Steps(plan) : AsPrepared(Steps(plan)[i].path)
                   /\ \A d \in OnTheWay : (dirs[d] = "missing") <=> (d \in PlannedSet)

Validate == /\ phase = "validate"
            /\ \/ ~PreparesTheSame /\ Finish("refused")
               \/ PreparesTheSame /\ plan.dryRun /\ Finish("predicted")
               \/ PreparesTheSame /\ ~plan.dryRun /\ Goto("begin")
            /\ UNCHANGED <<plan, tree, journal, created, held, broken, editorVars, installVars>>

(* applyPreparedInstallAction                                               *)
Begin == LET a == Current
         IN /\ phase = "begin" /\ pc \in DOMAIN Steps(plan)
            /\ \/ ~AsPrepared(a.path) /\ Fail
               \/ AsPrepared(a.path) /\ a.data = plan.before[a.path] /\ Goto("record")
               \/ AsPrepared(a.path) /\ a.data # plan.before[a.path] /\ Goto("walk")
            /\ UNCHANGED <<plan, tree, journal, created, held, broken, editorVars, installVars>>

(* A directory the editor took away is made again; what was recorded of it  *)
(* stays as it was.                                                         *)
MakeInstallDirectory == /\ MakeDirectory
                        /\ replaced' = replaced \union {d \in recorded : dirs'[d] # dirs[d]}
                        /\ UNCHANGED <<recorded, blind>>

(* publishScopedInstallReplacement, up to the rename                        *)
LookAgain == LET f == Current.path
             IN /\ phase = "look"
                /\ IF AsPrepared(f) /\ ~SomeMissing(f) /\ DirNode(Parent(f)) = held.parent
                   THEN Goto("publish") /\ held' = Seen(f)
                   ELSE Fail /\ UNCHANGED held
                /\ UNCHANGED <<plan, tree, journal, created, broken, editorVars, installVars>>

-----------------------------------------------------------------------------
(* recordCreatedInstallDirectories goes through a map, in no order, and     *)
(* stops at the first directory that is gone or not the one created, or     *)
(* cannot be inspected: those it has not come to stay unrecorded.           *)
Unrecorded == created \ recorded
Sound == {d \in Unrecorded : dirs[d] = "engine"}
Records(reached) == /\ recorded' = recorded \union reached
                    /\ blind' = (blind \/ (Unrecorded = Sound /\ reached # Unrecorded))
                    /\ UNCHANGED <<plan, tree, journal, created, held, broken, editorVars, replaced>>

Record == phase = "record" /\ Unrecorded = Sound /\ Records(Unrecorded) /\ NextAction

RecordFails == /\ phase = "record"
               /\ \E reached \in SUBSET Sound : reached # Unrecorded /\ Records(reached)
               /\ Goto("rollback")

(* After a failed action the same is done, and an error of it is dropped.   *)
AbandonFaulty == /\ phase = "abandon" /\ Goto("rollback")
                 /\ UNCHANGED <<plan, tree, journal, created, held, broken, editorVars, installVars>>
Abandon == /\ phase = "abandon"
           /\ \E reached \in SUBSET Sound : Records(reached)
           /\ Goto("rollback")

(* validateCreatedInstallDirectories                                        *)
Complete == /\ phase = "begin" /\ pc \notin DOMAIN Steps(plan)
            /\ IF PlannedSet \subseteq created THEN Finish("committed") ELSE Goto("rollback")
            /\ UNCHANGED <<plan, tree, journal, created, held, broken, editorVars, installVars>>

-----------------------------------------------------------------------------
(* rollbackInstallApplication: the recorded directories, the longest path   *)
(* first.  One that is gone or another is an error.                         *)
OwnFaulty == {d \in Dirs : Standing(d)}
Own == {d \in Dirs : dirs[d] = "engine"} \ replaced
CleanUpInstall == CleanUp(recorded, {}, Own) \/ CleanUpFails(recorded)

-----------------------------------------------------------------------------
Shared == \/ PathReady \/ OpenDirectory \/ Publish \/ OperationFails
          \/ UndoFile \/ Restore \/ NothingToUndo \/ UndoFails
          \/ JournalUndone \/ CleanUpInstall \/ Sweep \/ ReportFailure

Process == \/ Validate \/ Begin \/ MakeInstallDirectory \/ LookAgain
           \/ Record \/ RecordFails \/ Abandon \/ Complete
           \/ Shared /\ UNCHANGED installVars

Next == \/ Process
        \/ Edit /\ UNCHANGED installVars
        \/ Kill /\ UNCHANGED installVars
        \/ ~Running /\ UNCHANGED vars

Spec == Init /\ [][Next]_vars /\ WF_vars(Process)

-----------------------------------------------------------------------------
(* Properties *)

(* An installation that reports a plain failure has put back every file     *)
(* nobody else changed.  If nobody else touched a directory either, those   *)
(* it made are gone, but for those that hold a file of somebody else's      *)
(* (failInstallApplication).                                                *)
FailureRestores ==
    /\ FilesRestored
    /\ outcome = "failed" /\ ~blind /\ touched \intersect Dirs = {} =>
          \A d \in created : \/ ~Standing(d)
                             \/ \E f \in touched : \E j \in DOMAIN Above[f] : Above[f][j] = d

(* No step of an installation destroys bytes the plan does not account for, *)
(* or a directory of somebody else's, except in the window between the last *)
(* look and the rename, unlink or rmdir.                                    *)
EditsSurvive == [][/\ \A f \in Files : SparesAlien(f)
                   /\ \A d \in Dirs : SparesDirectory(d)]_vars

(* docs/en/installer.md on a failed install, read literally: it removes the *)
(* still-empty directories it created.                                      *)
CreatedDirectoriesReclaimed ==
    outcome = "failed" /\ ~blind =>
        \A d \in created : Untouched(d) /\ Empty(d) => ~Standing(d)
=============================================================================
