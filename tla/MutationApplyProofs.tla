------------------------- MODULE MutationApplyProofs -------------------------
(***************************************************************************)
(* Proofs that the application of an update or uninstall keeps its types,  *)
(* that a success is complete and that a plain failure has put everything  *)
(* back, that the state record trails the disk, that backup and edits are  *)
(* safe, and that it implements AtomicChange when nobody else is about;    *)
(* for any plans, paths, contents and number of edits.                     *)
(***************************************************************************)
EXTENDS MutationApply, PreparedChangeProofs

Removed(d) == \E i \in DOMAIN Steps(plan) : i \in journal \ FileSteps /\ Steps(plan)[i].path = d

(* A directory nobody else touched is missing if its removal is journaled   *)
(* and otherwise as it was prepared, unless this run made it.               *)
AsTold(d) == /\ Removed(d) => ~Standing(d) /\ d \in plan.standing
             /\ d \in created => ~Removed(d) /\ d \notin plan.standing
             /\ d \notin created /\ d \notin plan.standing => ~Standing(d)
             /\ d \notin created /\ ~Removed(d) /\ ~broken => (Standing(d) <=> d \in plan.standing)
             /\ d \notin created /\ Standing(d) /\ phase \in Forward => dirs[d] = "prepared"

(* The cleanup has taken away what it has passed, or reports it.            *)
Reclaimed(j) == LET d == plan.planned[j]
                IN d \in created /\ Untouched(d) => ~Standing(d)

DirsInv == /\ \A d \in Dirs : Untouched(d) => AsTold(d)
           /\ phase = "rmdir" /\ Untouched(Current.path) => dirs[Current.path] = "prepared"
           /\ phase = "walk" => \A j \in DOMAIN Above[Current.path] :
                 LET d == Above[Current.path][j]
                 IN Untouched(d) => Standing(d) \/ d \in PlannedSet
           /\ phase \in Cleaning /\ ~broken => \A j \in DOMAIN plan.planned : j > pc => Reclaimed(j)
           /\ phase = "sweep" => plan.planned[pc] \in created
           /\ outcome = "failed" => \A j \in DOMAIN plan.planned : Reclaimed(j)

BackupTypeOK == /\ copies \in [Files -> Data \union {Absent}]
                /\ manifest \in BOOLEAN
                /\ pruned \in Nat

MutationInv == ChangeInv /\ BackupTypeOK /\ DirsInv

-----------------------------------------------------------------------------
(* Steps that leave the directories alone *)

LEMMA SameEntries ==
    ASSUME UNCHANGED plan, journal' \ FileSteps = journal \ FileSteps, NEW d
    PROVE  Removed(d)' <=> Removed(d)
  BY DEF Removed, FileSteps

LEMMA DirsInvKept ==
    ASSUME DirsInv, UNCHANGED <<plan, dirs, created>>, touched \subseteq touched', broken => broken',
           phase' \in Forward => phase \in Forward,
           phase' \notin Cleaning \union {"rmdir", "walk"},
           outcome' = "failed" => outcome = "failed",
           journal' \ FileSteps \subseteq journal \ FileSteps,
           broken' \/ journal' \ FileSteps = journal \ FileSteps
    PROVE  DirsInv'
<1>1. ASSUME NEW d \in Dirs PROVE Removed(d)' => Removed(d)
  BY DEF Removed, FileSteps
<1>2. ASSUME NEW d \in Dirs, ~broken' PROVE Removed(d) => Removed(d)'
  BY <1>2 DEF Removed, FileSteps
<1>3. ASSUME NEW d \in Dirs, Untouched(d)' PROVE AsTold(d)'
  <2>1. AsTold(d)
    BY <1>3 DEF DirsInv, Untouched
  <2> QED BY <1>1, <1>2, <2>1 DEF AsTold, Standing, DirNode
<1>4. outcome' = "failed" => \A j \in DOMAIN plan.planned : Reclaimed(j)'
  BY DEF DirsInv, Reclaimed, Untouched, Standing, DirNode
<1> QED BY <1>3, <1>4 DEF DirsInv, Cleaning

LEMMA DirsUnchanged ==
    ASSUME DirsInv, UNCHANGED <<plan, dirs, touched, phase, pc, journal, created, broken, outcome>>
    PROVE  DirsInv'
<1>1. /\ Current' = Current /\ PlannedSet' = PlannedSet /\ \A p : Standing(p)' <=> Standing(p)
      /\ \A d : Untouched(d)' <=> Untouched(d)
  BY DEF Current, PlannedSet, Standing, DirNode, Untouched
<1>2. \A d : Removed(d)' <=> Removed(d)
  BY SameEntries
<1>3. \A d \in Dirs : Untouched(d)' => AsTold(d)'
  BY <1>1, <1>2 DEF DirsInv, AsTold
<1>4. \A j \in DOMAIN plan.planned : Reclaimed(j)' <=> Reclaimed(j)
  BY <1>1 DEF Reclaimed
<1> QED BY <1>1, <1>3, <1>4 DEF DirsInv

LEMMA MovesKeepDirs ==
    ASSUME ChangeInv, DirsInv,
           PathReady \/ OpenDirectory \/ OperationFails \/ Publish \/ UndoFile \/ Restore \/ NothingToUndo
             \/ UndoFails \/ Kill
    PROVE  DirsInv'
<1> USE DirsInvKept DEF Goto, Fail, Finish, NextAction, Forward, Cleaning, tree, editorVars
<1>1. CASE PathReady
  BY <1>1 DEF PathReady
<1>2. CASE OpenDirectory
  BY <1>2 DEF OpenDirectory
<1>3. CASE OperationFails
  BY <1>3 DEF OperationFails
<1>4. CASE Publish
  <2>1. pc \in FileSteps
    BY <1>4 DEF Publish, ChangeInv, Position
  <2> QED BY <1>4, <2>1 DEF Publish, Applied
<1>5. CASE UndoFile
  <2>1. pc \in FileSteps
    BY <1>5 DEF UndoFile, FileSteps, Current, ChangeInv, ChangeTypeOK
  <2> QED BY <1>5, <2>1 DEF UndoFile, Undone, CannotUndo
<1>6. CASE Restore
  <2>1. pc \in FileSteps
    BY <1>6 DEF Restore, ChangeInv, Position
  <2> QED BY <1>6, <2>1 DEF Restore, Undone, CannotUndo
<1>7. CASE NothingToUndo
  BY <1>7 DEF NothingToUndo
<1>8. CASE UndoFails
  BY <1>8 DEF UndoFails, CannotUndo
<1>9. CASE Kill
  BY <1>9 DEF Kill, Running
<1> QED BY <1>1, <1>2, <1>3, <1>4, <1>5, <1>6, <1>7, <1>8, <1>9

-----------------------------------------------------------------------------
(* The steps of an update or uninstall that are its own keep ChangeInv.     *)

LEMMA JournalingKeeps ==
    ASSUME ChangeInv, phase \in Forward, NextAction, journal' = journal \union {pc},
           pc \in DOMAIN Steps(plan), dirs' \in [Dirs -> DirNodes],
           UNCHANGED <<plan, files, created, held, broken, edits, touched>>,
           FilesInv', CreatedInv'
    PROVE  ChangeInv'
<1>1. phase' = "begin" /\ pc' = pc + 1 /\ outcome' = outcome /\ pc \in Nat
  BY DEF NextAction, ChangeInv, ChangeTypeOK
<1>2. FileSteps \subseteq Nat
  BY PlanFacts DEF FileSteps, ChangeInv, ChangeTypeOK
<1>3. TreeTypeOK' /\ ChangeTypeOK'
  BY <1>1 DEF ChangeInv, TreeTypeOK, ChangeTypeOK, Phases
<1>4. Position' /\ HeldInv'
  BY <1>1 DEF Position, HeldInv
<1>5. JournalInv'
  <2>1. pc > 0 /\ journal \subseteq 1..pc
    BY DEF ChangeInv, JournalInv, Position
  <2>2. journal' \subseteq 1..pc'
    BY <1>1, <2>1
  <2> QED BY <1>1, <2>2 DEF ChangeInv, JournalInv, Forward, Undoing, Cleaning
<1>6. ProgressInv'
  <2>1. ASSUME NEW i \in FileSteps, i < pc + 1, Changes(i) PROVE i \in journal'
    BY <1>1, <1>2, <2>1 DEF ChangeInv, ProgressInv
  <2>2. outcome' # "committed"
    BY <1>1 DEF ChangeInv, JournalInv, Forward
  <2> QED BY <1>1, <2>1, <2>2 DEF ProgressInv, FileSteps, Changes
<1> QED BY <1>3, <1>4, <1>5, <1>6 DEF ChangeInv

LEMMA ValidateKeeps == ChangeInv /\ (Validate \/ OpenBackup \/ WriteManifest) => ChangeInv'
<1> SUFFICES ASSUME ChangeInv, Validate \/ OpenBackup \/ WriteManifest PROVE ChangeInv'
  OBVIOUS
<1>1. /\ phase \in {"validate", "backup", "copy"}
      /\ \/ phase' \in {"backup", "copy", "begin", "rollback"} /\ outcome' = outcome
         \/ phase' = "done" /\ outcome' \in {"refused", "predicted", "terminal"}
      /\ UNCHANGED <<plan, files, dirs, pc, journal, created, held, broken, edits, touched>>
  <2>1. Installing = FALSE
    BY MutationPlansAssumption DEF Installing, ChangeInv, ChangeTypeOK
  <2> QED BY <2>1 DEF Validate, OpenBackup, WriteManifest, AfterBackup, Goto, Finish, Fail, tree, editorVars
<1>2. held' \in [file : FileNodes, parent : DirNodes] /\ HeldInv'
  BY <1>1 DEF ChangeInv, ChangeTypeOK, HeldInv
<1> QED BY <1>1, <1>2, MovingOnKeeps DEF Forward

LEMMA BeginKeeps == ChangeInv /\ Begin => ChangeInv'
<1> SUFFICES ASSUME ChangeInv, Begin PROVE ChangeInv'
  OBVIOUS
<1>1. /\ phase = "begin" /\ pc \in DOMAIN Steps(plan) /\ pc \in FileSteps /\ ~Installing
      /\ UNCHANGED <<plan, files, dirs, journal, created, broken, edits, touched>>
  BY MutationPlansAssumption DEF Begin, tree, editorVars, FileSteps, Current, Installing, ChangeInv, ChangeTypeOK
<1>2. plan \in Plans /\ TreeTypeOK /\ ChangeTypeOK /\ Current.path \in Files
  BY <1>1, CurrentFacts DEF ChangeInv, ChangeTypeOK
<1>3. CASE UpToDate(Current) /\ NextAction /\ UNCHANGED held
  <2>1. ~Changes(pc)
    BY <1>3 DEF UpToDate, Changes, Current, After
  <2> QED BY <1>1, <1>3, <2>1, SkippingKeeps DEF Forward
<1>4. CASE Fail /\ UNCHANGED held
  <2>1. phase' = "rollback" /\ pc' = pc /\ outcome' = outcome /\ held' = held
    BY <1>1, <1>4 DEF Fail, Goto
  <2> QED BY <1>1, <1>2, <2>1, MovingOnKeeps DEF Forward, HeldInv, ChangeTypeOK
<1>5. CASE Goto("require") /\ UNCHANGED held
  <2>1. phase' = "require" /\ pc' = pc /\ outcome' = outcome /\ held' = held
    BY <1>5 DEF Goto
  <2> QED BY <1>1, <1>2, <2>1, MovingOnKeeps DEF Forward, HeldInv, ChangeTypeOK
<1>6. CASE /\ Goto("look")
           /\ held' = [file |-> PreparedFile(Current.path), parent |-> PreparedDir(Parent(Current.path))]
  <2>1. phase' = "look" /\ pc' = pc /\ outcome' = outcome
    BY <1>6 DEF Goto
  <2>2. PreparedFile(Current.path) \in FileNodes
    BY <1>2, PlanFacts, NodeFacts DEF PreparedFile, Inodes
  <2>3. held' \in [file : FileNodes, parent : DirNodes]
    BY <1>6, <2>2 DEF PreparedDir, DirNodes, Inodes
  <2> QED BY <1>1, <2>1, <2>3, MovingOnKeeps DEF Forward, HeldInv
<1> QED BY <1>3, <1>4, <1>5, <1>6 DEF Begin

LEMMA LookingKeeps == ChangeInv /\ (RequirePlanned \/ LookAgain) => ChangeInv'
<1> SUFFICES ASSUME ChangeInv, RequirePlanned \/ LookAgain PROVE ChangeInv'
  OBVIOUS
<1>1. /\ phase \in {"require", "look"} /\ phase' \in {"walk", "publish", "rollback"}
      /\ UNCHANGED <<plan, files, dirs, pc, journal, created, broken, outcome, edits, touched>>
      /\ \/ phase' # "publish" /\ held' = held
         \/ held' = Seen(Current.path)
  BY MutationPlansAssumption
     DEF RequirePlanned, LookAgain, Goto, Fail, tree, editorVars, Installing, ChangeInv, ChangeTypeOK
<1>2. TreeTypeOK /\ ChangeTypeOK /\ pc \in FileSteps /\ Current.path \in Files
  BY <1>1, CurrentFacts DEF ChangeInv, Position, FileSteps
<1>3. held' \in [file : FileNodes, parent : DirNodes]
  BY <1>1, <1>2, SeenFacts DEF ChangeTypeOK
<1>4. HeldInv'
  BY <1>1 DEF HeldInv, Seen, Current, DirNode
<1> QED BY <1>1, <1>2, <1>3, <1>4, MovingOnKeeps DEF Forward

LEMMA FindRemovedKeeps == ChangeInv /\ FindRemoved => ChangeInv'
<1> SUFFICES ASSUME ChangeInv, FindRemoved PROVE ChangeInv'
  OBVIOUS
<1>1. /\ phase = "publish" /\ Current.effect = "remove" /\ NextAction
      /\ files[Current.path] = AbsentFile \/ DirNode(Parent(Current.path)) # held.parent
      /\ journal' = journal \union {pc}
      /\ UNCHANGED <<plan, files, dirs, created, held, broken, edits, touched>>
  BY MutationPlansAssumption
     DEF FindRemoved, Applied, tree, editorVars, Installing, ChangeInv, ChangeTypeOK
<1>2. /\ plan \in Plans /\ pc \in FileSteps /\ pc \in DOMAIN Steps(plan) /\ Current.path \in Files
      /\ TreeTypeOK
  BY <1>1, CurrentFacts DEF ChangeInv, ChangeTypeOK, Position, FileSteps
<1>3. Untouched(Current.path) => files'[Current.path].data = After(plan, Current)
  BY <1>1, NodeFacts DEF ChangeInv, HeldInv, After
<1>4. FilesInv'
  BY <1>1, <1>2, <1>3, WriteKeepsFiles DEF ChangeInv
<1>5. CreatedInv'
  BY <1>1, CreatedInvKept DEF ChangeInv, NextAction, Forward
<1>6. dirs' \in [Dirs -> DirNodes]
  BY <1>1, <1>2 DEF TreeTypeOK
<1> QED BY <1>1, <1>2, <1>4, <1>5, <1>6, JournalingKeeps DEF Forward

LEMMA RemoveDirectoryKeeps == ChangeInv /\ RemoveDirectory => ChangeInv'
<1> SUFFICES ASSUME ChangeInv, RemoveDirectory PROVE ChangeInv'
  OBVIOUS
<1>1. /\ phase = "begin" /\ pc \in DOMAIN Steps(plan) \ FileSteps /\ ~Installing
      /\ UNCHANGED <<plan, files, dirs, journal, created, broken, edits, touched>>
  BY MutationPlansAssumption
     DEF RemoveDirectory, tree, editorVars, FileSteps, Current, Installing, ChangeInv, ChangeTypeOK
<1>2. TreeTypeOK /\ ChangeTypeOK /\ Current.path \in Dirs
  BY <1>1, CurrentFacts DEF ChangeInv
<1>3. CASE Fail /\ UNCHANGED held
  <2>1. phase' = "rollback" /\ pc' = pc /\ outcome' = outcome /\ held' = held
    BY <1>1, <1>3 DEF Fail, Goto
  <2> QED BY <1>1, <1>2, <2>1, MovingOnKeeps DEF Forward, HeldInv, ChangeTypeOK
<1>4. CASE NextAction /\ UNCHANGED held
  BY <1>1, <1>4, SkippingKeeps DEF Forward
<1>5. CASE Goto("rmdir") /\ held' = [held EXCEPT !.parent = dirs[Current.path]]
  <2>1. phase' = "rmdir" /\ pc' = pc /\ outcome' = outcome
    BY <1>5 DEF Goto
  <2>2. held' \in [file : FileNodes, parent : DirNodes]
    BY <1>2, <1>5 DEF TreeTypeOK, ChangeTypeOK
  <2> QED BY <1>1, <2>1, <2>2, MovingOnKeeps DEF Forward, HeldInv
<1> QED BY <1>3, <1>4, <1>5 DEF RemoveDirectory

LEMMA RmdirKeeps == ChangeInv /\ DirsInv /\ Rmdir => ChangeInv'
<1> SUFFICES ASSUME ChangeInv, DirsInv, Rmdir PROVE ChangeInv'
  OBVIOUS
<1>1. /\ phase = "rmdir" /\ pc \in DOMAIN Steps(plan) \ FileSteps /\ ~Installing
      /\ UNCHANGED <<plan, files, created, held, broken, edits, touched>>
  BY MutationPlansAssumption
     DEF Rmdir, tree, editorVars, Installing, ChangeInv, ChangeTypeOK, Position
<1>2. TreeTypeOK /\ ChangeTypeOK /\ Current.path \in Dirs
  BY <1>1, CurrentFacts DEF ChangeInv
<1>3. CASE dirs' = [dirs EXCEPT ![Current.path] = "missing"] /\ Applied
  <2>1. NextAction /\ journal' = journal \union {pc}
    BY <1>1, <1>3 DEF Applied
  <2>2. dirs' \in [Dirs -> DirNodes]
    BY <1>2, <1>3 DEF TreeTypeOK, DirNodes
  <2>3. Untouched(Current.path) => Current.path \notin created
    BY <1>1 DEF ChangeInv, CreatedInv, DirsInv, Forward
  <2>4. CreatedInv'
    BY <1>1, <1>2, <1>3, <2>1, <2>3
       DEF ChangeInv, CreatedInv, PlannedSet, Untouched, TreeTypeOK, ChangeTypeOK, NextAction, Forward,
           JournalInv
  <2>5. FilesInv'
    BY <1>1, <2>1 DEF ChangeInv, FilesInv, Wrote, FileSteps, Untouched
  <2> QED BY <1>1, <2>1, <2>2, <2>4, <2>5, JournalingKeeps DEF Forward
<1>4. CASE NextAction /\ UNCHANGED <<dirs, journal>>
  BY <1>1, <1>4, SkippingKeeps DEF Forward
<1>5. CASE Fail /\ UNCHANGED <<dirs, journal>>
  <2>1. phase' = "rollback" /\ pc' = pc /\ outcome' = outcome
    BY <1>1, <1>5 DEF Fail, Goto
  <2> QED BY <1>1, <1>2, <1>5, <2>1, MovingOnKeeps DEF Forward, HeldInv, ChangeTypeOK
<1> QED BY <1>3, <1>4, <1>5 DEF Rmdir

LEMMA CompleteKeeps == ChangeInv /\ Complete => ChangeInv'
<1> SUFFICES ASSUME ChangeInv, Complete PROVE ChangeInv'
  OBVIOUS
<1>1. /\ phase = "begin" /\ pc \notin DOMAIN Steps(plan) /\ ~Installing
      /\ UNCHANGED <<plan, files, dirs, journal, created, held, broken, edits, touched>>
  BY MutationPlansAssumption DEF Complete, tree, editorVars, Installing, ChangeInv, ChangeTypeOK
<1>2. CASE PlannedSet \subseteq created /\ Finish("committed")
  <2>1. phase' = "done" /\ outcome' = "committed" /\ pc' = pc
    BY <1>2 DEF Finish
  <2>2. TreeTypeOK' /\ ChangeTypeOK' /\ Position' /\ HeldInv'
    BY <1>1, <2>1 DEF ChangeInv, TreeTypeOK, ChangeTypeOK, Phases, Outcomes, Position, HeldInv, Forward
  <2>3. JournalInv' /\ ProgressInv'
    BY <1>1, <2>1 DEF ChangeInv, JournalInv, ProgressInv, Position, FileSteps, Changes, Forward, Undoing,
                      Cleaning
  <2>4. FilesInv' /\ CreatedInv'
    BY <1>1, <1>2, <2>1, FilesInvKept DEF ChangeInv, CreatedInv, PlannedSet, Untouched, Forward
  <2> QED BY <2>2, <2>3, <2>4 DEF ChangeInv
<1>3. CASE Fail
  <2>1. phase' = "rollback" /\ pc' = pc /\ outcome' = outcome
    BY <1>1, <1>3 DEF Fail, Goto
  <2> QED BY <1>1, <2>1, MovingOnKeeps DEF Forward, HeldInv, ChangeInv, ChangeTypeOK
<1> QED BY <1>2, <1>3 DEF Complete

LEMMA PruneBackupKeeps ==
    ASSUME NEW f, ChangeInv, PruneBackup(f)
    PROVE  ChangeInv'
<1>1. /\ edits < MaxEdits /\ edits' = edits + 1
      /\ UNCHANGED <<files, dirs, touched, plan, phase, pc, journal, created, held, broken, outcome>>
  BY DEF PruneBackup, tree, control
<1>2. TreeTypeOK'
  BY <1>1, MaxEditsAssumption DEF ChangeInv, TreeTypeOK
<1>3. ChangeTypeOK' /\ Position' /\ JournalInv' /\ ProgressInv'
  BY <1>1, ControlKept
<1>4. HeldInv'
  BY <1>1 DEF ChangeInv, HeldInv, Current, DirNode, Untouched
<1>5. FilesInv' /\ CreatedInv'
  BY <1>1, FilesInvKept, CreatedInvKept DEF ChangeInv
<1> QED BY <1>2, <1>3, <1>4, <1>5 DEF ChangeInv

-----------------------------------------------------------------------------
(* The steps that change directories, or the cleanup's place among them,    *)
(* keep DirsInv.                                                            *)

LEMMA DirStanding ==
    ASSUME NEW d \in Dirs
    PROVE  (Standing(d) <=> dirs[d] # "missing") /\ (Standing(d)' <=> dirs'[d] # "missing")
  BY PathsAssumption DEF Standing, DirNode, Paths

(* One directory changes; what is told of the others stays.                 *)
LEMMA OthersAsTold ==
    ASSUME DirsInv, NEW d \in Dirs, \A e \in Dirs \ {d} : dirs'[e] = dirs[e],
           \A e \in Dirs \ {d} : Removed(e)' <=> Removed(e),
           \A e \in Dirs \ {d} : e \in created' <=> e \in created,
           UNCHANGED plan, touched \subseteq touched', broken => broken',
           phase' \in Forward => phase \in Forward
    PROVE  \A e \in Dirs \ {d} : Untouched(e)' => AsTold(e)'
<1> SUFFICES ASSUME NEW e \in Dirs \ {d}, Untouched(e)' PROVE AsTold(e)'
  OBVIOUS
<1>1. AsTold(e)
  BY DEF DirsInv, Untouched
<1> QED BY <1>1, DirStanding DEF AsTold

LEMMA MakeDirectoryKeepsDirs == ChangeInv /\ DirsInv /\ MakeDirectory => DirsInv'
<1> SUFFICES ASSUME ChangeInv, DirsInv, MakeDirectory PROVE DirsInv'
  OBVIOUS
<1>1. PICK i \in DOMAIN Above[Current.path] :
         /\ FirstMissing(Current.path, i)
         /\ dirs' = [dirs EXCEPT ![Above[Current.path][i]] = "engine"]
         /\ created' = created \union ({Above[Current.path][i]} \intersect PlannedSet)
  BY DEF MakeDirectory
<1>2. /\ phase = "walk"
      /\ UNCHANGED <<plan, files, phase, pc, journal, held, broken, outcome, edits, touched>>
  BY DEF MakeDirectory, editorVars
<1>3. PICK d : d = Above[Current.path][i]
  OBVIOUS
<1>4. Current.path \in Files /\ TreeTypeOK /\ ChangeTypeOK
  BY <1>2, CurrentFacts DEF ChangeInv, Position, FileSteps
<1>5. Above[Current.path] \in Seq(Dirs) /\ Current' = Current
  BY <1>2, <1>4, PathsAssumption DEF Paths, Current
<1>6. d \in Dirs /\ \A j \in DOMAIN Above[Current.path] : Above[Current.path][j] \in Dirs
  BY <1>3, <1>5
<1>7. /\ dirs'[d] = "engine" /\ (\A e \in Dirs \ {d} : dirs'[e] = dirs[e]) /\ ~Standing(d)
      /\ created' = created \union ({d} \intersect PlannedSet)
  BY <1>1, <1>3, <1>4, <1>6 DEF TreeTypeOK, FirstMissing
<1>8. \A e : Removed(e)' <=> Removed(e)
  BY <1>2, SameEntries
<1>9. AsTold(d)' \/ ~Untouched(d)'
  <2>1. SUFFICES ASSUME Untouched(d) PROVE AsTold(d)'
    BY <1>2 DEF Untouched
  <2>2. d \in PlannedSet
    BY <1>2, <1>3, <1>7, <2>1 DEF DirsInv
  <2>3. d \notin plan.standing /\ d \in created'
    BY <1>4, <1>7, <2>2, PlansAssumption DEF PlannedSet, ChangeTypeOK
  <2>4. ~Removed(d)'
    BY <1>6, <1>8, <2>1, <2>3 DEF DirsInv, AsTold
  <2> QED BY <1>2, <2>3, <2>4 DEF AsTold
<1>10. \A e \in Dirs : Untouched(e)' => AsTold(e)'
  BY <1>2, <1>6, <1>7, <1>8, <1>9, OthersAsTold
<1>11. ASSUME NEW j \in DOMAIN Above[Current.path], NEW e, e = Above[Current.path][j], Untouched(e)'
       PROVE  Standing(e)' \/ e \in PlannedSet
  <2>1. e \in Dirs /\ (Standing(e) \/ e \in PlannedSet)
    BY <1>2, <1>6, <1>11 DEF DirsInv, Untouched
  <2>2. dirs'[e] = "engine" \/ dirs'[e] = dirs[e]
    BY <1>7, <2>1
  <2> QED BY <2>1, <2>2, DirStanding
<1>12. outcome' # "failed"
  BY <1>2 DEF ChangeInv, JournalInv
<1> QED BY <1>2, <1>5, <1>10, <1>11, <1>12 DEF DirsInv, PlannedSet, Cleaning

LEMMA RmdirKeepsDirs == ChangeInv /\ DirsInv /\ Rmdir => DirsInv'
<1> SUFFICES ASSUME ChangeInv, DirsInv, Rmdir PROVE DirsInv'
  OBVIOUS
<1>1. PICK d : d = Current.path
  OBVIOUS
<1>2. /\ phase = "rmdir" /\ pc \in DOMAIN Steps(plan) \ FileSteps /\ ~Installing
      /\ UNCHANGED <<plan, files, created, held, broken, edits, touched>>
      /\ phase' \in {"begin", "rollback"} /\ outcome' = outcome
      /\ \/ UNCHANGED <<dirs, journal>>
         \/ dirs' = [dirs EXCEPT ![d] = "missing"] /\ journal' = journal \union {pc}
  BY <1>1, MutationPlansAssumption
     DEF Rmdir, Applied, NextAction, Goto, Fail, tree, editorVars, Installing, ChangeInv, ChangeTypeOK, Position
<1>3. TreeTypeOK /\ d \in Dirs /\ plan \in Plans
  BY <1>1, <1>2, CurrentFacts DEF ChangeInv, ChangeTypeOK
<1>4. CASE UNCHANGED <<dirs, journal>>
  BY <1>2, <1>4, DirsInvKept DEF Forward, Cleaning
<1>5. CASE dirs' = [dirs EXCEPT ![d] = "missing"] /\ journal' = journal \union {pc}
  <2>1. dirs'[d] = "missing" /\ \A e \in Dirs \ {d} : dirs'[e] = dirs[e]
    BY <1>3, <1>5 DEF TreeTypeOK
  <2>2. \A e \in Dirs \ {d} : Removed(e)' <=> Removed(e)
    BY <1>1, <1>2, <1>5 DEF Removed, FileSteps, Current
  <2>3. AsTold(d)' \/ ~Untouched(d)'
    <3>1. SUFFICES ASSUME Untouched(d) PROVE AsTold(d)'
      BY <1>2 DEF Untouched
    <3>2. dirs[d] = "prepared"
      BY <1>1, <1>2, <3>1 DEF DirsInv
    <3>3. d \notin created
      BY <1>2, <3>1, <3>2 DEF ChangeInv, CreatedInv, Forward
    <3>4. d \in plan.standing
      BY <1>3, <3>1, <3>2, <3>3, DirStanding DEF DirsInv, AsTold
    <3>5. Removed(d)'
      BY <1>1, <1>2, <1>5 DEF Removed, FileSteps, Current
    <3> QED BY <1>2, <1>3, <2>1, <3>3, <3>4, <3>5, DirStanding DEF AsTold
  <2>4. \A e \in Dirs : Untouched(e)' => AsTold(e)'
    BY <1>2, <1>3, <2>1, <2>2, <2>3, OthersAsTold DEF Forward
  <2>5. outcome' # "failed"
    BY <1>2 DEF ChangeInv, JournalInv
  <2> QED BY <1>2, <2>4, <2>5 DEF DirsInv, Cleaning
<1> QED BY <1>2, <1>4, <1>5

LEMMA UndoDirectoryKeepsDirs == ChangeInv /\ DirsInv /\ UndoDirectory => DirsInv'
<1> SUFFICES ASSUME ChangeInv, DirsInv, UndoDirectory PROVE DirsInv'
  OBVIOUS
<1>1. PICK d : d = Current.path
  OBVIOUS
<1>2. /\ phase = "rollback" /\ pc \in journal /\ pc \in DOMAIN Steps(plan) \ FileSteps
      /\ phase' = "rollback" /\ journal' = journal \ {pc} /\ outcome' = outcome
      /\ UNCHANGED <<plan, files, created, held, edits, touched>>
      /\ \/ dirs[d] # "missing" /\ broken' = broken /\ dirs' = dirs
         \/ broken' = TRUE /\ dirs' = dirs
         \/ broken' = broken /\ dirs' = [dirs EXCEPT ![d] = "engine"]
  BY <1>1 DEF UndoDirectory, Undone, CannotUndo, editorVars, FileSteps, Current, ChangeInv, ChangeTypeOK
<1>3. TreeTypeOK /\ d \in Dirs /\ plan \in Plans
  BY <1>1, <1>2, CurrentFacts DEF ChangeInv, ChangeTypeOK
<1>4. \A e \in Dirs \ {d} : dirs'[e] = dirs[e]
  BY <1>2, <1>3 DEF TreeTypeOK
<1>5. \A e \in Dirs \ {d} : Removed(e)' <=> Removed(e)
  BY <1>1, <1>2 DEF Removed, FileSteps, Current
<1>6. Removed(d) /\ ~Removed(d)'
  <2>1. DistinctPaths(plan)
    BY <1>3, PlanFacts
  <2> QED BY <1>1, <1>2, <2>1 DEF Removed, FileSteps, Current, DistinctPaths
<1>7. AsTold(d)' \/ ~Untouched(d)'
  <2>1. SUFFICES ASSUME Untouched(d) PROVE AsTold(d)'
    BY <1>2 DEF Untouched
  <2>2. ~Standing(d) /\ d \in plan.standing /\ d \notin created
    BY <1>3, <1>6, <2>1 DEF DirsInv, AsTold
  <2>3. broken' \/ Standing(d)'
    BY <1>2, <1>3, <2>2, DirStanding DEF TreeTypeOK
  <2> QED BY <1>2, <1>6, <2>2, <2>3 DEF AsTold, Forward
<1>8. \A e \in Dirs : Untouched(e)' => AsTold(e)'
  BY <1>2, <1>3, <1>4, <1>5, <1>7, OthersAsTold DEF Forward
<1>9. outcome' # "failed"
  BY <1>2 DEF ChangeInv, JournalInv
<1> QED BY <1>2, <1>8, <1>9 DEF DirsInv, Cleaning

LEMMA CleaningKeepsDirs ==
    ASSUME ChangeInv, DirsInv, JournalUndone \/ CleanUpMutation \/ ReportFailure
    PROVE  DirsInv'
<1>1. /\ UNCHANGED <<plan, files, dirs, journal, created, edits, touched>>
      /\ phase' \notin Forward /\ (broken => broken')
  <2>1. UNCHANGED <<plan, files, dirs, journal, created, edits, touched>>
    BY DEF JournalUndone, CleanUpMutation, CleanUp, CleanUpFails, ReportFailure, tree, editorVars
  <2>2. phase' \in {"cleanup", "sweep", "done"}
    BY DEF JournalUndone, CleanUpMutation, CleanUp, CleanUpFails, ReportFailure, Finish
  <2>3. broken => broken'
    BY Zenon DEF JournalUndone, CleanUpMutation, CleanUp, CleanUpFails, ReportFailure
  <2> QED BY <2>1, <2>2, <2>3 DEF Forward
<1>2. TreeTypeOK /\ ChangeTypeOK
  BY DEF ChangeInv
<1>3. \A e \in Dirs : Untouched(e)' => AsTold(e)'
  <2>1. \A e : Removed(e)' <=> Removed(e)
    BY <1>1, SameEntries
  <2> QED BY <1>1, <2>1, DirStanding DEF DirsInv, AsTold, Untouched
<1>4. \A j \in DOMAIN plan.planned : Reclaimed(j)' <=> Reclaimed(j)
  BY <1>1 DEF Reclaimed, Untouched, Standing, DirNode
<1>5. DOMAIN plan.planned = 1..Len(plan.planned) /\ Len(plan.planned) \in Nat
  BY <1>2, PlannedFacts
<1>6. CASE JournalUndone
  <2>1. /\ phase' = "cleanup" /\ pc' = Len(plan.planned) /\ outcome' = "running"
    BY <1>6 DEF JournalUndone, ChangeInv, JournalInv
  <2> QED BY <1>1, <1>3, <1>5, <2>1 DEF DirsInv
<1>7. CASE CleanUp(created, {d \in Dirs : ~Standing(d)}, {d \in Dirs : dirs[d] = "engine"})
  <2>1. PICK d : d = plan.planned[pc]
    OBVIOUS
  <2>2. phase = "cleanup" /\ pc > 0 /\ pc \in DOMAIN plan.planned /\ outcome' = "running" /\ d \in Dirs
    BY <1>2, <1>5, <1>7, <2>1, PlannedFacts DEF CleanUp, ChangeInv, Position, JournalInv
  <2>3. \/ phase' = "sweep" /\ pc' = pc /\ d \in created /\ (~broken' => ~broken)
        \/ phase' = "cleanup" /\ pc' = pc - 1 /\ (~broken' => ~broken /\ (d \in created => ~Standing(d)))
    BY <1>7, <2>1, <2>2 DEF CleanUp
  <2>4. ~broken' => \A j \in DOMAIN plan.planned : j > pc' => Reclaimed(j)
    <3>1. SUFFICES ASSUME ~broken', NEW j \in DOMAIN plan.planned, j > pc' PROVE Reclaimed(j)
      OBVIOUS
    <3>2. CASE j > pc
      BY <2>2, <2>3, <3>1, <3>2 DEF DirsInv, Cleaning
    <3>3. CASE j = pc
      <4>1. pc' = pc - 1 /\ (d \in created => ~Standing(d))
        BY <1>5, <2>2, <2>3, <3>1, <3>3
      <4> QED BY <2>1, <3>3, <4>1 DEF Reclaimed
    <3> QED BY <1>5, <2>2, <2>3, <3>1, <3>2, <3>3
  <2>5. phase' \in {"sweep", "cleanup"} /\ (phase' = "sweep" => plan'.planned[pc'] \in created')
    BY <1>1, <2>1, <2>3
  <2> QED BY <1>1, <1>3, <1>4, <2>2, <2>4, <2>5 DEF DirsInv
<1>8. CASE CleanUpFails(created)
  <2>1. phase' = "cleanup" /\ broken' = TRUE /\ outcome' = "running"
    BY <1>8 DEF CleanUpFails, ChangeInv, JournalInv
  <2> QED BY <1>3, <2>1 DEF DirsInv
<1>9. CASE ReportFailure
  <2>1. phase = "cleanup" /\ pc = 0 /\ phase' = "done" /\ (outcome' = "failed" => ~broken)
    BY <1>9 DEF ReportFailure, Finish
  <2>2. outcome' = "failed" => \A j \in DOMAIN plan.planned : Reclaimed(j)
    BY <1>5, <2>1 DEF DirsInv, Cleaning
  <2> QED BY <1>1, <1>3, <1>4, <2>1, <2>2 DEF DirsInv, Cleaning
<1> QED BY <1>6, <1>7, <1>8, <1>9 DEF CleanUpMutation

LEMMA SweepKeepsDirs == ChangeInv /\ DirsInv /\ Sweep => DirsInv'
<1> SUFFICES ASSUME ChangeInv, DirsInv, Sweep PROVE DirsInv'
  OBVIOUS
<1>1. PICK d : d = plan.planned[pc]
  OBVIOUS
<1>2. /\ phase = "sweep" /\ phase' = "cleanup" /\ pc' = pc - 1 /\ outcome' = outcome /\ outcome = "running"
      /\ UNCHANGED <<plan, files, journal, created, held, edits, touched>>
      /\ dirs' = dirs \/ dirs' = [dirs EXCEPT ![d] = "missing"]
  BY <1>1 DEF Sweep, editorVars, ChangeInv, JournalInv
<1>3. broken => broken'
  BY Zenon DEF Sweep
<1>4. /\ TreeTypeOK /\ ChangeTypeOK /\ pc \in DOMAIN plan.planned /\ d \in Dirs /\ d \in created
      /\ DOMAIN plan.planned = 1..Len(plan.planned) /\ Len(plan.planned) \in Nat
  BY <1>1, <1>2, PlannedFacts DEF ChangeInv, Position, DirsInv
<1>5. ~broken' => ~broken /\ dirs' = [dirs EXCEPT ![d] = "missing"]
  <2>1. ~Installing
    BY <1>4, MutationPlansAssumption DEF Installing, ChangeTypeOK
  <2> QED BY <1>1, <2>1 DEF Sweep
<1>6. \A e \in Dirs \ {d} : dirs'[e] = dirs[e]
  BY <1>2, <1>4 DEF TreeTypeOK
<1>7. \A e : Removed(e)' <=> Removed(e)
  BY <1>2, SameEntries
<1>8. AsTold(d)' \/ ~Untouched(d)'
  BY <1>2, <1>4, <1>7 DEF DirsInv, AsTold, Untouched
<1>9. \A e \in Dirs : Untouched(e)' => AsTold(e)'
  BY <1>2, <1>3, <1>4, <1>6, <1>7, <1>8, OthersAsTold DEF Forward
<1>10. ~broken' => \A j \in DOMAIN plan.planned : j > pc - 1 => Reclaimed(j)'
  <2>1. SUFFICES ASSUME ~broken', NEW j \in DOMAIN plan.planned, j > pc - 1,
                        NEW e, e = plan.planned[j], e \in created, Untouched(e)
                 PROVE  ~Standing(e)'
    BY <1>2 DEF Reclaimed, Untouched
  <2>2. e \in Dirs
    BY <1>4, <2>1, PlannedFacts
  <2>3. CASE e = d
    BY <1>4, <1>5, <2>1, <2>2, <2>3, DirStanding DEF TreeTypeOK
  <2>4. CASE e # d
    <3>1. j > pc
      BY <1>1, <1>4, <2>1, <2>4
    <3>2. ~Standing(e)
      BY <1>2, <1>5, <2>1, <3>1 DEF DirsInv, Reclaimed, Cleaning
    <3> QED BY <1>6, <2>2, <2>4, <3>2, DirStanding
  <2> QED BY <2>3, <2>4
<1> QED BY <1>2, <1>9, <1>10 DEF DirsInv

LEMMA OwnStepsKeepDirs ==
    ASSUME ChangeInv, DirsInv,
           Validate \/ OpenBackup \/ WriteManifest \/ Begin \/ LookAgain \/ FindRemoved \/ Complete
    PROVE  DirsInv'
<1>1. /\ UNCHANGED <<plan, dirs, created, broken, touched>> /\ ~Installing
  BY MutationPlansAssumption
     DEF Validate, OpenBackup, WriteManifest, Begin, LookAgain, FindRemoved, Complete, tree, editorVars,
         Installing, ChangeInv, ChangeTypeOK
<1>2. phase \in Forward /\ phase' \notin Cleaning \union {"rmdir", "walk"} /\ outcome' # "failed"
  BY <1>1 DEF Validate, OpenBackup, WriteManifest, Begin, LookAgain, FindRemoved, Complete, AfterBackup,
         Goto, Fail, Finish, NextAction, Applied, Forward, Cleaning, ChangeInv, JournalInv
<1>3. journal' \ FileSteps = journal \ FileSteps
  <2>1. CASE FindRemoved
    <3>1. pc \in FileSteps /\ journal' = journal \union {pc}
      BY <2>1 DEF FindRemoved, Applied, ChangeInv, Position
    <3> QED BY <3>1
  <2>2. CASE ~FindRemoved
    BY <2>2 DEF Validate, OpenBackup, WriteManifest, Begin, LookAgain, Complete
  <2> QED BY <2>1, <2>2
<1> QED BY <1>1, <1>2, <1>3, DirsInvKept

LEMMA RequirePlannedKeepsDirs == ChangeInv /\ DirsInv /\ RequirePlanned => DirsInv'
<1> SUFFICES ASSUME ChangeInv, DirsInv, RequirePlanned PROVE DirsInv'
  OBVIOUS
<1>1. /\ UNCHANGED <<plan, dirs, created, broken, touched, journal, pc, outcome>> /\ ~Installing
      /\ phase = "require" /\ phase' \in {"walk", "rollback"} /\ outcome = "running"
      /\ phase' = "walk" => \A i \in DOMAIN Above[Current.path] :
            Standing(Above[Current.path][i]) \/ Above[Current.path][i] \in PlannedSet
  BY MutationPlansAssumption
     DEF RequirePlanned, Goto, Fail, tree, editorVars, Installing, ChangeInv, ChangeTypeOK, JournalInv
<1>2. CASE phase' = "rollback"
  BY <1>1, <1>2, DirsInvKept DEF Forward, Cleaning
<1>3. CASE phase' = "walk"
  <2>1. \A e \in Dirs : Untouched(e)' => AsTold(e)'
    <3>1. \A e : Removed(e)' <=> Removed(e)
      BY <1>1, SameEntries
    <3> QED BY <1>1, <3>1, DirStanding DEF DirsInv, AsTold, Untouched, Forward
  <2>2. Current' = Current /\ PlannedSet' = PlannedSet /\ \A p : Standing(p)' <=> Standing(p)
    BY <1>1 DEF Current, PlannedSet, Standing, DirNode
  <2> QED BY <1>1, <1>3, <2>1, <2>2 DEF DirsInv, Cleaning
<1> QED BY <1>1, <1>2, <1>3

LEMMA RemoveDirectoryKeepsDirs == ChangeInv /\ DirsInv /\ RemoveDirectory => DirsInv'
<1> SUFFICES ASSUME ChangeInv, DirsInv, RemoveDirectory PROVE DirsInv'
  OBVIOUS
<1>1. /\ UNCHANGED <<plan, dirs, created, broken, touched, journal, outcome>> /\ ~Installing
      /\ phase = "begin" /\ phase' \in {"begin", "rmdir", "rollback"} /\ outcome = "running"
      /\ phase' = "rmdir" => /\ pc' = pc /\ Standing(Current.path)
                             /\ dirs[Current.path] = PreparedDir(Current.path)
      /\ pc \in DOMAIN Steps(plan) \ FileSteps
  BY MutationPlansAssumption
     DEF RemoveDirectory, NextAction, Goto, Fail, tree, editorVars, Installing, ChangeInv, ChangeTypeOK,
         JournalInv, FileSteps, Current, DirAsPrepared
<1>2. CASE phase' # "rmdir"
  BY <1>1, <1>2, DirsInvKept DEF Forward, Cleaning
<1>3. CASE phase' = "rmdir"
  <2>1. \A e \in Dirs : Untouched(e)' => AsTold(e)'
    <3>1. \A e : Removed(e)' <=> Removed(e)
      BY <1>1, SameEntries
    <3> QED BY <1>1, <3>1, DirStanding DEF DirsInv, AsTold, Untouched, Forward
  <2>2. Current' = Current
    BY <1>1, <1>3 DEF Current
  <2>3. Current.path \in Dirs
    BY <1>1, CurrentFacts DEF ChangeInv
  <2>4. dirs[Current.path] = "prepared"
    BY <1>1, <1>3, <2>3, DirStanding DEF PreparedDir
  <2> QED BY <1>1, <1>3, <2>1, <2>2, <2>4 DEF DirsInv, Cleaning
<1> QED BY <1>2, <1>3

LEMMA EditKeepsDirs == ChangeInv /\ DirsInv /\ Edit => DirsInv'
<1> SUFFICES ASSUME ChangeInv, DirsInv, Edit PROVE DirsInv'
  OBVIOUS
<1>1. /\ UNCHANGED <<plan, phase, pc, journal, created, broken, outcome>> /\ touched \subseteq touched'
      /\ TreeTypeOK /\ ChangeTypeOK
  BY DEF Edit, EditTree, EditFile, EditDirectory, control, ChangeInv
<1>2. \A e \in Dirs : Untouched(e)' => Untouched(e) /\ dirs'[e] = dirs[e]
  BY <1>1 DEF Edit, EditTree, EditFile, EditDirectory, Untouched, TreeTypeOK
<1>3. \A e \in Dirs : Untouched(e)' => AsTold(e)'
  <2>1. \A e : Removed(e)' <=> Removed(e)
    BY <1>1, SameEntries
  <2> QED BY <1>1, <1>2, <2>1, DirStanding DEF DirsInv, AsTold
<1>4. \A j \in DOMAIN plan.planned : Reclaimed(j) => Reclaimed(j)'
  <2>1. \A j \in DOMAIN plan.planned : plan.planned[j] \in Dirs
    BY <1>1, PlannedFacts
  <2> QED BY <1>1, <1>2, <2>1, DirStanding DEF Reclaimed
<1>5. phase = "rmdir" => (Untouched(Current.path)' => dirs'[Current.path] = "prepared") /\ Current' = Current
  <2>1. ASSUME phase = "rmdir" PROVE Current.path \in Dirs
    BY <1>1, <2>1, CurrentFacts DEF ChangeInv, Position
  <2>2. Current' = Current
    BY <1>1 DEF Current
  <2> QED BY <1>1, <1>2, <2>1, <2>2 DEF DirsInv
<1>6. phase = "walk" => \A j \in DOMAIN Above[Current.path] : Above[Current.path][j] \in Dirs
  <2>1. ASSUME phase = "walk" PROVE Current.path \in Files
    BY <1>1, <2>1, CurrentFacts DEF ChangeInv, Position, FileSteps
  <2> QED BY <2>1, PathsAssumption DEF Paths
<1>7. Current' = Current /\ PlannedSet' = PlannedSet
  BY <1>1 DEF Current, PlannedSet
<1>8. ASSUME phase = "walk", NEW j \in DOMAIN Above[Current.path], NEW e, e = Above[Current.path][j],
             Untouched(e)'
      PROVE  Standing(e)' \/ e \in PlannedSet
  <2>1. e \in Dirs /\ (Standing(e) \/ e \in PlannedSet)
    BY <1>2, <1>6, <1>8 DEF DirsInv
  <2> QED BY <1>2, <1>8, <2>1, DirStanding
<1> QED BY <1>1, <1>3, <1>4, <1>5, <1>7, <1>8 DEF DirsInv

(* Steps that change neither the tree nor the control                       *)
LEMMA StillKeeps ==
    ASSUME ChangeInv, DirsInv, UNCHANGED <<tree, editorVars, control>>
    PROVE  ChangeInv' /\ DirsInv'
<1>1. UNCHANGED <<plan, dirs, touched, phase, pc, journal, created, broken, outcome>>
  BY DEF tree, editorVars, control
<1> QED BY <1>1, StandingStillKeeps, DirsUnchanged

LEMMA CopyKeeps ==
    ASSUME NEW f \in Files, ChangeInv, DirsInv, CopyToBackup(f)
    PROVE  ChangeInv' /\ DirsInv'
<1>1. UNCHANGED <<tree, editorVars, control>>
  BY DEF CopyToBackup
<1> QED BY <1>1, StillKeeps

-----------------------------------------------------------------------------
(* The backup *)

LEMMA BackupTypeKept == ChangeInv /\ BackupTypeOK /\ [Next]_vars => BackupTypeOK'
<1> SUFFICES ASSUME ChangeInv, BackupTypeOK, [Next]_vars PROVE BackupTypeOK'
  OBVIOUS
<1>1. plan \in Plans /\ pc \in Nat
  BY DEF ChangeInv, ChangeTypeOK
<1>2. CASE UNCHANGED backupVars
  BY <1>2 DEF backupVars, BackupTypeOK
<1>3. ASSUME NEW f \in Files, CopyToBackup(f) PROVE BackupTypeOK'
  BY <1>1, <1>3, PlanFacts DEF CopyToBackup, BackupTypeOK
<1>4. CASE WriteManifest
  BY <1>4 DEF WriteManifest, BackupTypeOK
<1>5. ASSUME NEW f \in Files, PruneBackup(f) PROVE BackupTypeOK'
  BY <1>1, <1>5 DEF PruneBackup, BackupTypeOK
<1> QED BY <1>2, <1>3, <1>4, <1>5
        DEF Next, Process, Validate, OpenBackup, Begin, RequirePlanned, LookAgain, FindRemoved,
            RemoveDirectory, Rmdir, Complete, vars, backupVars

-----------------------------------------------------------------------------
(* The invariant *)

LEMMA SharedKeeps == ChangeInv /\ DirsInv /\ Shared => ChangeInv' /\ DirsInv'
<1> SUFFICES ASSUME ChangeInv, DirsInv, Shared PROVE ChangeInv' /\ DirsInv'
  OBVIOUS
<1>1. created \subseteq Dirs
  BY DEF ChangeInv, ChangeTypeOK
<1>2. ChangeInv'
  BY <1>1, MakeDirectoryKeeps, PathReadyKeeps, OpenDirectoryKeeps, PublishKeeps, OperationFailsKeeps,
     UndoFileKeeps, RestoreKeeps, UndoDirectoryKeeps, NothingToUndoKeeps, UndoFailsKeeps,
     JournalUndoneKeeps, CleanUpKeeps, CleanUpFailsKeeps, SweepKeeps, ReportFailureKeeps
     DEF Shared, CleanUpMutation
<1>3. DirsInv'
  BY MakeDirectoryKeepsDirs, UndoDirectoryKeepsDirs, SweepKeepsDirs, CleaningKeepsDirs, MovesKeepDirs
     DEF Shared
<1> QED BY <1>2, <1>3

LEMMA StepKeeps == MutationInv /\ [Next]_vars => MutationInv'
<1> SUFFICES ASSUME MutationInv, [Next]_vars PROVE MutationInv'
  OBVIOUS
<1> USE DEF MutationInv
<1>1. BackupTypeOK'
  BY BackupTypeKept
<1>2. CASE Process
  <2>1. CASE Validate \/ OpenBackup \/ WriteManifest \/ Begin \/ LookAgain \/ FindRemoved \/ Complete
    <3>1. ChangeInv'
      BY <2>1, ValidateKeeps, BeginKeeps, LookingKeeps, FindRemovedKeeps, CompleteKeeps
    <3>2. DirsInv'
      BY <2>1, OwnStepsKeepDirs
    <3> QED BY <1>1, <3>1, <3>2
  <2>2. CASE RequirePlanned \/ RemoveDirectory \/ Rmdir
    <3>1. ChangeInv'
      BY <2>2, LookingKeeps, RemoveDirectoryKeeps, RmdirKeeps
    <3>2. DirsInv'
      BY <2>2, RequirePlannedKeepsDirs, RemoveDirectoryKeepsDirs, RmdirKeepsDirs
    <3> QED BY <1>1, <3>1, <3>2
  <2>3. CASE \E f \in Files : CopyToBackup(f)
    BY <1>1, <2>3, CopyKeeps
  <2>4. CASE Shared
    BY <1>1, <2>4, SharedKeeps
  <2> QED BY <1>2, <2>1, <2>2, <2>3, <2>4 DEF Process
<1>3. CASE Edit
  BY <1>1, <1>3, EditKeeps, EditKeepsDirs
<1>4. ASSUME NEW f \in Files, PruneBackup(f) PROVE MutationInv'
  <2>1. UNCHANGED <<plan, dirs, touched, phase, pc, journal, created, broken, outcome>>
    BY <1>4 DEF PruneBackup, tree, control
  <2> QED BY <1>1, <1>4, <2>1, PruneBackupKeeps, DirsUnchanged
<1>5. CASE Kill
  BY <1>1, <1>5, KillKeeps, MovesKeepDirs
<1>6. CASE UNCHANGED vars
  BY <1>1, <1>6, StillKeeps DEF vars
<1> QED BY <1>2, <1>3, <1>4, <1>5, <1>6 DEF Next

LEMMA InitKeeps == Init => MutationInv
<1> SUFFICES ASSUME Init PROVE MutationInv
  OBVIOUS
<1>1. ChangeInv
  BY InitEstablishes DEF Init
<1>2. BackupTypeOK
  BY DEF Init, BackupTypeOK
<1>3. /\ phase = "validate" /\ journal = {} /\ created = {} /\ outcome = "running"
      /\ dirs = [d \in Dirs |-> IF d \in plan.standing THEN "prepared" ELSE "missing"]
  BY DEF Init, ChangeInit, TreeOf
<1>4. \A d \in Dirs : AsTold(d)
  BY <1>3, DirStanding DEF AsTold, Removed
<1>5. DirsInv
  BY <1>3, <1>4 DEF DirsInv, Cleaning
<1> QED BY <1>1, <1>2, <1>5 DEF MutationInv

(* The invariant the theorems rest on: types, the place of the process in   *)
(* its plan, and what journal and created tell of the tree.                 *)
THEOREM MutationInvariant == Spec => []MutationInv
  BY InitKeeps, StepKeeps, PTL DEF Spec

(* Every state an update or uninstall reaches is well typed, for any plans. *)
THEOREM TypeCorrect == Spec => []TypeOK
<1>1. MutationInv => TypeOK
  BY DEF MutationInv, ChangeInv, BackupTypeOK, TypeOK
<1> QED BY <1>1, MutationInvariant, PTL

(* An update or uninstall that reports success has done everything it       *)
(* planned (applyMutationPlan).                                             *)
THEOREM CommitCompletes == Spec => []CommitIsComplete
<1>1. MutationInv => CommitIsComplete
  BY CommitIsCompleteHolds DEF MutationInv
<1> QED BY <1>1, MutationInvariant, PTL

(* An update or uninstall that reports a plain failure has put back all     *)
(* files and directories nobody else touched, whichever step failed and     *)
(* whatever other processes did meanwhile (failMutationApplication).        *)
THEOREM FailureIsUndone == Spec => []FailureRestores
<1>1. ASSUME MutationInv, outcome = "failed", NEW d \in Dirs, Untouched(d)
      PROVE  dirs[d] = "missing" <=> d \notin plan.standing
  <2>1. journal = {} /\ ~broken /\ AsTold(d) /\ ~Removed(d)
    BY <1>1 DEF MutationInv, ChangeInv, JournalInv, DirsInv, Removed
  <2>2. CASE d \in created
    <3>1. PICK j \in DOMAIN plan.planned : d = plan.planned[j]
      BY <1>1, <2>2 DEF MutationInv, ChangeInv, CreatedInv, PlannedSet
    <3>2. ~Standing(d)
      BY <1>1, <2>2, <3>1 DEF MutationInv, DirsInv, Reclaimed
    <3> QED BY <2>1, <2>2, <3>2, DirStanding DEF AsTold
  <2>3. CASE d \notin created
    BY <2>1, <2>3, DirStanding DEF AsTold
  <2> QED BY <2>2, <2>3
<1>2. MutationInv => FilesRestored
  BY FilesRestoredHolds DEF MutationInv
<1>3. MutationInv => FailureRestores
  BY <1>1, <1>2 DEF FailureRestores
<1> QED BY <1>3, MutationInvariant, PTL

-----------------------------------------------------------------------------
(* The order of the journal, the last looks and the backup                  *)

Covered(i) == NeedsBackup(plan, Steps(plan)[i]) => BackupHolds(Steps(plan)[i]) \/ i < pruned

(* An action under way is not journaled yet; nothing is while the backup is *)
(* made.  What is journaled or about to be written is covered.              *)
BackupInv == /\ phase \in Forward => pc \notin journal
             /\ phase \in {"validate", "backup", "copy"} => journal = {}
             /\ plan.backup => /\ \A i \in journal : Covered(i)
                               /\ phase \in {"require", "walk", "open", "look", "publish"} => Covered(pc)

(* The steps of an update or uninstall that are its own                     *)
OwnSteps == \/ Validate \/ OpenBackup \/ WriteManifest \/ Begin \/ RequirePlanned \/ LookAgain
            \/ FindRemoved \/ RemoveDirectory \/ Rmdir \/ Complete
BackupSteps == \E f \in Files : CopyToBackup(f) \/ PruneBackup(f)

LEMMA NextCases ==
    ASSUME [Next]_vars
    PROVE  \/ OwnSteps
           \/ BackupSteps
           \/ SharedSteps /\ UNCHANGED backupVars
           \/ CleanUpMutation /\ UNCHANGED backupVars
           \/ Edit /\ UNCHANGED backupVars
           \/ UNCHANGED vars
  BY Zenon DEF Next, Process, Shared, OwnSteps, BackupSteps, SharedSteps

LEMMA OwnJournaling ==
    ASSUME ChangeInv, OwnSteps
    PROVE  Journaling /\ UNCHANGED <<edits, touched>>
<1> USE DEF Journaling, editorVars, Forward
<1>1. CASE Validate \/ OpenBackup \/ WriteManifest \/ Begin \/ RequirePlanned \/ LookAgain
           \/ RemoveDirectory \/ Complete
  BY <1>1 DEF Validate, OpenBackup, WriteManifest, Begin, RequirePlanned, LookAgain, RemoveDirectory, Complete
<1>2. CASE FindRemoved \/ Rmdir
  BY <1>2 DEF FindRemoved, Rmdir, Applied
<1> QED BY <1>1, <1>2 DEF OwnSteps

(* Where the own steps lead, and what they tell the caller                  *)
LEMMA OwnLeads ==
    ASSUME ChangeInv, OwnSteps
    PROVE  /\ phase \notin {"done", "killed"} /\ phase \in Forward /\ ~broken /\ ~broken'
           /\ phase' \notin {"restore", "sweep", "killed"}
           /\ phase' = "publish" => LookAgain
           /\ phase' = "rmdir" => RemoveDirectory
           /\ \/ phase' # "done" /\ outcome' = "running"
              \/ phase' = "done" /\ outcome' = "committed"
              \/ /\ phase' = "done" /\ outcome' \in {"refused", "predicted", "terminal"}
                 /\ phase \in {"validate", "backup", "copy"} /\ UNCHANGED journal
<1>1. ~Installing
  BY MutationPlansAssumption DEF Installing, ChangeInv, ChangeTypeOK
<1>2. phase \in Forward
  BY DEF OwnSteps, Validate, OpenBackup, WriteManifest, Begin, RequirePlanned, LookAgain, FindRemoved,
         RemoveDirectory, Rmdir, Complete, Forward
<1>3. ~broken /\ ~broken' /\ outcome = "running" /\ phase \notin {"done", "killed"}
  <2>1. UNCHANGED broken
    BY DEF OwnSteps, Validate, OpenBackup, WriteManifest, Begin, RequirePlanned, LookAgain, FindRemoved,
           RemoveDirectory, Rmdir, Complete
  <2>2. phase \notin {"done", "killed"}
    BY <1>2 DEF Forward
  <2> QED BY <1>2, <2>1, <2>2, Zenon DEF ChangeInv, JournalInv
<1>4. CASE Validate \/ OpenBackup \/ WriteManifest
  <2>1. /\ phase' \in {"backup", "copy", "begin", "rollback", "done"} /\ UNCHANGED journal
        /\ phase' # "done" => outcome' = outcome
        /\ phase' = "done" => outcome' \in {"refused", "predicted", "terminal"}
        /\ phase \in {"validate", "backup", "copy"}
    BY <1>1, <1>4 DEF Validate, OpenBackup, WriteManifest, AfterBackup, Goto, Finish, Fail
  <2>2. phase' \notin {"restore", "sweep", "killed", "publish", "rmdir"}
    BY <2>1
  <2> QED BY <1>2, <1>3, <2>1, <2>2, Zenon
<1>5. CASE Begin \/ RequirePlanned \/ FindRemoved \/ Rmdir
  <2>1. phase' \in {"begin", "rollback", "require", "look", "walk"} /\ outcome' = outcome
    BY <1>1, <1>5 DEF Begin, RequirePlanned, FindRemoved, Rmdir, Applied, NextAction, Goto, Fail
  <2>2. phase' \notin {"restore", "sweep", "killed", "publish", "rmdir", "done"}
    BY <2>1
  <2> QED BY <1>2, <1>3, <2>1, <2>2, Zenon
<1>6. CASE LookAgain
  <2>1. phase' \in {"publish", "rollback"} /\ outcome' = outcome
    BY <1>1, <1>6 DEF LookAgain, Goto, Fail
  <2>2. phase' \notin {"restore", "sweep", "killed", "rmdir", "done"}
    BY <2>1
  <2> QED BY <1>2, <1>3, <1>6, <2>1, <2>2, Zenon
<1>7. CASE RemoveDirectory
  <2>1. phase' \in {"begin", "rmdir", "rollback"} /\ outcome' = outcome
    BY <1>1, <1>7 DEF RemoveDirectory, NextAction, Goto, Fail
  <2>2. phase' \notin {"restore", "sweep", "killed", "publish", "done"}
    BY <2>1
  <2> QED BY <1>2, <1>3, <1>7, <2>1, <2>2, Zenon
<1>8. CASE Complete
  <2>1. \/ phase' = "done" /\ outcome' = "committed"
        \/ phase' = "rollback" /\ outcome' = outcome
    BY <1>1, <1>8 DEF Complete, Goto, Fail, Finish
  <2>2. phase' \notin {"restore", "sweep", "killed", "publish", "rmdir"}
    BY <2>1
  <2> QED BY <1>2, <1>3, <2>1, <2>2, Zenon
<1> QED BY <1>4, <1>5, <1>6, <1>7, <1>8, Zenon DEF OwnSteps

LEMMA OwnKeepsLook ==
    ASSUME ChangeInv, LookInv, OwnSteps
    PROVE  LookInv'
<1>1. CASE LookAgain
  <2>1. phase' = "publish" => /\ UNCHANGED <<plan, pc>> /\ held' = Seen(Current.path)
                              /\ files[Current.path].data = plan.before[Current.path]
    BY <1>1 DEF LookAgain, Goto, Fail
  <2>2. phase' \notin {"restore", "rmdir", "sweep"}
    BY <1>1 DEF LookAgain, Goto, Fail
  <2> QED BY <2>1, <2>2 DEF LookInv, Seen, Current
<1>2. CASE RemoveDirectory
  <2>1. phase' = "rmdir" => held'.parent = dirs[Current.path] /\ dirs[Current.path] \in {"prepared", "missing"}
    BY <1>2 DEF RemoveDirectory, NextAction, Goto, Fail, DirAsPrepared, PreparedDir, ChangeInv, ChangeTypeOK
  <2>2. phase' \notin {"publish", "restore", "sweep"}
    BY <1>2 DEF RemoveDirectory, NextAction, Goto, Fail
  <2> QED BY <2>1, <2>2 DEF LookInv
<1>3. CASE ~LookAgain /\ ~RemoveDirectory
  <2>1. phase' \notin {"publish", "restore", "rmdir", "sweep"}
    BY <1>3, OwnLeads, Zenon
  <2> QED BY <2>1 DEF LookInv
<1> QED BY <1>1, <1>2, <1>3

LEMMA TraceKept ==
    ASSUME ChangeInv, TraceInv, BackupInv, [Next]_vars
    PROVE  TraceInv'
<1>1. CASE OwnSteps
  <2>1. OrderInv' /\ LookInv'
    BY <1>1, OwnJournaling, OrderKept, OwnKeepsLook DEF TraceInv
  <2>2. EndInv'
    BY <1>1, OwnJournaling, OwnLeads, Zenon DEF TraceInv, EndInv, BackupInv
  <2> QED BY <2>1, <2>2 DEF TraceInv
<1>2. CASE SharedSteps
  BY <1>2, SharedKeepsTrace
<1>3. CASE CleanUpMutation
  BY <1>3, CleanUpKeepsTrace DEF CleanUpMutation
<1>4. CASE Edit
  BY <1>4, EditKeepsTrace
<1>5. CASE BackupSteps \/ UNCHANGED vars
  <2>1. /\ UNCHANGED control /\ touched' = touched
        /\ edits' = edits \/ (edits' = edits + 1 /\ edits \in Nat)
    BY <1>5 DEF BackupSteps, CopyToBackup, PruneBackup, vars, editorVars, ChangeInv, TreeTypeOK
  <2>2. OrderInv' /\ LookInv'
    BY <2>1, OrderKept, WaitingKeepsLook DEF TraceInv, Journaling, control
  <2>3. EndInv'
    BY <2>1 DEF TraceInv, EndInv, control
  <2> QED BY <2>2, <2>3 DEF TraceInv
<1> QED BY <1>1, <1>2, <1>3, <1>4, <1>5, NextCases

-----------------------------------------------------------------------------
(* The backup covers what is destroyed                                      *)

LEMMA CoveredKept ==
    ASSUME UNCHANGED <<plan, backupVars>>, NEW i, Covered(i)
    PROVE  Covered(i)'
<1>1. UNCHANGED <<plan, copies, manifest, pruned>>
  BY DEF backupVars
<1> QED BY <1>1 DEF Covered, NeedsBackup, BackupHolds

(* A step that leaves the backup alone keeps BackupInv if it journals the   *)
(* current action at most, and moves on when it does.                       *)
Writing == {"require", "walk", "open", "look", "publish"}
Starting == {"validate", "backup", "copy"}
LEMMA BackupInvKept ==
    ASSUME ChangeInv, BackupInv, UNCHANGED <<plan, backupVars>>,
           \/ phase' \notin Forward /\ journal' \subseteq journal
           \/ phase \in Forward /\ UNCHANGED <<journal, pc>>
           \/ phase \in Forward /\ UNCHANGED journal /\ pc' = pc + 1
           \/ phase \in {"publish", "rmdir"} /\ journal' = journal \union {pc} /\ pc' = pc + 1,
           phase' \in Starting => phase \in Starting /\ UNCHANGED journal,
           phase' \in Writing => /\ UNCHANGED pc
                                 /\ plan.backup /\ phase \notin Writing => Covered(pc)
    PROVE  BackupInv'
<1>1. pc \in Nat /\ (phase \in Forward => journal \subseteq 1..pc)
  BY Zenon DEF ChangeInv, ChangeTypeOK, JournalInv
<1>2. ASSUME phase' \in Forward PROVE pc' \notin journal'
  <2>1. CASE UNCHANGED <<journal, pc>> /\ phase \in Forward
    BY <2>1 DEF BackupInv
  <2>2. CASE pc' = pc + 1 /\ phase \in Forward /\ journal' \subseteq journal \union {pc}
    BY <1>1, <2>2
  <2> QED BY <1>2, <2>1, <2>2 DEF Forward
<1>3. phase = "rmdir" => Covered(pc)
  BY DEF Covered, NeedsBackup, FileSteps, IsFile, FileEffects, ChangeInv, Position
<1>4. plan.backup => \A i \in journal' : Covered(i)
  BY <1>3 DEF BackupInv
<1>5. plan.backup /\ phase' \in Writing => Covered(pc')
  BY DEF BackupInv, Writing
<1>6. \A i : Covered(i) => Covered(i)'
  BY CoveredKept
<1>7. phase' \in Starting => journal' = {}
  BY DEF BackupInv, Starting
<1> QED BY <1>2, <1>4, <1>5, <1>6, <1>7 DEF BackupInv, Writing, Starting

LEMMA OwnKeepsBackup ==
    ASSUME ChangeInv, BackupInv, OwnSteps
    PROVE  BackupInv'
<1>1. ~Installing
  BY MutationPlansAssumption DEF Installing, ChangeInv, ChangeTypeOK
<1> USE DEF Goto, Fail, Finish, NextAction, Forward, Starting, Writing
<1>2. CASE Validate \/ OpenBackup \/ RequirePlanned \/ LookAgain \/ RemoveDirectory \/ Complete
  BY <1>1, <1>2, BackupInvKept
     DEF Validate, OpenBackup, AfterBackup, RequirePlanned, LookAgain, RemoveDirectory, Complete
<1>3. CASE WriteManifest
  <2>1. journal' = {} /\ phase' \notin Starting \union Writing
    BY <1>1, <1>3 DEF WriteManifest, AfterBackup, BackupInv
  <2> QED BY <2>1 DEF BackupInv
<1>4. CASE Begin
  <2>1. phase' \in Writing => MayChange(Current) /\ UNCHANGED pc
    BY <1>1, <1>4 DEF Begin
  <2>2. plan.backup /\ MayChange(Current) => Covered(pc)
    BY DEF MayChange, BackupMissing, Covered, Current
  <2>3. /\ phase = "begin" /\ UNCHANGED <<plan, backupVars, journal>> /\ phase' \notin Starting
        /\ UNCHANGED pc \/ pc' = pc + 1
    BY <1>1, <1>4 DEF Begin
  <2> QED BY <2>1, <2>2, <2>3, BackupInvKept
<1>5. CASE FindRemoved \/ Rmdir
  BY <1>1, <1>5, BackupInvKept DEF FindRemoved, Rmdir, Applied
<1> QED BY <1>2, <1>3, <1>4, <1>5 DEF OwnSteps

LEMMA SharedKeepsBackup ==
    ASSUME ChangeInv, BackupInv, SharedSteps, UNCHANGED backupVars
    PROVE  BackupInv'
<1>1. ~Installing
  BY MutationPlansAssumption DEF Installing, ChangeInv, ChangeTypeOK
<1> USE DEF Goto, Fail, Finish, NextAction, Forward, Starting, Writing
<1>2. CASE MakeDirectory \/ PathReady \/ OpenDirectory \/ OperationFails
  BY <1>1, <1>2, BackupInvKept DEF MakeDirectory, PathReady, OpenDirectory, OperationFails
<1>3. CASE Publish
  BY <1>1, <1>3, BackupInvKept DEF Publish, Applied
<1>4. CASE UndoFile \/ Restore \/ UndoDirectory \/ NothingToUndo \/ UndoFails
  BY <1>4, BackupInvKept DEF UndoFile, Restore, UndoDirectory, NothingToUndo, UndoFails, Undone, CannotUndo
<1>5. CASE JournalUndone \/ Sweep \/ ReportFailure \/ Kill
  <2>1. UNCHANGED <<plan, journal>> /\ phase' \in {"cleanup", "done", "killed"}
    BY <1>5, Zenon DEF JournalUndone, Sweep, ReportFailure, Kill
  <2> QED BY <2>1, BackupInvKept
<1> QED BY <1>2, <1>3, <1>4, <1>5, Zenon DEF SharedSteps

LEMMA CopyKeepsBackup ==
    ASSUME NEW f \in Files, BackupTypeOK, ChangeInv, BackupInv, CopyToBackup(f)
    PROVE  BackupInv'
<1>1. /\ phase = "copy" /\ UNCHANGED <<plan, phase, pc, journal>>
  BY DEF CopyToBackup, control
<1>2. journal = {}
  BY <1>1 DEF BackupInv
<1> QED BY <1>1, <1>2 DEF BackupInv, Forward

(* What a lost copy leaves uncovered has begun before it was lost.          *)
LEMMA PruneKeepsBackup ==
    ASSUME NEW f \in Files, BackupTypeOK, ChangeInv, BackupInv, PruneBackup(f)
    PROVE  BackupInv'
<1>1. /\ UNCHANGED <<plan, phase, pc, journal>> /\ phase \notin {"done", "killed"}
      /\ pruned' = IF phase = "begin" THEN pc ELSE pc + 1
  BY DEF PruneBackup, control, Running
<1>2. pc \in Nat /\ phase \in Phases /\ journal \subseteq Nat
  BY PlanFacts DEF ChangeInv, ChangeTypeOK
<1>3. ASSUME NEW i \in journal PROVE i < pruned'
  <2>1. phase \notin Cleaning /\ phase \in Forward \union Undoing
    BY <1>1, <1>2, <1>3, Zenon DEF Phases, Forward, Undoing, Cleaning, ChangeInv, JournalInv
  <2>2. i \in 1..pc
    BY <1>3, <2>1, Zenon DEF ChangeInv, JournalInv
  <2>3. phase = "begin" => i # pc
    BY <1>3 DEF BackupInv, Forward
  <2> QED BY <1>1, <1>2, <2>2, <2>3
<1>4. phase \in Writing => pc < pruned'
  BY <1>1, <1>2 DEF Writing
<1> QED BY <1>1, <1>3, <1>4 DEF BackupInv, Covered, Writing

LEMMA BackupKept ==
    ASSUME ChangeInv, BackupTypeOK, BackupInv, [Next]_vars
    PROVE  BackupInv'
<1>1. CASE OwnSteps
  BY <1>1, OwnKeepsBackup
<1>2. CASE BackupSteps
  BY <1>2, CopyKeepsBackup, PruneKeepsBackup DEF BackupSteps
<1>3. CASE SharedSteps /\ UNCHANGED backupVars
  BY <1>3, SharedKeepsBackup
<1>4. CASE CleanUpMutation /\ UNCHANGED backupVars
  <2>1. UNCHANGED <<plan, journal>> /\ phase' \in {"cleanup", "sweep"}
    BY <1>4, CleanUpLeads DEF CleanUpMutation
  <2> QED BY <1>4, <2>1, BackupInvKept DEF Forward, Starting, Writing
<1>5. CASE (Edit /\ UNCHANGED backupVars) \/ UNCHANGED vars
  <2>1. UNCHANGED <<plan, phase, pc, journal, backupVars>>
    BY <1>5 DEF Edit, control, vars
  <2>2. \A i : Covered(i) => Covered(i)'
    BY <2>1, CoveredKept
  <2> QED BY <2>1, <2>2 DEF BackupInv
<1> QED BY <1>1, <1>2, <1>3, <1>4, <1>5, NextCases

-----------------------------------------------------------------------------
LEMMA TraceEstablished == Init => TraceInv /\ BackupInv
<1> SUFFICES ASSUME Init PROVE TraceInv /\ BackupInv
  OBVIOUS
<1>1. phase = "validate" /\ journal = {} /\ touched = {} /\ outcome = "running"
  BY DEF Init, ChangeInit, TreeOf
<1> QED BY <1>1 DEF TraceInv, OrderInv, LookInv, EndInv, BackupInv

(* The order of the journal, what was last seen of a destination, and the   *)
(* coverage of the backup, on top of MutationInvariant.                     *)
THEOREM TraceInvariant == Spec => [](MutationInv /\ TraceInv /\ BackupInv)
<1>1. MutationInv /\ TraceInv /\ BackupInv /\ [Next]_vars => (MutationInv /\ TraceInv /\ BackupInv)'
  BY StepKeeps, TraceKept, BackupKept DEF MutationInv
<1> QED BY <1>1, InitKeeps, TraceEstablished, PTL DEF Spec

(* The state record of an update or uninstall never runs ahead of the disk, *)
(* not even in a process killed half way (applyMutationPlan).               *)
THEOREM StateTrails == Spec => []StateTrailsDisk
<1>1. MutationInv /\ TraceInv => StateTrailsDisk
  BY StateTrailsDiskHolds DEF MutationInv, TraceInv
<1> QED BY <1>1, TraceInvariant, PTL

(* Whatever copies are lost meanwhile, a forced operation destroys no bytes *)
(* the backup does not hold (verifyActiveMutationBackup).                   *)
THEOREM BackupCovers == Spec => []BackupCoversLoss
<1>1. BackupInv => BackupCoversLoss
  BY DEF BackupInv, Covered, BackupCoversLoss
<1> QED BY <1>1, TraceInvariant, PTL

-----------------------------------------------------------------------------
(* What no step destroys *)

LEMMA StepSpares ==
    ASSUME ChangeInv, TraceInv, [Next]_vars
    PROVE  SparesAll
<1>1. CASE Rmdir
  <2>1. phase = "rmdir" /\ UNCHANGED files
    BY <1>1 DEF Rmdir
  <2> QED BY <2>1 DEF TraceInv, LookInv, SparesAll, SparesAlien, SparesDirectory
<1>2. CASE OwnSteps /\ ~Rmdir
  BY <1>2, QuietSpares, Zenon DEF OwnSteps, Validate, OpenBackup, WriteManifest, Begin, RequirePlanned, LookAgain,
     FindRemoved, RemoveDirectory, Complete
<1>3. CASE BackupSteps \/ UNCHANGED vars
  BY <1>3, QuietSpares DEF BackupSteps, CopyToBackup, PruneBackup, vars
<1>4. CASE SharedSteps
  BY <1>4, SharedSpares DEF TraceInv
<1>5. CASE CleanUpMutation
  BY <1>5, CleanUpLeads, QuietSpares DEF CleanUpMutation
<1>6. CASE Edit
  BY <1>6, EditSpares
<1> QED BY <1>1, <1>2, <1>3, <1>4, <1>5, <1>6, NextCases

(* No step of an update or uninstall destroys bytes its plan does not       *)
(* account for, or a directory of somebody else's, unless they arrived      *)
(* after the last look at them.                                             *)
THEOREM EditsAreSpared == Spec => EditsSurvive
<1>1. ChangeInv /\ TraceInv /\ [Next]_vars =>
        [/\ \A f \in Files : SparesAlien(f)
         /\ \A d \in Dirs : SparesDirectory(d)]_vars
  BY StepSpares DEF SparesAll
<1>2. MutationInv => ChangeInv
  BY DEF MutationInv
<1> QED BY <1>1, <1>2, TraceInvariant, PTL DEF Spec, EditsSurvive

-----------------------------------------------------------------------------
(* The refinement *)

LEMMA AloneIsAtomic ==
    ASSUME MaxEdits = 0, ChangeInv, TraceInv, TrueVerdict, TrueVerdict', [Next]_vars
    PROVE  [Atomic!Next]_(Atomic!vars)
<1>1. ~(edits < MaxEdits)
  BY DEF ChangeInv, TreeTypeOK
<1>2. ~Edit /\ \A f \in Files : ~PruneBackup(f)
  BY <1>1 DEF Edit, EditTree, EditFile, EditDirectory, PruneBackup
<1>3. CASE OwnSteps
  <2>1. UNCHANGED <<plan, files>>
    BY <1>3 DEF OwnSteps, Validate, OpenBackup, WriteManifest, Begin, RequirePlanned, LookAgain, FindRemoved,
                RemoveDirectory, Rmdir, Complete, tree
  <2>2. ~Ended
    BY <1>3, OwnLeads, Zenon DEF Ended
  <2> QED BY <2>1, <2>2, StepIsAtomic
<1>4. CASE SharedSteps
  <2>1. ~Ended
    BY <1>4, SharedLeads, Zenon DEF Ended
  <2>2. UNCHANGED plan
    BY <1>4, SharedJournaling DEF Journaling
  <2> QED BY <1>4, <2>1, <2>2, SharedChangesOneFile, StepIsAtomic
<1>5. CASE CleanUpMutation
  <2>1. UNCHANGED <<plan, tree>> /\ phase \in {"cleanup", "sweep"}
    BY <1>5, CleanUpLeads DEF CleanUpMutation
  <2> QED BY <2>1, StepIsAtomic DEF Ended, tree
<1>6. ASSUME NEW f \in Files, CopyToBackup(f) PROVE [Atomic!Next]_(Atomic!vars)
  BY <1>6, StepIsAtomic DEF CopyToBackup, tree, control, Ended
<1>7. CASE UNCHANGED vars
  BY <1>7, StillIsAtomic DEF vars
<1> QED BY <1>2, <1>3, <1>4, <1>5, <1>6, <1>7, NextCases DEF BackupSteps

(* With no other process about, an update or uninstall that concludes is    *)
(* one atomic change of its files: all of them, or none, or a report that   *)
(* it could not restore them.                                               *)
THEOREM AtomicWhenAlone == MaxEdits = 0 => (Spec /\ Concludes => ImplementsAtomicChange)
<1> SUFFICES ASSUME MaxEdits = 0 PROVE Spec /\ Concludes => ImplementsAtomicChange
  OBVIOUS
<1>1. MutationInv /\ TraceInv /\ BackupInv => TrueVerdict /\ ChangeInv /\ TraceInv
  BY VerdictIsTrue DEF MutationInv, TraceInv, EndInv, ChangeInv, TreeTypeOK
<1>2. ChangeInv /\ TraceInv /\ TrueVerdict /\ TrueVerdict' /\ [Next]_vars => [Atomic!Next]_(Atomic!vars)
  BY AloneIsAtomic
<1>3. Init => Atomic!Init
  BY InitIsAtomic DEF Init
<1>4. TrueVerdict /\ phase \in {"done", "killed"} => Verdict # "open"
  BY DEF TrueVerdict, Ended
<1> QED BY <1>1, <1>2, <1>3, <1>4, TraceInvariant, PTL
        DEF Spec, Concludes, ImplementsAtomicChange, Atomic!Spec, Atomic!Ends
=============================================================================
