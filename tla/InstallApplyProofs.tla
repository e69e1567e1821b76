------------------------- MODULE InstallApplyProofs -------------------------
(***************************************************************************)
(* Proofs that the application of an install keeps its types, that a       *)
(* success is complete and that a plain failure has put every file back,   *)
(* that the state record trails the disk and edits are safe, and that it   *)
(* implements AtomicChange when nobody else is about; for any plans,       *)
(* paths, contents and number of edits.                                    *)
(***************************************************************************)
EXTENDS InstallApply, PreparedChangeProofs

RecordTypeOK == /\ recorded \subseteq created
                /\ replaced \subseteq recorded
                /\ blind \in BOOLEAN

(* Nobody else has touched a directory, and every inspection of one has     *)
(* succeeded while recording.                                               *)
Calm == ~blind /\ touched \intersect Dirs = {}

(* A directory made on the way is gone, or holds something of somebody's.   *)
Occupied(d) == \E f \in touched : \E j \in DOMAIN Above[f] : Above[f][j] = d
Cleared(j) == LET d == plan.planned[j]
              IN d \in created => ~Standing(d) \/ Occupied(d)

(* When it is calm, every directory made is recorded by the time of the     *)
(* rollback, and the cleanup has taken away those it has passed.            *)
OnWay == Forward \ {"validate"}
Settled == {"validate", "begin", "rollback", "restore", "cleanup", "sweep"}
RecordInv ==
    Calm => /\ replaced = {}
            /\ phase = "validate" => created = {}
            /\ phase \in Settled => recorded = created
            /\ \A d \in Dirs : Standing(d) => d \in plan.standing \union created
            /\ phase \in OnWay => \A d \in OnTheWay : Standing(d) \/ d \in PlannedSet
            /\ phase \in Cleaning /\ ~broken => \A j \in DOMAIN plan.planned : j > pc => Cleared(j)
            /\ outcome = "failed" => \A j \in DOMAIN plan.planned : Cleared(j)

InstallInv == ChangeInv /\ RecordTypeOK /\ RecordInv

-----------------------------------------------------------------------------
(* The steps of an install that are its own keep ChangeInv.                 *)

LEMMA AllInstalls == ChangeInv => Installing
  BY InstallPlansAssumption DEF ChangeInv, ChangeTypeOK, Installing

LEMMA ValidateKeeps == ChangeInv /\ Validate => ChangeInv'
<1> SUFFICES ASSUME ChangeInv, Validate PROVE ChangeInv'
  OBVIOUS
<1>1. /\ phase = "validate"
      /\ \/ phase' = "begin" /\ outcome' = outcome
         \/ phase' = "done" /\ outcome' \in {"refused", "predicted"}
      /\ UNCHANGED <<plan, files, dirs, pc, journal, created, held, broken, edits, touched>>
  BY DEF Validate, Goto, Finish, tree, editorVars
<1>2. held' \in [file : FileNodes, parent : DirNodes] /\ HeldInv'
  BY <1>1 DEF ChangeInv, ChangeTypeOK, HeldInv
<1> QED BY <1>1, <1>2, MovingOnKeeps DEF Forward

LEMMA BeginKeeps == ChangeInv /\ Begin => ChangeInv'
<1> SUFFICES ASSUME ChangeInv, Begin PROVE ChangeInv'
  OBVIOUS
<1>1. /\ phase = "begin" /\ pc \in DOMAIN Steps(plan) /\ plan \in Plans
      /\ UNCHANGED <<plan, files, dirs, journal, created, held, broken, edits, touched>>
  BY DEF Begin, tree, editorVars, ChangeInv, ChangeTypeOK
<1>2. pc \in FileSteps /\ Current.effect = "replace"
  BY <1>1, InstallPlansAssumption DEF FileSteps, IsFile, FileEffects, Current
<1>3. phase' \in {"abandon", "record", "walk"} /\ pc' = pc /\ outcome' = outcome
  BY AllInstalls DEF Begin, Goto, Fail
<1>4. phase' = "record" => ~Changes(pc)
  BY <1>2 DEF Begin, Goto, Fail, Changes, After, Current
<1>5. held' \in [file : FileNodes, parent : DirNodes] /\ HeldInv'
  BY <1>1, <1>3 DEF ChangeInv, ChangeTypeOK, HeldInv
<1> QED BY <1>1, <1>2, <1>3, <1>4, <1>5, MovingOnKeeps DEF Forward

LEMMA LookAgainKeeps == ChangeInv /\ LookAgain => ChangeInv'
<1> SUFFICES ASSUME ChangeInv, LookAgain PROVE ChangeInv'
  OBVIOUS
<1>1. /\ phase = "look" /\ phase' \in {"publish", "abandon"}
      /\ UNCHANGED <<plan, files, dirs, pc, journal, created, broken, outcome, edits, touched>>
      /\ \/ phase' # "publish" /\ held' = held
         \/ held' = Seen(Current.path)
  BY AllInstalls DEF LookAgain, Goto, Fail, tree, editorVars
<1>2. TreeTypeOK /\ ChangeTypeOK /\ pc \in FileSteps /\ Current.path \in Files
  BY <1>1, CurrentFacts DEF ChangeInv, Position, FileSteps
<1>3. held' \in [file : FileNodes, parent : DirNodes]
  BY <1>1, <1>2, SeenFacts DEF ChangeTypeOK
<1>4. HeldInv'
  BY <1>1 DEF HeldInv, Seen, Current, DirNode
<1> QED BY <1>1, <1>2, <1>3, <1>4, MovingOnKeeps DEF Forward

LEMMA RecordKeeps == ChangeInv /\ Record => ChangeInv'
<1> SUFFICES ASSUME ChangeInv, Record PROVE ChangeInv'
  OBVIOUS
<1>1. /\ phase = "record" /\ NextAction
      /\ UNCHANGED <<plan, files, dirs, journal, created, held, broken, edits, touched>>
  BY DEF Record, Records, tree, editorVars
<1>2. pc \in FileSteps /\ Changes(pc) => pc \in journal
  BY <1>1 DEF ChangeInv, ProgressInv
<1> QED BY <1>1, <1>2, SkippingKeeps DEF Forward

LEMMA RecordFailsKeeps == ChangeInv /\ RecordFails => ChangeInv'
<1> SUFFICES ASSUME ChangeInv, RecordFails PROVE ChangeInv'
  OBVIOUS
<1>1. /\ phase = "record" /\ phase' = "rollback" /\ pc' = pc /\ outcome' = outcome
      /\ UNCHANGED <<plan, files, dirs, journal, created, held, broken, edits, touched>>
  BY DEF RecordFails, Records, Goto, tree, editorVars
<1>2. held' \in [file : FileNodes, parent : DirNodes] /\ HeldInv'
  BY <1>1 DEF ChangeInv, ChangeTypeOK, HeldInv
<1> QED BY <1>1, <1>2, MovingOnKeeps DEF Forward

LEMMA AbandonKeeps == ChangeInv /\ Abandon => ChangeInv'
<1> SUFFICES ASSUME ChangeInv, Abandon PROVE ChangeInv'
  OBVIOUS
<1>1. /\ phase = "abandon" /\ phase' = "rollback"
      /\ UNCHANGED <<plan, files, dirs, pc, journal, created, held, broken, outcome, edits, touched>>
  BY DEF Abandon, Records, Goto, tree, editorVars
<1>2. TreeTypeOK' /\ ChangeTypeOK'
  BY <1>1 DEF ChangeInv, TreeTypeOK, ChangeTypeOK, Phases
<1>3. Position' /\ JournalInv' /\ ProgressInv' /\ HeldInv'
  BY <1>1 DEF ChangeInv, Position, JournalInv, ProgressInv, HeldInv, FileSteps, Changes,
              Forward, Undoing, Cleaning
<1>4. FilesInv' /\ CreatedInv'
  BY <1>1, FilesInvKept, CreatedInvKept DEF ChangeInv, Undoing
<1> QED BY <1>2, <1>3, <1>4 DEF ChangeInv

LEMMA CompleteKeeps == ChangeInv /\ Complete => ChangeInv'
<1> SUFFICES ASSUME ChangeInv, Complete PROVE ChangeInv'
  OBVIOUS
<1>1. /\ phase = "begin" /\ pc \notin DOMAIN Steps(plan)
      /\ UNCHANGED <<plan, files, dirs, journal, created, held, broken, edits, touched>>
  BY DEF Complete, tree, editorVars
<1>2. CASE PlannedSet \subseteq created /\ Finish("committed")
  <2>1. phase' = "done" /\ outcome' = "committed" /\ pc' = pc
    BY <1>2 DEF Finish
  <2>2. TreeTypeOK' /\ ChangeTypeOK' /\ Position' /\ HeldInv'
    BY <1>1, <2>1 DEF ChangeInv, TreeTypeOK, ChangeTypeOK, Phases, Outcomes, Position, HeldInv, Forward
  <2>3. JournalInv' /\ ProgressInv'
    BY <1>1, <2>1 DEF ChangeInv, JournalInv, ProgressInv, Position, FileSteps, Changes, Forward, Undoing,
                      Cleaning
  <2>4. FilesInv' /\ CreatedInv'
    BY <1>1, <1>2, <2>1, FilesInvKept DEF ChangeInv, CreatedInv, PlannedSet, Untouched, Forward
  <2> QED BY <2>2, <2>3, <2>4 DEF ChangeInv
<1>3. CASE Goto("rollback")
  <2>1. phase' = "rollback" /\ pc' = pc /\ outcome' = outcome
    BY <1>3 DEF Goto
  <2> QED BY <1>1, <2>1, MovingOnKeeps DEF Forward, HeldInv, ChangeInv, ChangeTypeOK
<1> QED BY <1>2, <1>3 DEF Complete

LEMMA SharedKeeps == InstallInv /\ Shared => ChangeInv'
<1> SUFFICES ASSUME InstallInv, Shared PROVE ChangeInv'
  OBVIOUS
<1>1. ChangeInv /\ recorded \subseteq Dirs
  BY DEF InstallInv, RecordTypeOK, ChangeInv, ChangeTypeOK
<1> QED BY <1>1, PathReadyKeeps, OpenDirectoryKeeps, PublishKeeps, OperationFailsKeeps, UndoFileKeeps,
           RestoreKeeps, NothingToUndoKeeps, UndoFailsKeeps, JournalUndoneKeeps, CleanUpKeeps,
           CleanUpFailsKeeps, SweepKeeps, ReportFailureKeeps
        DEF Shared, CleanUpInstall

-----------------------------------------------------------------------------
(* What has been recorded *)

LEMMA RecordTypeKept == InstallInv /\ [Next]_vars => RecordTypeOK'
<1> SUFFICES ASSUME InstallInv, [Next]_vars PROVE RecordTypeOK'
  OBVIOUS
<1> USE DEF InstallInv, RecordTypeOK
<1>1. CASE UNCHANGED <<created, installVars>>
  BY <1>1 DEF installVars
<1>2. CASE MakeInstallDirectory
  <2>1. created \subseteq created'
    BY <1>2 DEF MakeInstallDirectory, MakeDirectory
  <2> QED BY <1>2, <2>1 DEF MakeInstallDirectory
<1>3. ASSUME NEW reached \in SUBSET Sound, Records(reached) PROVE RecordTypeOK'
  <2>1. reached \subseteq created
    BY DEF Sound, Unrecorded
  <2>2. blind' \in BOOLEAN
    BY <1>3, Zenon DEF Records
  <2> QED BY <1>3, <2>1, <2>2 DEF Records
<1>4. CASE Record \/ RecordFails \/ Abandon
  <2>1. Record => Unrecorded \in SUBSET Sound /\ Records(Unrecorded)
    BY DEF Record
  <2> QED BY <1>3, <1>4, <2>1 DEF RecordFails, Abandon
<1>5. CASE Validate \/ Begin \/ LookAgain \/ Complete
  BY <1>1, <1>5 DEF Validate, Begin, LookAgain, Complete
<1>6. CASE Shared /\ UNCHANGED installVars
  <2>1. UNCHANGED created
    BY <1>6 DEF Shared, PathReady, OpenDirectory, Publish, OperationFails, UndoFile, Restore,
                NothingToUndo, UndoFails, JournalUndone, CleanUpInstall, CleanUp, CleanUpFails, Sweep,
                ReportFailure
  <2> QED BY <1>1, <1>6, <2>1
<1>7. CASE (Edit \/ Kill) /\ UNCHANGED installVars
  BY <1>1, <1>7 DEF Edit, Kill, control
<1>8. CASE UNCHANGED vars
  BY <1>1, <1>8 DEF vars, control
<1> QED BY <1>2, <1>4, <1>5, <1>6, <1>7, <1>8 DEF Next, Process

-----------------------------------------------------------------------------
(* The directories recorded and cleaned up *)

LEMMA StandingDir ==
    ASSUME NEW d \in Dirs
    PROVE  Standing(d) <=> dirs[d] # "missing"
  BY PathsAssumption DEF Standing, DirNode, Paths

(* A step that leaves the directories and what is known of them alone       *)
LEMMA QuietKeeps ==
    ASSUME RecordInv, UNCHANGED <<plan, dirs, created, recorded, replaced>>,
           touched \subseteq touched', blind => blind',
           phase' = "validate" => phase = "validate",
           phase' \in Settled => phase \in Settled,
           Calm /\ phase' \in OnWay => \A d \in OnTheWay : Standing(d) \/ d \in PlannedSet,
           Calm /\ phase' \in Cleaning /\ ~broken' => \A j \in DOMAIN plan.planned : j > pc' => Cleared(j),
           Calm /\ outcome' = "failed" => \A j \in DOMAIN plan.planned : Cleared(j)
    PROVE  RecordInv'
<1> SUFFICES ASSUME Calm' PROVE RecordInv'
  BY DEF RecordInv
<1>1. Calm
  BY DEF Calm
<1>2. /\ OnTheWay' = OnTheWay /\ PlannedSet' = PlannedSet
      /\ \A p : Standing(p)' <=> Standing(p)
      /\ \A d : Occupied(d) => Occupied(d)'
  BY DEF OnTheWay, PlannedSet, Standing, DirNode, Occupied
<1>3. \A j \in DOMAIN plan.planned : Cleared(j) => Cleared(j)'
  BY <1>2 DEF Cleared
<1> QED BY <1>1, <1>2, <1>3 DEF RecordInv

(* Steps before a failure, up to the record, and of the rollback            *)
OwnMoves == Begin \/ LookAgain \/ Complete
SharedMoves == \/ PathReady \/ OpenDirectory \/ Publish \/ OperationFails \/ UndoFile \/ Restore
               \/ NothingToUndo \/ UndoFails \/ JournalUndone \/ Kill
LEMMA MovesKeepRecord ==
    ChangeInv /\ RecordInv /\ (OwnMoves \/ (SharedMoves /\ UNCHANGED installVars)) => RecordInv'
<1> SUFFICES ASSUME ChangeInv, RecordInv, OwnMoves \/ (SharedMoves /\ UNCHANGED installVars)
             PROVE  RecordInv'
  OBVIOUS
<1> USE DEF OwnMoves, SharedMoves
<1> USE DEF OnWay, Forward, Settled, Cleaning
<1>1. Installing
  BY AllInstalls
<1>2. UNCHANGED <<plan, dirs, created, recorded, replaced, blind, touched>> /\ outcome # "failed"
  BY DEF ChangeInv, JournalInv, Begin, LookAgain, Complete, PathReady, OpenDirectory, Publish, OperationFails, UndoFile,
         Restore, NothingToUndo, UndoFails, JournalUndone, Kill, Running, tree, editorVars, installVars
<1>3. CASE Begin \/ LookAgain \/ Complete \/ PathReady \/ OpenDirectory \/ Publish \/ OperationFails
  <2>1. /\ phase \in OnWay /\ phase' \in (OnWay \ {"begin"}) \union {"abandon", "rollback", "done"}
        /\ phase' = "rollback" => phase = "begin"
        /\ outcome' # "failed"
    BY <1>1, <1>2, <1>3
       DEF Begin, LookAgain, Complete, PathReady, OpenDirectory, Publish, OperationFails, Goto, Fail, Finish,
           Applied
  <2> QED BY <1>2, <2>1, QuietKeeps DEF RecordInv
<1>4. CASE UndoFile \/ Restore \/ NothingToUndo \/ UndoFails
  <2>1. phase \in {"rollback", "restore"} /\ phase' \in {"rollback", "restore"} /\ outcome' # "failed"
    BY <1>2, <1>4 DEF UndoFile, Restore, NothingToUndo, UndoFails, Goto, Undone, CannotUndo
  <2> QED BY <1>2, <2>1, QuietKeeps
<1>5. CASE JournalUndone
  <2>1. phase = "rollback" /\ phase' = "cleanup" /\ pc' = Len(plan.planned) /\ outcome' # "failed"
    BY <1>2, <1>5 DEF JournalUndone
  <2>2. \A j \in DOMAIN plan.planned : ~(j > pc')
    BY <2>1, PlannedFacts DEF ChangeInv
  <2> QED BY <1>2, <2>1, <2>2, QuietKeeps
<1>6. CASE Kill
  <2>1. phase' = "killed" /\ outcome' # "failed"
    BY <1>2, <1>6 DEF Kill
  <2> QED BY <1>2, <2>1, QuietKeeps
<1> QED BY <1>3, <1>4, <1>5, <1>6

LEMMA ValidateKeepsRecord == ChangeInv /\ RecordInv /\ Validate => RecordInv'
<1> SUFFICES ASSUME ChangeInv, RecordInv, Validate PROVE RecordInv'
  OBVIOUS
<1>1. /\ phase = "validate" /\ phase' \in {"begin", "done"} /\ outcome' # "failed"
      /\ phase' = "begin" => PreparesTheSame
      /\ UNCHANGED <<plan, dirs, created, recorded, replaced, blind, touched>>
  BY DEF Validate, Goto, Finish, tree, editorVars, installVars, ChangeInv, JournalInv
<1>2. PreparesTheSame => \A d \in OnTheWay : Standing(d) \/ d \in PlannedSet
  BY StandingDir DEF PreparesTheSame, OnTheWay
<1> QED BY <1>1, <1>2, QuietKeeps DEF OnWay, Forward, Settled, Cleaning

LEMMA MakeDirectoryKeepsRecord == ChangeInv /\ RecordTypeOK /\ RecordInv /\ MakeInstallDirectory => RecordInv'
<1> SUFFICES ASSUME ChangeInv, RecordTypeOK, RecordInv, MakeInstallDirectory, Calm' PROVE RecordInv'
  BY DEF RecordInv
<1>1. PICK i \in DOMAIN Above[Current.path] :
         /\ FirstMissing(Current.path, i)
         /\ dirs' = [dirs EXCEPT ![Above[Current.path][i]] = "engine"]
         /\ created' = created \union ({Above[Current.path][i]} \intersect PlannedSet)
  BY DEF MakeInstallDirectory, MakeDirectory
<1>2. PICK d : d = Above[Current.path][i]
  OBVIOUS
<1>3. /\ phase = "walk" /\ replaced' = replaced \union {e \in recorded : dirs'[e] # dirs[e]}
      /\ UNCHANGED <<plan, files, phase, pc, touched, outcome, recorded, blind>>
  BY DEF MakeInstallDirectory, MakeDirectory, editorVars
<1>4. Calm /\ outcome = "running" /\ TreeTypeOK /\ ChangeTypeOK
  BY <1>3 DEF Calm, ChangeInv, JournalInv
<1>5. pc \in DOMAIN Steps(plan) /\ Current.path \in Paths
  BY <1>3, <1>4, CurrentFacts DEF ChangeInv, Position, FileSteps, Forward, Paths
<1>6. d \in Dirs /\ d \in OnTheWay
  BY <1>2, <1>5, PathsAssumption DEF OnTheWay, Current
<1>7. ~Standing(d) /\ dirs[d] = "missing"
  BY <1>1, <1>2, <1>6, StandingDir DEF FirstMissing
<1>8. d \in PlannedSet
  BY <1>3, <1>4, <1>6, <1>7 DEF RecordInv, OnWay, Forward
<1>9. replaced' = {}
  <2>1. \A e \in recorded : e \in created /\ Untouched(e)
    BY <1>4 DEF RecordTypeOK, Calm, Untouched, ChangeTypeOK
  <2>2. \A e \in recorded : dirs[e] = "engine"
    BY <1>3, <2>1 DEF ChangeInv, CreatedInv, Forward
  <2>3. \A e \in recorded : e # d /\ e \in Dirs
    BY <1>4, <1>7, <2>1, <2>2 DEF ChangeTypeOK
  <2>4. \A e \in recorded : dirs'[e] = dirs[e]
    BY <1>1, <1>2, <1>4, <2>3 DEF TreeTypeOK
  <2> QED BY <1>3, <1>4, <2>4 DEF RecordInv
<1>10. \A e \in Dirs : Standing(e)' => e \in (plan.standing \union created)'
  <2> SUFFICES ASSUME NEW e \in Dirs, Standing(e)' PROVE e \in plan.standing \union created'
    BY <1>3
  <2>1. dirs'[e] # "missing"
    BY PathsAssumption DEF Standing, DirNode, Paths
  <2>2. CASE e = d
    BY <1>1, <1>2, <1>8, <2>2
  <2>3. CASE e # d
    BY <1>1, <1>2, <1>4, <2>1, <2>3, StandingDir DEF TreeTypeOK, RecordInv
  <2> QED BY <2>2, <2>3
<1>11. \A e \in OnTheWay' : Standing(e)' \/ e \in PlannedSet'
  <2>1. OnTheWay' = OnTheWay /\ PlannedSet' = PlannedSet /\ OnTheWay \subseteq Dirs
    BY <1>3 DEF OnTheWay, PlannedSet
  <2>2. ASSUME NEW e \in OnTheWay, e \notin PlannedSet PROVE Standing(e)'
    <3>1. dirs[e] # "missing" /\ e # d
      BY <1>3, <1>4, <1>8, <2>1, <2>2, StandingDir DEF RecordInv, OnWay, Forward
    <3>2. dirs'[e] # "missing"
      BY <1>1, <1>2, <1>4, <2>1, <3>1 DEF TreeTypeOK
    <3> QED BY <2>1, <3>2, PathsAssumption DEF Standing, DirNode, Paths
  <2> QED BY <2>1, <2>2
<1> QED BY <1>3, <1>4, <1>9, <1>10, <1>11 DEF RecordInv, Settled, Cleaning

LEMMA RecordingKeepsRecord ==
    ChangeInv /\ RecordTypeOK /\ RecordInv /\ (Record \/ RecordFails \/ Abandon) => RecordInv'
<1> SUFFICES ASSUME ChangeInv, RecordTypeOK, RecordInv, Record \/ RecordFails \/ Abandon, Calm'
             PROVE  RecordInv'
  BY DEF RecordInv
<1>1. /\ phase \in {"record", "abandon"} /\ phase' \in {"begin", "rollback"}
      /\ phase' = "begin" => phase = "record"
      /\ UNCHANGED <<plan, dirs, created, outcome, touched, replaced>>
  BY DEF Record, RecordFails, Abandon, Records, NextAction, Goto, tree, editorVars
<1>2. PICK reached \in SUBSET Sound : Records(reached)
  BY DEF Record, RecordFails, Abandon
<1>3. Calm /\ (reached = Unrecorded \/ Unrecorded # Sound)
  <2>1. CASE Unrecorded = Sound /\ reached # Unrecorded
    BY <1>2, <2>1, Zenon DEF Records, Calm
  <2>2. CASE blind
    BY <1>2, <2>2, Zenon DEF Records, Calm
  <2> QED BY <1>1, <2>1, <2>2 DEF Calm
<1>4. touched \intersect Dirs = {}
  BY <1>1 DEF Calm
<1>5. Unrecorded = Sound
  <2>1. \A d \in created : d \in Dirs /\ Untouched(d)
    BY <1>4 DEF ChangeInv, ChangeTypeOK, Untouched
  <2>2. \A d \in created : dirs[d] = "engine"
    BY <1>1, <2>1 DEF ChangeInv, CreatedInv, Forward, Undoing
  <2> QED BY <2>2 DEF Unrecorded, Sound
<1>6. Calm /\ recorded' = created'
  BY <1>1, <1>2, <1>3, <1>5 DEF Records, Unrecorded, RecordTypeOK
<1>7. /\ OnTheWay' = OnTheWay /\ PlannedSet' = PlannedSet
      /\ \A p : Standing(p)' <=> Standing(p)
  BY <1>1 DEF OnTheWay, PlannedSet, Standing, DirNode
<1>8. outcome # "failed"
  BY <1>1 DEF ChangeInv, JournalInv
<1> QED BY <1>1, <1>6, <1>7, <1>8 DEF RecordInv, OnWay, Forward, Settled, Cleaning

(* The cleanup: one directory is passed over, reported or taken away.       *)
LEMMA PassingKeepsRecord ==
    ChangeInv /\ RecordInv /\ (CleanUpInstall \/ ReportFailure) /\ UNCHANGED installVars => RecordInv'
<1> SUFFICES ASSUME ChangeInv, RecordInv, CleanUpInstall \/ ReportFailure, UNCHANGED installVars
             PROVE  RecordInv'
  OBVIOUS
<1>1. /\ phase \in Cleaning /\ phase' \in Cleaning \union {"done"}
      /\ UNCHANGED <<plan, dirs, created, recorded, replaced, blind, touched>> /\ outcome # "failed"
  BY DEF ChangeInv, JournalInv, CleanUpInstall, CleanUp, CleanUpFails, ReportFailure, Finish, Cleaning,
         tree, editorVars, installVars
<1>2. pc \in Nat /\ DOMAIN plan.planned \subseteq Nat
  BY PlannedFacts DEF ChangeInv, ChangeTypeOK
<1>3. CASE CleanUp(recorded, {}, Own)
  <2>1. ASSUME Calm, ~broken', NEW j \in DOMAIN plan.planned, j > pc' PROVE Cleared(j)
    <3>1. ~broken /\ (plan.planned[pc] \in recorded => plan.planned[pc] \in Own /\ pc' = pc)
      BY <1>3, <2>1, Zenon DEF CleanUp
    <3>2. pc' = pc \/ (pc' = pc - 1 /\ plan.planned[pc] \notin created)
      BY <1>1, <1>3, <2>1, <3>1 DEF CleanUp, RecordInv, Settled, Cleaning
    <3>3. CASE j > pc
      BY <1>1, <2>1, <3>1, <3>3 DEF RecordInv
    <3>4. CASE ~(j > pc)
      <4>1. j = pc /\ plan.planned[pc] \notin created
        BY <1>2, <2>1, <3>2, <3>4
      <4> QED BY <4>1 DEF Cleared
    <3> QED BY <3>3, <3>4
  <2>2. phase' \in Cleaning /\ outcome' # "failed"
    BY <1>1, <1>3 DEF CleanUp, Cleaning
  <2> QED BY <1>1, <2>1, <2>2, QuietKeeps DEF OnWay, Forward, Settled, Cleaning
<1>4. CASE CleanUpFails(recorded)
  <2>1. broken' /\ phase' = "cleanup" /\ outcome' # "failed"
    BY <1>1, <1>4, Zenon DEF CleanUpFails
  <2> QED BY <1>1, <2>1, QuietKeeps DEF OnWay, Forward, Settled, Cleaning
<1>5. CASE ReportFailure
  <2>1. phase = "cleanup" /\ pc = 0 /\ phase' = "done" /\ (outcome' = "failed" => ~broken)
    BY <1>5 DEF ReportFailure, Finish
  <2>2. \A j \in DOMAIN plan.planned : j > pc
    BY <2>1, PlannedFacts DEF ChangeInv
  <2>3. Calm /\ ~broken => \A j \in DOMAIN plan.planned : Cleared(j)
    BY <1>1, <2>2 DEF RecordInv
  <2> QED BY <1>1, <2>1, <2>3, QuietKeeps DEF OnWay, Forward, Settled, Cleaning
<1> QED BY <1>3, <1>4, <1>5 DEF CleanUpInstall

(* A directory of this run that is not empty holds something of somebody's. *)
LEMMA NotEmptyIsOccupied ==
    ASSUME ChangeInv, RecordInv, Calm, ~broken, phase = "sweep",
           NEW d \in created, d = plan.planned[pc], ~Empty(d)
    PROVE  Occupied(d)
<1>1. /\ TreeTypeOK /\ plan \in Plans /\ d \in Dirs /\ d \in PlannedSet /\ d \notin plan.standing /\ d # Root
      /\ pc \in DOMAIN plan.planned /\ journal = {}
  BY PlansAssumption, PathsAssumption
     DEF ChangeInv, ChangeTypeOK, CreatedInv, PlannedSet, Position, JournalInv, Cleaning, Paths
<1>2. CASE \E f \in Files : Parent(f) = d /\ files[f] # AbsentFile
  <2>1. PICK f \in Files : Parent(f) = d /\ files[f] # AbsentFile
    BY <1>2
  <2>2. f \in touched
    <3> SUFFICES ASSUME Untouched(f) PROVE FALSE
      BY DEF Untouched
    <3>1. files[f].data = plan.before[f]
      BY <1>1 DEF ChangeInv, FilesInv, Wrote
    <3>2. plan.before[f] # Absent
      BY <1>1, <2>1, <3>1, PathsAssumption DEF TreeTypeOK, FileNodes
    <3> QED BY <1>1, <2>1, <3>2, InstallTreesAssumption
  <2>3. \E j \in DOMAIN Above[f] : Above[f][j] = d
    BY <1>1, <2>1, PathsAssumption DEF Parent, Paths
  <2> QED BY <2>2, <2>3 DEF Occupied
<1>3. CASE \E e \in Dirs : Parent(e) = d /\ dirs[e] # "missing"
  <2>1. PICK e \in Dirs : Parent(e) = d /\ dirs[e] # "missing"
    BY <1>3
  <2>2. e \in created
    <3>1. e \in plan.standing \union created
      BY <2>1, StandingDir DEF RecordInv
    <3> QED BY <1>1, <2>1, <3>1, InstallTreesAssumption
  <2>3. PICK k \in DOMAIN plan.planned : e = plan.planned[k]
    BY <2>2 DEF ChangeInv, CreatedInv, PlannedSet
  <2>4. k > pc
    BY <1>1, <2>1, <2>3, InstallTreesAssumption, PlannedFacts DEF ChangeInv
  <2>5. Occupied(e)
    BY <2>1, <2>2, <2>3, <2>4, StandingDir DEF RecordInv, Cleared, Cleaning
  <2>6. PICK f \in touched : \E j \in DOMAIN Above[f] : Above[f][j] = e
    BY <2>5 DEF Occupied
  <2>7. \E i \in DOMAIN Above[f] : Above[f][i] = d
    BY <1>1, <2>1, <2>6, AncestorsAssumption DEF ChangeInv, TreeTypeOK
  <2> QED BY <2>6, <2>7 DEF Occupied
<1> QED BY <1>2, <1>3 DEF Empty

LEMMA SweepKeepsRecord == ChangeInv /\ RecordInv /\ Sweep /\ UNCHANGED installVars => RecordInv'
<1> SUFFICES ASSUME ChangeInv, RecordInv, Sweep, UNCHANGED installVars, Calm' PROVE RecordInv'
  BY DEF RecordInv
<1>1. PICK d : d = plan.planned[pc]
  OBVIOUS
<1>2. /\ phase = "sweep" /\ phase' = "cleanup" /\ pc' = pc - 1
      /\ dirs' = IF dirs[d] # "missing" /\ Empty(d) THEN [dirs EXCEPT ![d] = "missing"] ELSE dirs
      /\ UNCHANGED <<plan, created, recorded, replaced, blind, touched, outcome>>
  BY <1>1 DEF Sweep, editorVars, installVars
<1>3. ~broken' => ~broken /\ dirs[d] # "missing"
  BY <1>1, Zenon DEF Sweep
<1>4. /\ Calm /\ outcome # "failed" /\ dirs \in [Dirs -> DirNodes] /\ pc \in DOMAIN plan.planned /\ d \in Dirs
      /\ DOMAIN plan.planned \subseteq Nat
  BY <1>1, <1>2, PlannedFacts DEF Calm, ChangeInv, JournalInv, TreeTypeOK, Position
<1>5. \A e \in Dirs : Standing(e)' => Standing(e)
  BY <1>2, <1>4, PathsAssumption DEF Standing, DirNode, Paths
<1>6. \A e : Occupied(e)' <=> Occupied(e)
  BY <1>2 DEF Occupied
<1>7. ASSUME ~broken', NEW j \in DOMAIN plan.planned, j > pc' PROVE Cleared(j)'
  <2>1. plan.planned[j] \in Dirs
    BY PlannedFacts DEF ChangeInv
  <2>2. CASE j > pc
    <3>1. Cleared(j)
      BY <1>2, <1>3, <1>4, <1>7, <2>2 DEF RecordInv, Cleaning
    <3> QED BY <1>2, <1>5, <1>6, <2>1, <3>1 DEF Cleared
  <2>3. CASE j = pc /\ Empty(d)
    <3>1. ~Standing(d)'
      BY <1>2, <1>3, <1>4, <1>7, <2>3, PathsAssumption DEF Standing, DirNode, Paths
    <3> QED BY <1>1, <1>2, <2>3, <3>1 DEF Cleared
  <2>4. CASE j = pc /\ ~Empty(d)
    <3>1. d \in created => Occupied(d)
      BY <1>1, <1>2, <1>3, <1>4, <1>7, <2>4, NotEmptyIsOccupied
    <3> QED BY <1>1, <1>2, <1>6, <2>4, <3>1 DEF Cleared
  <2> QED BY <1>2, <1>4, <1>7, <2>2, <2>3, <2>4
<1>8. \A e \in Dirs : Standing(e)' => e \in (plan.standing \union created)'
  BY <1>2, <1>4, <1>5 DEF RecordInv
<1> QED BY <1>2, <1>4, <1>7, <1>8 DEF RecordInv, OnWay, Forward, Settled, Cleaning

LEMMA EditKeepsRecord == ChangeInv /\ RecordInv /\ Edit /\ UNCHANGED installVars => RecordInv'
<1> SUFFICES ASSUME ChangeInv, RecordInv, Edit, UNCHANGED installVars, Calm' PROVE RecordInv'
  BY DEF RecordInv
<1>1. PICK f \in Files : \E c \in Data \union {Absent} : EditFile(f, c)
  BY DEF Edit, EditTree, EditDirectory, Calm
<1>2. UNCHANGED <<plan, dirs, created, recorded, replaced, blind, phase, pc, broken, outcome>>
      /\ touched \subseteq touched'
  BY <1>1 DEF EditFile, Edit, control, installVars
<1> QED BY <1>2, QuietKeeps DEF RecordInv

LEMMA RecordInvKept == InstallInv /\ [Next]_vars => RecordInv'
<1> SUFFICES ASSUME InstallInv, [Next]_vars PROVE RecordInv'
  OBVIOUS
<1>1. ChangeInv /\ RecordTypeOK /\ RecordInv
  BY DEF InstallInv
<1>2. CASE UNCHANGED vars
  <2>1. UNCHANGED <<plan, dirs, created, recorded, replaced, blind, phase, pc, broken, outcome, touched>>
    BY <1>2 DEF vars, tree, editorVars, control, installVars
  <2> QED BY <1>1, <2>1, QuietKeeps DEF RecordInv
<1>3. CASE Shared /\ UNCHANGED installVars
  BY <1>1, <1>3, MovesKeepRecord, PassingKeepsRecord, SweepKeepsRecord DEF Shared, SharedMoves
<1>4. CASE Validate \/ MakeInstallDirectory \/ Record \/ RecordFails \/ Abandon
  BY <1>1, <1>4, ValidateKeepsRecord, MakeDirectoryKeepsRecord, RecordingKeepsRecord
<1>5. CASE Begin \/ LookAgain \/ Complete \/ (Kill /\ UNCHANGED installVars)
  BY <1>1, <1>5, MovesKeepRecord DEF OwnMoves, SharedMoves
<1>6. CASE Edit /\ UNCHANGED installVars
  BY <1>1, <1>6, EditKeepsRecord
<1> QED BY <1>2, <1>3, <1>4, <1>5, <1>6 DEF Next, Process

-----------------------------------------------------------------------------
(* The invariant *)

LEMMA StepKeeps == InstallInv /\ [Next]_vars => InstallInv'
<1> SUFFICES ASSUME InstallInv, [Next]_vars PROVE ChangeInv'
  BY RecordTypeKept, RecordInvKept DEF InstallInv
<1>1. ChangeInv
  BY DEF InstallInv
<1>2. CASE Process
  <2>1. CASE MakeInstallDirectory
    BY <1>1, <2>1, MakeDirectoryKeeps DEF MakeInstallDirectory
  <2> QED BY <1>1, <1>2, <2>1, ValidateKeeps, BeginKeeps, LookAgainKeeps, RecordKeeps, RecordFailsKeeps,
             AbandonKeeps, CompleteKeeps, SharedKeeps DEF Process
<1>3. CASE Edit \/ Kill
  BY <1>1, <1>3, EditKeeps, KillKeeps
<1>4. CASE UNCHANGED vars
  BY <1>1, <1>4, StandingStillKeeps DEF vars
<1> QED BY <1>2, <1>3, <1>4 DEF Next

LEMMA InitKeeps == Init => InstallInv
<1> SUFFICES ASSUME Init PROVE InstallInv
  OBVIOUS
<1>1. ChangeInv
  BY InitEstablishes DEF Init
<1>2. RecordTypeOK
  BY DEF Init, RecordTypeOK
<1>3. /\ phase = "validate" /\ created = {} /\ recorded = {} /\ replaced = {} /\ outcome = "running"
      /\ \A d \in Dirs : dirs[d] # "missing" => d \in plan.standing
  BY DEF Init, ChangeInit, TreeOf
<1>4. RecordInv
  BY <1>3, StandingDir DEF RecordInv, OnWay, Cleaning
<1> QED BY <1>1, <1>2, <1>4 DEF InstallInv

(* The invariant of an install: types, the place of the process in its      *)
(* plan, what the journal tells of the files, and what is known of the      *)
(* directories made.                                                        *)
THEOREM InstallInvariant == Spec => []InstallInv
  BY InitKeeps, StepKeeps, PTL DEF Spec

(* Every state an install reaches is well typed, for any plans.             *)
THEOREM InstallTypeCorrect == Spec => []TypeOK
<1>1. InstallInv => TypeOK
  BY DEF InstallInv, ChangeInv, RecordTypeOK, TypeOK
<1> QED BY <1>1, InstallInvariant, PTL

(* An install that reports success has written everything it planned, and   *)
(* created every directory it planned (applyInstall).                       *)
THEOREM InstallCompletes == Spec => []CommitIsComplete
<1>1. InstallInv => CommitIsComplete
  BY CommitIsCompleteHolds DEF InstallInv
<1> QED BY <1>1, InstallInvariant, PTL

(* An install that reports a plain failure has put back every file nobody   *)
(* else touched; and if nobody touched a directory, those it made are gone  *)
(* unless they hold something of somebody else's (failInstallApplication).  *)
THEOREM InstallFailureIsUndone == Spec => []FailureRestores
<1>1. ASSUME InstallInv, outcome = "failed", Calm, NEW d \in created
      PROVE  ~Standing(d) \/ Occupied(d)
  <2>1. PICK j \in DOMAIN plan.planned : d = plan.planned[j]
    BY <1>1 DEF InstallInv, ChangeInv, CreatedInv, PlannedSet
  <2> QED BY <1>1, <2>1 DEF InstallInv, RecordInv, Cleared
<1>2. InstallInv => FilesRestored
  BY FilesRestoredHolds DEF InstallInv
<1>3. InstallInv => FailureRestores
  BY <1>1, <1>2 DEF FailureRestores, Calm, Occupied
<1> QED BY <1>3, InstallInvariant, PTL

-----------------------------------------------------------------------------
(* The order of the journal and the last looks                              *)

StartInv == phase = "validate" => journal = {}

(* The steps of an install that are its own                                 *)
OwnSteps == Validate \/ Begin \/ LookAgain \/ Record \/ RecordFails \/ Abandon \/ Complete

LEMMA NextCases ==
    ASSUME [Next]_vars
    PROVE  OwnSteps \/ SharedSteps \/ CleanUpInstall \/ Edit \/ UNCHANGED vars
  BY Zenon DEF Next, Process, Shared, OwnSteps, SharedSteps, MakeInstallDirectory

LEMMA OwnMovesOn ==
    ASSUME OwnSteps
    PROVE  UNCHANGED <<plan, tree, journal, created, broken, edits, touched>>
<1>1. CASE Validate \/ Begin \/ LookAgain \/ Complete
  BY <1>1, Zenon DEF Validate, Begin, LookAgain, Complete, editorVars
<1>2. CASE Record \/ RecordFails \/ Abandon
  BY <1>2, Zenon DEF Record, RecordFails, Abandon, Records, editorVars
<1> QED BY <1>1, <1>2, Zenon DEF OwnSteps

(* Where the own steps lead, and what they tell the caller                  *)
LEMMA OwnLeads ==
    ASSUME ChangeInv, OwnSteps
    PROVE  /\ phase \notin {"done", "killed"} /\ outcome = "running"
           /\ phase' \notin {"restore", "rmdir", "sweep", "killed", "validate"}
           /\ phase' = "publish" => LookAgain
           /\ \/ phase' # "done" /\ outcome' = "running"
              \/ phase' = "done" /\ outcome' = "committed"
              \/ phase' = "done" /\ outcome' \in {"refused", "predicted"} /\ phase = "validate" /\ ~broken
<1>1. Installing
  BY AllInstalls
<1>2. phase \in {"validate", "begin", "look", "record", "abandon"}
  BY DEF OwnSteps, Validate, Begin, LookAgain, Record, RecordFails, Abandon, Complete
<1>3. phase \notin {"done", "killed"} /\ (phase = "validate" => ~broken) /\ outcome = "running"
  <2>1. phase \notin {"done", "killed"} /\ (phase = "validate" => phase \in Forward)
    BY <1>2 DEF Forward
  <2> QED BY <2>1, Zenon DEF ChangeInv, JournalInv
<1>4. CASE Validate \/ Complete
  <2>1. \/ phase' \in {"begin", "rollback"} /\ outcome' = outcome
        \/ phase' = "done" /\ outcome' = "committed"
        \/ phase' = "done" /\ outcome' \in {"refused", "predicted"} /\ phase = "validate"
    BY <1>4 DEF Validate, Complete, Goto, Finish
  <2>2. phase' \notin {"restore", "rmdir", "sweep", "killed", "validate", "publish"}
    BY <2>1
  <2> QED BY <1>3, <2>1, <2>2, Zenon
<1>5. CASE Begin \/ Record \/ RecordFails \/ Abandon
  <2>1. phase' \in {"begin", "record", "walk", "rollback", "abandon"} /\ outcome' = outcome
    BY <1>1, <1>5 DEF Begin, Record, RecordFails, Abandon, NextAction, Goto, Fail
  <2>2. phase' \notin {"restore", "rmdir", "sweep", "killed", "validate", "publish", "done"}
    BY <2>1
  <2> QED BY <1>3, <2>1, <2>2, Zenon
<1>6. CASE LookAgain
  <2>1. phase' \in {"publish", "abandon"} /\ outcome' = outcome
    BY <1>1, <1>6 DEF LookAgain, Goto, Fail
  <2>2. phase' \notin {"restore", "rmdir", "sweep", "killed", "validate", "done"}
    BY <2>1
  <2> QED BY <1>3, <1>6, <2>1, <2>2, Zenon
<1> QED BY <1>4, <1>5, <1>6, Zenon DEF OwnSteps

LEMMA OwnKeepsTrace ==
    ASSUME ChangeInv, StartInv, TraceInv, OwnSteps
    PROVE  TraceInv'
<1>1. OrderInv'
  BY OwnMovesOn, OrderKept DEF TraceInv, Journaling
<1>2. LookInv'
  <2>1. phase' \notin {"restore", "rmdir", "sweep"}
    BY OwnLeads, Zenon
  <2>2. phase' = "publish" => held'.file.data = (plan.before[Current.path])'
    <3> SUFFICES ASSUME phase' = "publish" PROVE held'.file.data = (plan.before[Current.path])'
      OBVIOUS
    <3>1. LookAgain
      BY OwnLeads, Zenon
    <3>2. /\ UNCHANGED <<plan, pc>> /\ held' = Seen(Current.path) /\ AsPrepared(Current.path)
      BY <3>1, AllInstalls DEF LookAgain, Goto, Fail
    <3> QED BY <3>2 DEF Seen, AsPrepared, Current
  <2> QED BY <2>1, <2>2 DEF LookInv
<1>3. EndInv'
  <2>1. (edits = 0 => touched = {})' /\ journal' = journal /\ broken' = broken
    BY OwnMovesOn, Zenon DEF TraceInv, EndInv
  <2> QED BY <2>1, OwnLeads, Zenon DEF EndInv, StartInv
<1> QED BY <1>1, <1>2, <1>3 DEF TraceInv

LEMMA TraceKept ==
    ASSUME ChangeInv, StartInv, TraceInv, [Next]_vars
    PROVE  (StartInv /\ TraceInv)'
<1>1. CASE OwnSteps
  <2>1. StartInv'
    BY <1>1, OwnLeads, Zenon DEF StartInv
  <2> QED BY <1>1, <2>1, OwnKeepsTrace
<1>2. CASE SharedSteps
  <2>1. phase' # "validate"
    BY <1>2, SharedLeads, Zenon
  <2> QED BY <1>2, <2>1, SharedKeepsTrace DEF StartInv
<1>3. CASE CleanUpInstall
  <2>1. phase' # "validate" /\ \A d \in Own : dirs[d] # "foreign"
    BY <1>3, CleanUpLeads DEF CleanUpInstall, Own
  <2> QED BY <1>3, <2>1, CleanUpKeepsTrace DEF CleanUpInstall, StartInv
<1>4. CASE Edit
  BY <1>4, EditKeepsTrace DEF StartInv, Edit, control
<1>5. CASE UNCHANGED vars
  <2>1. UNCHANGED control /\ UNCHANGED <<touched, edits>>
    BY <1>5 DEF vars, editorVars
  <2>2. OrderInv' /\ LookInv'
    BY <2>1, OrderKept, WaitingKeepsLook DEF TraceInv, Journaling, control
  <2>3. EndInv' /\ StartInv'
    BY <2>1 DEF TraceInv, EndInv, StartInv, control
  <2> QED BY <2>2, <2>3 DEF TraceInv
<1> QED BY <1>1, <1>2, <1>3, <1>4, <1>5, NextCases

LEMMA TraceEstablished == Init => StartInv /\ TraceInv
<1> SUFFICES ASSUME Init PROVE StartInv /\ TraceInv
  OBVIOUS
<1>1. phase = "validate" /\ journal = {} /\ touched = {} /\ outcome = "running"
  BY DEF Init, ChangeInit, TreeOf
<1> QED BY <1>1 DEF StartInv, TraceInv, OrderInv, LookInv, EndInv

(* The order of the journal and what was last seen of a destination, on top *)
(* of InstallInvariant.                                                     *)
THEOREM TraceInvariant == Spec => [](InstallInv /\ StartInv /\ TraceInv)
<1>1. InstallInv /\ StartInv /\ TraceInv /\ [Next]_vars => (InstallInv /\ StartInv /\ TraceInv)'
  BY StepKeeps, TraceKept DEF InstallInv
<1> QED BY <1>1, InitKeeps, TraceEstablished, PTL DEF Spec

(* The state record of an install never runs ahead of the disk, not even in *)
(* a process killed half way (applyInstall).                                *)
THEOREM StateTrails == Spec => []StateTrailsDisk
<1>1. InstallInv /\ TraceInv => StateTrailsDisk
  BY StateTrailsDiskHolds DEF InstallInv, TraceInv
<1> QED BY <1>1, TraceInvariant, PTL

-----------------------------------------------------------------------------
(* What no step destroys *)

LEMMA StepSpares ==
    ASSUME ChangeInv, TraceInv, [Next]_vars
    PROVE  SparesAll
<1>1. CASE OwnSteps
  BY <1>1, OwnMovesOn, QuietSpares
<1>2. CASE SharedSteps
  BY <1>2, SharedSpares DEF TraceInv
<1>3. CASE CleanUpInstall
  BY <1>3, CleanUpLeads, QuietSpares DEF CleanUpInstall
<1>4. CASE Edit
  BY <1>4, EditSpares
<1>5. CASE UNCHANGED vars
  BY <1>5, QuietSpares DEF vars
<1> QED BY <1>1, <1>2, <1>3, <1>4, <1>5, NextCases

(* No step of an install destroys bytes its plan does not account for, or a *)
(* directory of somebody else's, unless they arrived after the last look at *)
(* them.                                                                    *)
THEOREM EditsAreSpared == Spec => EditsSurvive
<1>1. ChangeInv /\ TraceInv /\ [Next]_vars =>
        [/\ \A f \in Files : SparesAlien(f)
         /\ \A d \in Dirs : SparesDirectory(d)]_vars
  BY StepSpares DEF SparesAll
<1>2. InstallInv => ChangeInv
  BY DEF InstallInv
<1> QED BY <1>1, <1>2, TraceInvariant, PTL DEF Spec, EditsSurvive

-----------------------------------------------------------------------------
(* The refinement *)

LEMMA AloneIsAtomic ==
    ASSUME MaxEdits = 0, ChangeInv, TraceInv, TrueVerdict, TrueVerdict', [Next]_vars
    PROVE  [Atomic!Next]_(Atomic!vars)
<1>1. ~Edit
  <2>1. ~(edits < MaxEdits)
    BY DEF ChangeInv, TreeTypeOK
  <2> QED BY <2>1 DEF Edit, EditTree, EditFile, EditDirectory
<1>2. CASE OwnSteps
  <2>1. UNCHANGED <<plan, files>> /\ ~Ended
    BY <1>2, OwnMovesOn, OwnLeads, Zenon DEF Ended, tree
  <2> QED BY <2>1, StepIsAtomic
<1>3. CASE SharedSteps
  <2>1. ~Ended
    BY <1>3, SharedLeads, Zenon DEF Ended
  <2>2. UNCHANGED plan
    BY <1>3, SharedJournaling DEF Journaling
  <2> QED BY <1>3, <2>1, <2>2, SharedChangesOneFile, StepIsAtomic
<1>4. CASE CleanUpInstall
  <2>1. UNCHANGED <<plan, tree>> /\ phase \in {"cleanup", "sweep"}
    BY <1>4, CleanUpLeads DEF CleanUpInstall
  <2> QED BY <2>1, StepIsAtomic DEF Ended, tree
<1>5. CASE UNCHANGED vars
  BY <1>5, StillIsAtomic DEF vars
<1> QED BY <1>1, <1>2, <1>3, <1>4, <1>5, NextCases

(* With no other process about, an install that concludes is one atomic     *)
(* change of its files: all of them, or none, or a report that it could not *)
(* restore them.                                                            *)
THEOREM AtomicWhenAlone == MaxEdits = 0 => (Spec /\ Concludes => ImplementsAtomicChange)
<1> SUFFICES ASSUME MaxEdits = 0 PROVE Spec /\ Concludes => ImplementsAtomicChange
  OBVIOUS
<1>1. InstallInv /\ TraceInv => TrueVerdict /\ ChangeInv
  BY VerdictIsTrue DEF InstallInv, TraceInv, EndInv, ChangeInv, TreeTypeOK
<1>2. ChangeInv /\ TraceInv /\ TrueVerdict /\ TrueVerdict' /\ [Next]_vars => [Atomic!Next]_(Atomic!vars)
  BY AloneIsAtomic
<1>3. Init => Atomic!Init
  BY InitIsAtomic DEF Init
<1>4. TrueVerdict /\ phase \in {"done", "killed"} => Verdict # "open"
  BY DEF TrueVerdict, Ended
<1> QED BY <1>1, <1>2, <1>3, <1>4, TraceInvariant, PTL
        DEF Spec, Concludes, ImplementsAtomicChange, Atomic!Spec, Atomic!Ends
=============================================================================
