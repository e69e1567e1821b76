------------------------ MODULE PreparedChangeProofs ------------------------
(***************************************************************************)
(* What every step the operations share preserves, for any plans, paths    *)
(* and contents: types, the place of the process in its plan, the journal, *)
(* what the journal says of the files and the last look of a destination;  *)
(* and that each shared step is one of AtomicChange.                       *)
(***************************************************************************)
EXTENDS PreparedChange, SequenceTheorems, TLAPS

(* The phases before a failure, and the two parts of a rollback             *)
Forward == {"validate", "backup", "copy", "begin", "require", "walk", "open", "look",
            "publish", "rmdir", "record"}
Undoing == {"abandon", "rollback", "restore"}
Cleaning == {"cleanup", "sweep"}

(* The place in the plan fits the phase.                                    *)
Position == /\ phase \in Forward => pc > 0
            /\ phase \in {"require", "walk", "open", "look", "publish", "restore"} => pc \in FileSteps
            /\ phase = "rmdir" => pc \in DOMAIN Steps(plan) \ FileSteps
            /\ phase = "restore" => pc \in journal
            /\ phase = "cleanup" => pc \in 0..Len(plan.planned)
            /\ phase = "sweep" => pc \in DOMAIN plan.planned

(* Nothing above the action under way is journaled, and the cleanup of the  *)
(* directories begins when the journal is undone.                           *)
JournalInv == /\ phase \in Forward \union Undoing => journal \subseteq 1..pc
              /\ phase \in Cleaning \/ outcome \in {"failed", "rollback failed"} => journal = {}
              /\ phase \in Forward \/ outcome \in {"failed", "committed"} => ~broken
              /\ phase # "done" => outcome = "running"

(* A file nobody else touched shows what its journaled action made of it,   *)
(* and otherwise what it was prepared with - unless an undo step failed.    *)
Wrote(i, f) == i \in journal \intersect FileSteps /\ Steps(plan)[i].path = f
FilesInv == \A f \in Files : Untouched(f) =>
               /\ \A i \in DOMAIN Steps(plan) : Wrote(i, f) => files[f].data = After(plan, Steps(plan)[i])
               /\ (\A i \in DOMAIN Steps(plan) : ~Wrote(i, f)) /\ ~broken => files[f].data = plan.before[f]

(* No action that changes a file has been passed over.                      *)
ProgressInv == /\ phase \in Forward \/ outcome = "committed" =>
                     \A i \in FileSteps : i < pc /\ Changes(i) => i \in journal
               /\ phase = "record" /\ pc \in FileSteps /\ Changes(pc) => pc \in journal
               /\ outcome = "committed" => pc > 0 /\ pc \notin DOMAIN Steps(plan)

(* The directories made are planned ones, and stand until they are cleaned up. *)
CreatedInv == /\ created \subseteq PlannedSet
              /\ outcome = "committed" => PlannedSet \subseteq created
              /\ phase \in Forward \union Undoing \/ outcome = "committed" =>
                    \A d \in created : Untouched(d) => dirs[d] = "engine"

(* The directory held open stays in its place as long as it holds a file.   *)
HeldInv == phase \in {"publish", "restore"} =>
              LET f == Current.path
              IN Untouched(f) => files[f] = AbsentFile \/ DirNode(Parent(f)) = held.parent

ChangeInv == /\ TreeTypeOK /\ ChangeTypeOK /\ Position /\ JournalInv
             /\ FilesInv /\ ProgressInv /\ CreatedInv /\ HeldInv

-----------------------------------------------------------------------------
(* Facts about the plan *)

LEMMA PlanFacts ==
    ASSUME NEW p \in Plans
    PROVE  /\ p \in PlanType /\ Steps(p) \in Seq(Actions) /\ DistinctPaths(p)
           /\ DOMAIN Steps(p) = 1..Len(Steps(p)) /\ Len(Steps(p)) \in Nat
           /\ \A i \in DOMAIN Steps(p) : Steps(p)[i] \in Actions
           /\ p.before \in [Files -> Data \union {Absent}]
           /\ p.planned \in Seq(Dirs)
<1>1. p \in PlanType /\ Steps(p) \in Seq(Actions) /\ DistinctPaths(p)
  BY PlansAssumption
<1>2. p.before \in [Files -> Data \union {Absent}] /\ p.planned \in Seq(Dirs)
  BY <1>1 DEF PlanType
<1>3. DOMAIN Steps(p) = 1..Len(Steps(p)) /\ Len(Steps(p)) \in Nat
  BY <1>1
<1>4. \A i \in DOMAIN Steps(p) : Steps(p)[i] \in Actions
  BY <1>1
<1> QED BY <1>1, <1>2, <1>3, <1>4

LEMMA ActionFacts ==
    ASSUME NEW p \in Plans, NEW a \in Actions
    PROVE  /\ IsFile(a) => a.path \in Files /\ After(p, a) \in Data \union {Absent}
           /\ ~IsFile(a) => a.path \in Dirs
  BY PlanFacts DEF Actions, IsFile, FileEffects, After

LEMMA NodeFacts ==
    /\ AbsentFile.data = Absent /\ AbsentFile \in FileNodes
    /\ \A d \in Data \union {Absent}, c \in Inodes :
          FileNode(d, c) \in FileNodes /\ FileNode(d, c).data = d
    /\ \A n \in FileNodes : n.data \in Data \union {Absent}
  BY DEF AbsentFile, FileNodes, FileNode

LEMMA ParentFacts ==
    ASSUME NEW f \in Paths
    PROVE  Parent(f) \in Dirs \union {Root}
  BY PathsAssumption DEF Parent

LEMMA SeenFacts ==
    ASSUME TreeTypeOK, NEW f \in Files
    PROVE  Seen(f) \in [file : FileNodes, parent : DirNodes] /\ DirNode(Parent(f)) \in DirNodes
  BY ParentFacts DEF Seen, DirNode, TreeTypeOK, DirNodes, Inodes, Paths

LEMMA CurrentFacts ==
    ASSUME ChangeTypeOK, pc \in DOMAIN Steps(plan)
    PROVE  /\ Current \in Actions
           /\ pc \in FileSteps => IsFile(Current) /\ Current.path \in Files
                                  /\ After(plan, Current) \in Data \union {Absent}
           /\ pc \notin FileSteps => ~IsFile(Current) /\ Current.path \in Dirs
           /\ pc \in Nat /\ pc > 0
<1>1. Current \in Actions /\ (pc \in FileSteps <=> IsFile(Current)) /\ plan \in Plans
  BY PlanFacts DEF Current, FileSteps, ChangeTypeOK
<1>2. pc \in Nat /\ pc > 0
  BY PlanFacts DEF ChangeTypeOK
<1> QED BY <1>1, <1>2, ActionFacts

-----------------------------------------------------------------------------
(* What the shared actions preserve.  A step that leaves the files, the     *)
(* journal and the verdict on the rollback alone, and forgets no touch,     *)
(* keeps FilesInv.                                                          *)

LEMMA FilesInvKept ==
    ASSUME FilesInv, UNCHANGED <<plan, files, journal>>, touched \subseteq touched', broken => broken'
    PROVE  FilesInv'
  BY DEF FilesInv, Untouched, Wrote, FileSteps

LEMMA CreatedInvKept ==
    ASSUME CreatedInv, UNCHANGED <<plan, dirs, created, outcome>>, touched \subseteq touched',
           phase' \in Forward \union Undoing => phase \in Forward \union Undoing
    PROVE  CreatedInv'
  BY DEF CreatedInv, Untouched, PlannedSet

LEMMA MakeDirectoryKeeps == ChangeInv /\ MakeDirectory => ChangeInv'
<1> SUFFICES ASSUME ChangeInv, MakeDirectory PROVE ChangeInv'
  OBVIOUS
<1>1. PICK i \in DOMAIN Above[Current.path] :
         /\ dirs' = [dirs EXCEPT ![Above[Current.path][i]] = "engine"]
         /\ created' = created \union ({Above[Current.path][i]} \intersect PlannedSet)
  BY DEF MakeDirectory
<1>2. /\ phase = "walk"
      /\ UNCHANGED <<plan, files, phase, pc, journal, held, broken, outcome, edits, touched>>
  BY DEF MakeDirectory, editorVars
<1>3. pc \in FileSteps /\ pc \in DOMAIN Steps(plan) /\ ChangeTypeOK
  BY <1>2 DEF ChangeInv, Position, FileSteps
<1>4. Current.path \in Files
  BY <1>3, CurrentFacts
<1>5. Above[Current.path] \in Seq(Dirs)
  BY <1>4, PathsAssumption DEF Paths
<1>6. Above[Current.path][i] \in Dirs
  BY <1>5
<1>7. TreeTypeOK' /\ ChangeTypeOK'
  BY <1>1, <1>2, <1>6 DEF ChangeInv, TreeTypeOK, ChangeTypeOK, DirNodes, Inodes
<1>8. Position' /\ JournalInv' /\ ProgressInv' /\ HeldInv'
  BY <1>2 DEF ChangeInv, Position, JournalInv, ProgressInv, HeldInv, FileSteps, Changes
<1>9. FilesInv'
  BY <1>2, FilesInvKept DEF ChangeInv
<1>10. CreatedInv'
  BY <1>1, <1>2, <1>6 DEF ChangeInv, CreatedInv, PlannedSet, Untouched, TreeTypeOK, JournalInv
<1> QED BY <1>7, <1>8, <1>9, <1>10 DEF ChangeInv

LEMMA PathReadyKeeps == ChangeInv /\ PathReady => ChangeInv'
<1> SUFFICES ASSUME ChangeInv, PathReady PROVE ChangeInv'
  OBVIOUS
<1>1. /\ phase = "walk" /\ phase' \in {"open", "abandon", "rollback"}
      /\ UNCHANGED <<plan, files, dirs, pc, journal, created, held, broken, outcome, edits, touched>>
  BY DEF PathReady, Goto, Fail, tree, editorVars
<1>2. TreeTypeOK' /\ ChangeTypeOK'
  BY <1>1 DEF ChangeInv, TreeTypeOK, ChangeTypeOK, Phases
<1>3. Position' /\ JournalInv' /\ ProgressInv' /\ HeldInv'
  BY <1>1 DEF ChangeInv, Position, JournalInv, ProgressInv, HeldInv, FileSteps, Changes,
              Forward, Undoing, Cleaning
<1>4. FilesInv' /\ CreatedInv'
  BY <1>1, FilesInvKept, CreatedInvKept DEF ChangeInv, Forward
<1> QED BY <1>2, <1>3, <1>4 DEF ChangeInv

LEMMA OpenDirectoryKeeps == ChangeInv /\ OpenDirectory => ChangeInv'
<1> SUFFICES ASSUME ChangeInv, OpenDirectory PROVE ChangeInv'
  OBVIOUS
<1>1. /\ phase = "open" /\ phase' \in {"look", "abandon", "rollback"}
      /\ held' \in {held, Seen(Current.path)}
      /\ UNCHANGED <<plan, files, dirs, pc, journal, created, broken, outcome, edits, touched>>
  BY DEF OpenDirectory, Goto, Fail, tree, editorVars
<1>2. TreeTypeOK /\ ChangeTypeOK /\ pc \in DOMAIN Steps(plan) /\ pc \in FileSteps
  BY <1>1 DEF ChangeInv, Position, FileSteps
<1>3. held' \in [file : FileNodes, parent : DirNodes]
  BY <1>1, <1>2, CurrentFacts, SeenFacts DEF ChangeTypeOK
<1>4. TreeTypeOK' /\ ChangeTypeOK'
  BY <1>1, <1>3 DEF ChangeInv, TreeTypeOK, ChangeTypeOK, Phases
<1>5. Position' /\ JournalInv' /\ ProgressInv' /\ HeldInv'
  BY <1>1 DEF ChangeInv, Position, JournalInv, ProgressInv, HeldInv, FileSteps, Changes,
              Forward, Undoing, Cleaning
<1>6. FilesInv' /\ CreatedInv'
  BY <1>1, FilesInvKept, CreatedInvKept DEF ChangeInv, Forward
<1> QED BY <1>4, <1>5, <1>6 DEF ChangeInv

LEMMA OperationFailsKeeps == ChangeInv /\ OperationFails => ChangeInv'
<1> SUFFICES ASSUME ChangeInv, OperationFails PROVE ChangeInv'
  OBVIOUS
<1>1. /\ phase \in Forward /\ phase' \in {"abandon", "rollback"}
      /\ UNCHANGED <<plan, files, dirs, pc, journal, created, held, broken, outcome, edits, touched>>
  BY DEF OperationFails, Goto, Fail, tree, editorVars, Forward
<1>2. TreeTypeOK' /\ ChangeTypeOK'
  BY <1>1 DEF ChangeInv, TreeTypeOK, ChangeTypeOK, Phases
<1>3. Position' /\ JournalInv' /\ ProgressInv' /\ HeldInv'
  BY <1>1 DEF ChangeInv, Position, JournalInv, ProgressInv, HeldInv, FileSteps, Changes,
              Forward, Undoing, Cleaning
<1>4. FilesInv' /\ CreatedInv'
  BY <1>1, FilesInvKept, CreatedInvKept DEF ChangeInv
<1> QED BY <1>2, <1>3, <1>4 DEF ChangeInv

(* A write or removal of the current destination that is journaled          *)
LEMMA WriteKeepsFiles ==
    ASSUME FilesInv, plan \in Plans, pc \in FileSteps, NEW f \in Files, f = Current.path,
           UNCHANGED <<plan, touched, broken>>, journal' = journal \union {pc},
           \A g \in Files \ {f} : files'[g] = files[g],
           Untouched(f) => files'[f].data = After(plan, Current)
    PROVE  FilesInv'
<1>1. DistinctPaths(plan) /\ pc \in DOMAIN Steps(plan)
  BY PlanFacts DEF FileSteps
<1>2. \A i \in DOMAIN Steps(plan), g \in Files :
         Wrote(i, g)' <=> Wrote(i, g) \/ (i = pc /\ g = f)
  BY <1>1 DEF Wrote, Current, FileSteps
<1>3. \A i \in DOMAIN Steps(plan) : Wrote(i, f)' => i = pc
  BY <1>1 DEF DistinctPaths, Wrote, FileSteps, Current
<1>4. \A g \in Files \ {f} : Untouched(g)' => Untouched(g) /\ files'[g].data = files[g].data
  BY DEF Untouched
<1>5. ASSUME NEW g \in Files \ {f}, Untouched(g)'
      PROVE  /\ \A i \in DOMAIN Steps(plan) : Wrote(i, g)' => files'[g].data = After(plan, Steps(plan)[i])
             /\ (\A i \in DOMAIN Steps(plan) : ~Wrote(i, g)') /\ ~broken' => files'[g].data = plan.before[g]
  BY <1>2, <1>4, <1>5 DEF FilesInv
<1>6. Untouched(f)' => \A i \in DOMAIN Steps(plan) : Wrote(i, f)' => files'[f].data = After(plan, Steps(plan)[i])
  BY <1>3 DEF Untouched, Current
<1>7. \E i \in DOMAIN Steps(plan) : Wrote(i, f)'
  BY <1>1, <1>2
<1> QED BY <1>1, <1>5, <1>6, <1>7 DEF FilesInv

(* The undoing of the current action                                        *)
LEMMA UndoneKeepsFiles ==
    ASSUME FilesInv, plan \in Plans, pc \in FileSteps, NEW f \in Files, f = Current.path,
           UNCHANGED <<plan, touched>>, journal' = journal \ {pc}, broken => broken',
           \A g \in Files \ {f} : files'[g] = files[g],
           Untouched(f) /\ ~broken' => files'[f].data = plan.before[f]
    PROVE  FilesInv'
<1>1. DistinctPaths(plan) /\ pc \in DOMAIN Steps(plan)
  BY PlanFacts DEF FileSteps
<1>2. \A i \in DOMAIN Steps(plan), g \in Files : Wrote(i, g)' <=> Wrote(i, g) /\ i # pc
  BY <1>1 DEF Wrote, FileSteps
<1>3. \A i \in DOMAIN Steps(plan) : ~Wrote(i, f)'
  BY <1>1, <1>2 DEF DistinctPaths, Wrote, FileSteps, Current
<1>4. \A g \in Files \ {f} : ~Wrote(pc, g)
  BY DEF Wrote, Current
<1>5. ASSUME NEW g \in Files \ {f}, Untouched(g)'
      PROVE  /\ \A i \in DOMAIN Steps(plan) : Wrote(i, g)' => files'[g].data = After(plan, Steps(plan)[i])
             /\ (\A i \in DOMAIN Steps(plan) : ~Wrote(i, g)') /\ ~broken' => files'[g].data = plan.before[g]
  BY <1>2, <1>4, <1>5 DEF FilesInv, Untouched
<1> QED BY <1>3, <1>5 DEF FilesInv, Untouched

(* A journal entry that could not be undone is forgotten; a directory's     *)
(* entry says nothing of the files.                                         *)
LEMMA ForgottenKeepsFiles ==
    ASSUME FilesInv, UNCHANGED <<plan, files, touched>>, journal' = journal \ {pc}, broken => broken',
           broken' \/ pc \notin FileSteps
    PROVE  FilesInv'
  BY DEF FilesInv, Wrote, Untouched, FileSteps

LEMMA PublishKeeps == ChangeInv /\ Publish => ChangeInv'
<1> SUFFICES ASSUME ChangeInv, Publish PROVE ChangeInv'
  OBVIOUS
<1> DEFINE f == Current.path
           written == files' = [files EXCEPT ![f] = FileNode(After(plan, Current), "engine")]
<1>1. /\ phase = "publish" /\ phase' \in {"record", "begin", "abandon", "rollback"}
      /\ UNCHANGED <<plan, dirs, created, held, broken, outcome, edits, touched>>
      /\ \/ /\ phase' \in {"abandon", "rollback"} /\ UNCHANGED <<files, journal, pc>>
         \/ /\ phase' = "record" /\ pc' = pc /\ journal' = journal \union {pc} /\ written
         \/ /\ phase' = "begin" /\ pc' = pc + 1 /\ journal' = journal \union {pc} /\ written
  BY DEF Publish, Goto, Fail, Applied, NextAction, tree, editorVars
<1>2. /\ TreeTypeOK /\ ChangeTypeOK /\ pc \in FileSteps /\ pc \in Nat /\ pc > 0 /\ f \in Files
      /\ pc \in DOMAIN Steps(plan) /\ After(plan, Current) \in Data \union {Absent}
  BY <1>1, CurrentFacts DEF ChangeInv, Position, FileSteps
<1>3. written => /\ files' \in [Files -> FileNodes] /\ files'[f].data = After(plan, Current)
                 /\ \A g \in Files \ {f} : files'[g] = files[g]
  BY <1>2, NodeFacts DEF TreeTypeOK, Inodes
<1>4. TreeTypeOK' /\ ChangeTypeOK'
  BY <1>1, <1>2, <1>3 DEF ChangeInv, TreeTypeOK, ChangeTypeOK, Phases
<1>5. Position' /\ JournalInv' /\ ProgressInv' /\ HeldInv'
  <2>1. FileSteps \subseteq Nat
    BY <1>2, PlanFacts DEF FileSteps, ChangeTypeOK
  <2>2. Position' /\ JournalInv' /\ HeldInv'
    BY <1>1, <1>2 DEF ChangeInv, Position, JournalInv, HeldInv, FileSteps, Forward, Undoing, Cleaning
  <2>3. ProgressInv'
    BY <1>1, <1>2, <2>1 DEF ChangeInv, ProgressInv, JournalInv, FileSteps, Changes, Forward
  <2> QED BY <2>2, <2>3
<1>6. FilesInv'
  <2>1. CASE UNCHANGED <<files, journal>>
    BY <1>1, <2>1, FilesInvKept DEF ChangeInv
  <2>2. CASE written /\ journal' = journal \union {pc}
    BY <1>1, <1>2, <1>3, <2>2, WriteKeepsFiles DEF ChangeInv, ChangeTypeOK
  <2> QED BY <1>1, <2>1, <2>2
<1>7. CreatedInv'
  BY <1>1, CreatedInvKept DEF ChangeInv, Forward
<1> QED BY <1>4, <1>5, <1>6, <1>7 DEF ChangeInv

(* One entry down the journal                                               *)
LEMMA StepDown ==
    ASSUME ChangeInv, phase \in {"rollback", "restore"}, phase' = "rollback", pc > 0, pc' = pc - 1,
           journal' = journal \ {pc}, UNCHANGED <<plan, outcome>>
    PROVE  Position' /\ JournalInv' /\ ProgressInv' /\ HeldInv'
<1>1. phase \notin Forward /\ phase \in Undoing /\ phase' \notin Forward /\ phase' \notin Cleaning
      /\ phase # "done" /\ pc \in Nat
  BY DEF Forward, Undoing, Cleaning, ChangeInv, ChangeTypeOK
<1>2. outcome = "running" /\ journal \subseteq 1..pc
  BY <1>1 DEF ChangeInv, JournalInv
<1>3. journal' \subseteq 1..pc'
  BY <1>1, <1>2
<1>4. Position'
  BY <1>1 DEF Position, Cleaning
<1>5. JournalInv'
  BY <1>1, <1>2, <1>3 DEF JournalInv
<1>6. ProgressInv' /\ HeldInv'
  BY <1>1, <1>2 DEF ProgressInv, HeldInv
<1> QED BY <1>4, <1>5, <1>6

LEMMA UndoFileKeeps == ChangeInv /\ UndoFile => ChangeInv'
<1> SUFFICES ASSUME ChangeInv, UndoFile PROVE ChangeInv'
  OBVIOUS
<1>1. PICK f : f = Current.path
  OBVIOUS
<1>2. /\ phase = "rollback" /\ pc \in journal /\ IsFile(Current)
      /\ UNCHANGED <<plan, files, dirs, created, outcome, edits, touched>>
      /\ \/ /\ files[f].data = plan.before[f] /\ phase' = "rollback" /\ pc' = pc - 1
            /\ journal' = journal \ {pc} /\ UNCHANGED <<broken, held>>
         \/ /\ phase' = "rollback" /\ pc' = pc - 1 /\ broken' = TRUE
            /\ journal' = journal \ {pc} /\ UNCHANGED held
         \/ phase' = "restore" /\ held' = Seen(f) /\ UNCHANGED <<pc, journal, broken>>
  BY <1>1 DEF UndoFile, Undone, CannotUndo, Goto, tree, editorVars
<1>3. /\ TreeTypeOK /\ ChangeTypeOK /\ pc \in Nat /\ pc > 0 /\ pc \in FileSteps /\ f \in Files
      /\ pc \in DOMAIN Steps(plan)
  BY <1>1, <1>2, CurrentFacts DEF ChangeInv, ChangeTypeOK, FileSteps, Current
<1>4. Seen(f) \in [file : FileNodes, parent : DirNodes]
  BY <1>3, SeenFacts
<1>5. TreeTypeOK' /\ ChangeTypeOK'
  <2>1. TreeTypeOK'
    BY <1>2, <1>3, <1>4 DEF TreeTypeOK
  <2>2. pc' \in Nat /\ phase' \in Phases
    BY <1>2, <1>3 DEF Phases
  <2>4. broken' \in BOOLEAN
    BY <1>2, <1>3, Zenon DEF ChangeTypeOK
  <2>5. journal' \subseteq DOMAIN Steps(plan')
    BY <1>2, <1>3 DEF ChangeTypeOK
  <2>3. held' \in [file : FileNodes, parent : DirNodes]
    BY <1>2, <1>3, <1>4 DEF ChangeTypeOK
  <2> QED BY <1>2, <1>3, <2>1, <2>2, <2>3, <2>4, <2>5 DEF ChangeTypeOK
<1>6. Position' /\ JournalInv' /\ ProgressInv' /\ HeldInv'
  <2>1. CASE phase' = "rollback" /\ pc' = pc - 1 /\ journal' = journal \ {pc}
    BY <1>2, <1>3, <2>1, StepDown
  <2>2. CASE phase' = "restore" /\ held' = Seen(f) /\ UNCHANGED <<pc, journal, broken>>
    <3>1. Position' /\ JournalInv' /\ ProgressInv'
      BY <1>2, <1>3, <2>2 DEF ChangeInv, Position, JournalInv, ProgressInv, FileSteps,
                              Forward, Undoing, Cleaning
    <3>2. HeldInv'
      BY <1>1, <1>2, <2>2 DEF HeldInv, Seen, Current, DirNode
    <3> QED BY <3>1, <3>2
  <2> QED BY <1>2, <2>1, <2>2
<1>8. FilesInv'
  <2>1. CASE UNCHANGED journal
    BY <1>2, <2>1, FilesInvKept DEF ChangeInv
  <2>2. CASE journal' = journal \ {pc} /\ broken'
    BY <1>2, <2>2, ForgottenKeepsFiles DEF ChangeInv
  <2>3. CASE journal' = journal \ {pc} /\ files[f].data = plan.before[f]
    BY <1>1, <1>2, <1>3, <2>3, UndoneKeepsFiles DEF ChangeInv, ChangeTypeOK
  <2> QED BY <1>2, <2>1, <2>2, <2>3
<1>9. CreatedInv'
  BY <1>2, CreatedInvKept DEF ChangeInv, Undoing
<1> QED BY <1>5, <1>6, <1>8, <1>9 DEF ChangeInv

LEMMA RestoreKeeps == ChangeInv /\ Restore => ChangeInv'
<1> SUFFICES ASSUME ChangeInv, Restore PROVE ChangeInv'
  OBVIOUS
<1>1. PICK f : f = Current.path
  OBVIOUS
<1>2. /\ phase = "restore" /\ phase' = "rollback" /\ pc' = pc - 1 /\ journal' = journal \ {pc}
      /\ UNCHANGED <<plan, dirs, created, held, outcome, edits, touched>>
      /\ \/ broken' = TRUE /\ UNCHANGED files
         \/ /\ plan.before[f] = Absent /\ (DirNode(Parent(f)) # held.parent \/ files[f] = AbsentFile)
            /\ UNCHANGED <<broken, files>>
         \/ /\ files' = [files EXCEPT ![f] = FileNode(plan.before[f], "engine")] /\ UNCHANGED broken
  BY <1>1 DEF Restore, Undone, CannotUndo, Goto, editorVars
<1>3. /\ TreeTypeOK /\ ChangeTypeOK /\ pc \in Nat /\ pc > 0 /\ pc \in FileSteps /\ f \in Files
      /\ pc \in DOMAIN Steps(plan) /\ plan.before[f] \in Data \union {Absent} /\ plan \in Plans
  BY <1>1, <1>2, CurrentFacts, PlanFacts DEF ChangeInv, ChangeTypeOK, FileSteps, Current, Position
<1>4. files' \in [Files -> FileNodes]
  BY <1>2, <1>3, NodeFacts DEF TreeTypeOK, Inodes
<1>5. TreeTypeOK' /\ ChangeTypeOK'
  <2>1. TreeTypeOK'
    BY <1>2, <1>3, <1>4 DEF TreeTypeOK
  <2>2. pc' \in Nat /\ phase' \in Phases
    BY <1>2, <1>3 DEF Phases
  <2>4. broken' \in BOOLEAN
    BY <1>2, <1>3, Zenon DEF ChangeTypeOK
  <2>5. journal' \subseteq DOMAIN Steps(plan')
    BY <1>2, <1>3 DEF ChangeTypeOK
  <2>3. held' \in [file : FileNodes, parent : DirNodes]
    BY <1>2, <1>3, <1>4 DEF ChangeTypeOK
  <2> QED BY <1>2, <1>3, <2>1, <2>2, <2>3, <2>4, <2>5 DEF ChangeTypeOK
<1>6. Position' /\ JournalInv' /\ ProgressInv' /\ HeldInv'
  BY <1>2, <1>3, StepDown
<1>7. \A g \in Files \ {f} : files'[g] = files[g]
  BY <1>2, <1>3 DEF TreeTypeOK
<1>8. Untouched(f) /\ ~broken' => files'[f].data = plan.before[f]
  <2>1. Untouched(f) => files[f] = AbsentFile \/ DirNode(Parent(f)) = held.parent
    BY <1>1, <1>2 DEF ChangeInv, HeldInv
  <2>2. FileNode(plan.before[f], "engine").data = plan.before[f] /\ AbsentFile.data = Absent
    BY <1>3, NodeFacts DEF Inodes
  <2> QED BY <1>2, <1>3, <2>1, <2>2 DEF TreeTypeOK
<1>9. FilesInv'
  BY <1>1, <1>2, <1>3, <1>7, <1>8, UndoneKeepsFiles DEF ChangeInv, ChangeTypeOK
<1>10. CreatedInv'
  BY <1>2, CreatedInvKept DEF ChangeInv, Undoing
<1> QED BY <1>5, <1>6, <1>9, <1>10 DEF ChangeInv

LEMMA UndoDirectoryKeeps == ChangeInv /\ UndoDirectory => ChangeInv'
<1> SUFFICES ASSUME ChangeInv, UndoDirectory PROVE ChangeInv'
  OBVIOUS
<1>1. PICK d : d = Current.path
  OBVIOUS
<1>2. /\ phase = "rollback" /\ phase' = "rollback" /\ pc \in journal /\ pc \notin FileSteps
      /\ pc' = pc - 1 /\ journal' = journal \ {pc} /\ (broken => broken') /\ broken' \in BOOLEAN
      /\ UNCHANGED <<plan, files, created, held, outcome, edits, touched>>
      /\ dirs' = dirs \/ dirs' = [dirs EXCEPT ![d] = "engine"]
  BY <1>1 DEF UndoDirectory, Undone, CannotUndo, Goto, editorVars, FileSteps, Current, ChangeInv, ChangeTypeOK
<1>3. /\ TreeTypeOK /\ ChangeTypeOK /\ pc \in Nat /\ pc > 0 /\ d \in Dirs
  BY <1>1, <1>2, CurrentFacts DEF ChangeInv, ChangeTypeOK
<1>4. TreeTypeOK' /\ ChangeTypeOK'
  BY <1>2, <1>3 DEF ChangeInv, TreeTypeOK, ChangeTypeOK, Phases, DirNodes, Inodes
<1>5. Position' /\ JournalInv' /\ ProgressInv' /\ HeldInv'
  BY <1>2, <1>3, StepDown
<1>6. FilesInv'
  BY <1>2, ForgottenKeepsFiles DEF ChangeInv
<1>7. CreatedInv'
  BY <1>2, <1>3 DEF ChangeInv, ChangeTypeOK, CreatedInv, PlannedSet, Untouched, TreeTypeOK, Undoing
<1> QED BY <1>4, <1>5, <1>6, <1>7 DEF ChangeInv

LEMMA NothingToUndoKeeps == ChangeInv /\ NothingToUndo => ChangeInv'
<1> SUFFICES ASSUME ChangeInv, NothingToUndo PROVE ChangeInv'
  OBVIOUS
<1>1. /\ phase = "rollback" /\ pc > 0 /\ pc \notin journal /\ pc' = pc - 1
      /\ UNCHANGED <<plan, files, dirs, phase, journal, created, held, broken, outcome, edits, touched>>
  BY DEF NothingToUndo, tree, editorVars
<1>2. TreeTypeOK' /\ ChangeTypeOK'
  BY <1>1 DEF ChangeInv, TreeTypeOK, ChangeTypeOK
<1>3. Position' /\ JournalInv' /\ ProgressInv' /\ HeldInv'
  BY <1>1, StepDown
<1>4. FilesInv' /\ CreatedInv'
  BY <1>1, FilesInvKept, CreatedInvKept DEF ChangeInv
<1> QED BY <1>2, <1>3, <1>4 DEF ChangeInv

LEMMA UndoFailsKeeps == ChangeInv /\ UndoFails => ChangeInv'
<1> SUFFICES ASSUME ChangeInv, UndoFails PROVE ChangeInv'
  OBVIOUS
<1>1. /\ phase \in {"rollback", "restore"} /\ pc \in journal /\ phase' = "rollback"
      /\ pc' = pc - 1 /\ journal' = journal \ {pc} /\ broken' = TRUE
      /\ UNCHANGED <<plan, files, dirs, created, held, outcome, edits, touched>>
  BY DEF UndoFails, CannotUndo, tree, editorVars, ChangeInv, Position
<1>2. TreeTypeOK' /\ ChangeTypeOK' /\ pc \in Nat /\ pc > 0
  BY <1>1, PlanFacts DEF ChangeInv, TreeTypeOK, ChangeTypeOK, Phases
<1>3. Position' /\ JournalInv' /\ ProgressInv' /\ HeldInv'
  BY <1>1, <1>2, StepDown
<1>4. FilesInv' /\ CreatedInv'
  BY <1>1, ForgottenKeepsFiles, CreatedInvKept DEF ChangeInv, Undoing
<1> QED BY <1>2, <1>3, <1>4 DEF ChangeInv

(* The cleanup of the directories leaves the journal, which is undone, and  *)
(* the files alone.                                                         *)
LEMMA CleaningKeeps ==
    ASSUME ChangeInv, phase \in Cleaning \union {"rollback"}, phase' \in Cleaning,
           UNCHANGED <<plan, files, journal, created, outcome, edits, touched>>, journal = {},
           dirs' \in [Dirs -> DirNodes], held' \in [file : FileNodes, parent : DirNodes],
           broken => broken', broken' \in BOOLEAN, pc' \in Nat,
           phase' = "cleanup" => pc' \in 0..Len(plan.planned),
           phase' = "sweep" => pc' \in DOMAIN plan.planned
    PROVE  ChangeInv'
<1>1. /\ phase \notin Forward /\ phase' \notin Forward \union Undoing /\ outcome = "running"
      /\ phase' \notin {"require", "walk", "open", "look", "publish", "rmdir", "record", "restore"}
  BY DEF Forward, Undoing, Cleaning, ChangeInv, JournalInv
<1>2. TreeTypeOK'
  BY DEF ChangeInv, TreeTypeOK
<1>3. ChangeTypeOK'
  BY DEF ChangeInv, ChangeTypeOK, Cleaning, Phases
<1>4. Position' /\ JournalInv' /\ ProgressInv' /\ HeldInv'
  BY <1>1 DEF Position, JournalInv, ProgressInv, HeldInv
<1>5. FilesInv'
  BY FilesInvKept DEF ChangeInv
<1>6. CreatedInv'
  BY <1>1 DEF ChangeInv, CreatedInv, PlannedSet
<1> QED BY <1>2, <1>3, <1>4, <1>5, <1>6 DEF ChangeInv

LEMMA PlannedFacts ==
    ASSUME ChangeTypeOK
    PROVE  /\ DOMAIN plan.planned = 1..Len(plan.planned) /\ Len(plan.planned) \in Nat
           /\ \A j \in DOMAIN plan.planned : plan.planned[j] \in Dirs
  BY PlanFacts DEF ChangeTypeOK

LEMMA JournalUndoneKeeps == ChangeInv /\ JournalUndone => ChangeInv'
<1> SUFFICES ASSUME ChangeInv, JournalUndone PROVE ChangeInv'
  OBVIOUS
<1>1. /\ phase = "rollback" /\ pc = 0 /\ phase' = "cleanup" /\ pc' = Len(plan.planned)
      /\ UNCHANGED <<plan, files, dirs, journal, created, held, broken, outcome, edits, touched>>
  BY DEF JournalUndone, tree, editorVars
<1>2. journal = {}
  BY <1>1 DEF ChangeInv, JournalInv, Undoing
<1>3. /\ dirs' \in [Dirs -> DirNodes] /\ held' \in [file : FileNodes, parent : DirNodes]
      /\ broken' \in BOOLEAN
  BY <1>1 DEF ChangeInv, TreeTypeOK, ChangeTypeOK
<1>4. pc' \in Nat /\ pc' \in 0..Len(plan.planned)
  BY <1>1, PlannedFacts DEF ChangeInv
<1> QED BY <1>1, <1>2, <1>3, <1>4, CleaningKeeps DEF Cleaning

LEMMA CleanUpKeeps ==
    ASSUME NEW known, NEW gone, NEW own, ChangeInv, CleanUp(known, gone, own), known \subseteq Dirs
    PROVE  ChangeInv'
<1>1. PICK d : d = plan.planned[pc]
  OBVIOUS
<1>2. /\ phase = "cleanup" /\ pc > 0
      /\ UNCHANGED <<plan, files, dirs, journal, created, outcome, edits, touched>>
      /\ \/ /\ d \in known /\ phase' = "sweep" /\ pc' = pc /\ held' = [held EXCEPT !.parent = dirs[d]]
         \/ phase' = "cleanup" /\ pc' = pc - 1 /\ held' = held
      /\ broken' \in BOOLEAN /\ (broken => broken')
  BY <1>1, Zenon DEF CleanUp, tree, editorVars
<1>3. /\ TreeTypeOK /\ ChangeTypeOK /\ pc \in 0..Len(plan.planned) /\ journal = {}
  BY <1>2 DEF ChangeInv, Position, JournalInv, Cleaning
<1>4. pc \in DOMAIN plan.planned /\ pc - 1 \in 0..Len(plan.planned) /\ pc - 1 \in Nat /\ pc \in Nat
  BY <1>2, <1>3, PlannedFacts
<1>5. held' \in [file : FileNodes, parent : DirNodes]
  BY <1>2, <1>3 DEF TreeTypeOK, ChangeTypeOK
<1>6. dirs' \in [Dirs -> DirNodes]
  BY <1>2, <1>3 DEF TreeTypeOK
<1> QED BY <1>2, <1>3, <1>4, <1>5, <1>6, CleaningKeeps DEF Cleaning

LEMMA SweepKeeps == ChangeInv /\ Sweep => ChangeInv'
<1> SUFFICES ASSUME ChangeInv, Sweep PROVE ChangeInv'
  OBVIOUS
<1>1. PICK d : d = plan.planned[pc]
  OBVIOUS
<1>2. /\ phase = "sweep" /\ phase' = "cleanup" /\ pc' = pc - 1
      /\ UNCHANGED <<plan, files, journal, created, held, outcome, edits, touched>>
      /\ dirs' = dirs \/ dirs' = [dirs EXCEPT ![d] = "missing"]
      /\ broken' \in BOOLEAN /\ (broken => broken')
  BY <1>1, Zenon DEF Sweep, editorVars
<1>3. /\ TreeTypeOK /\ ChangeTypeOK /\ pc \in DOMAIN plan.planned /\ journal = {}
  BY <1>2 DEF ChangeInv, Position, JournalInv, Cleaning
<1>4. pc - 1 \in 0..Len(plan.planned) /\ pc - 1 \in Nat
  BY <1>3, PlannedFacts
<1>5. dirs' \in [Dirs -> DirNodes]
  BY <1>2, <1>3 DEF TreeTypeOK, DirNodes
<1>6. held' \in [file : FileNodes, parent : DirNodes]
  BY <1>2, <1>3 DEF ChangeTypeOK
<1> QED BY <1>2, <1>3, <1>4, <1>5, <1>6, CleaningKeeps DEF Cleaning

LEMMA CleanUpFailsKeeps ==
    ASSUME NEW known, ChangeInv, CleanUpFails(known)
    PROVE  ChangeInv'
<1>1. /\ phase \in Cleaning /\ phase' = "cleanup" /\ pc' = pc - 1 /\ broken' = TRUE
      /\ (phase = "cleanup" => pc > 0)
      /\ UNCHANGED <<plan, files, dirs, journal, created, held, outcome, edits, touched>>
  BY DEF CleanUpFails, Cleaning, tree, editorVars
<1>2. /\ TreeTypeOK /\ ChangeTypeOK /\ journal = {}
      /\ phase = "cleanup" => pc \in 0..Len(plan.planned)
      /\ phase = "sweep" => pc \in DOMAIN plan.planned
  BY <1>1 DEF ChangeInv, Position, JournalInv
<1>3. pc - 1 \in 0..Len(plan.planned) /\ pc - 1 \in Nat
  BY <1>1, <1>2, PlannedFacts DEF Cleaning
<1>4. dirs' \in [Dirs -> DirNodes] /\ held' \in [file : FileNodes, parent : DirNodes]
  BY <1>1, <1>2 DEF TreeTypeOK, ChangeTypeOK
<1> QED BY <1>1, <1>2, <1>3, <1>4, CleaningKeeps DEF Cleaning

LEMMA ReportFailureKeeps == ChangeInv /\ ReportFailure => ChangeInv'
<1> SUFFICES ASSUME ChangeInv, ReportFailure PROVE ChangeInv'
  OBVIOUS
<1>1. /\ phase = "cleanup" /\ phase' = "done" /\ outcome' \in {"failed", "rollback failed"}
      /\ outcome' = "failed" => ~broken
      /\ UNCHANGED <<plan, files, dirs, pc, journal, created, held, broken, edits, touched>>
  BY DEF ReportFailure, Finish, tree, editorVars
<1>2. TreeTypeOK' /\ ChangeTypeOK'
  BY <1>1 DEF ChangeInv, TreeTypeOK, ChangeTypeOK, Phases, Outcomes
<1>3. Position' /\ ProgressInv' /\ HeldInv'
  BY <1>1 DEF Position, ProgressInv, HeldInv, Forward
<1>4. JournalInv'
  BY <1>1 DEF ChangeInv, JournalInv, Forward, Undoing, Cleaning
<1>5. FilesInv' /\ CreatedInv'
  BY <1>1, FilesInvKept DEF ChangeInv, CreatedInv, PlannedSet, Forward, Undoing
<1> QED BY <1>2, <1>3, <1>4, <1>5 DEF ChangeInv

LEMMA KillKeeps == ChangeInv /\ Kill => ChangeInv'
<1> SUFFICES ASSUME ChangeInv, Kill PROVE ChangeInv'
  OBVIOUS
<1>1. /\ phase # "done" /\ phase' = "killed"
      /\ UNCHANGED <<plan, files, dirs, pc, journal, created, held, broken, outcome, edits, touched>>
  BY DEF Kill, Running, tree, editorVars
<1>2. TreeTypeOK' /\ ChangeTypeOK'
  BY <1>1 DEF ChangeInv, TreeTypeOK, ChangeTypeOK, Phases
<1>3. Position' /\ JournalInv' /\ ProgressInv' /\ HeldInv'
  BY <1>1 DEF ChangeInv, Position, JournalInv, ProgressInv, HeldInv, Forward, Undoing, Cleaning
<1>4. FilesInv' /\ CreatedInv'
  BY <1>1, FilesInvKept DEF ChangeInv, CreatedInv, JournalInv, PlannedSet, Forward, Undoing
<1> QED BY <1>2, <1>3, <1>4 DEF ChangeInv

(* What is said of the process alone stays while the process stands still.  *)
LEMMA ControlKept ==
    ASSUME ChangeInv, UNCHANGED <<plan, phase, pc, journal, created, held, broken, outcome>>
    PROVE  ChangeTypeOK' /\ Position' /\ JournalInv' /\ ProgressInv'
<1>1. ChangeTypeOK'
  BY DEF ChangeInv, ChangeTypeOK
<1>2. FileSteps' = FileSteps /\ \A i : Changes(i)' <=> Changes(i)
  BY DEF FileSteps, Changes
<1>3. Position'
  BY <1>2 DEF ChangeInv, Position
<1>4. JournalInv'
  BY DEF ChangeInv, JournalInv
<1>5. ProgressInv'
  BY <1>2 DEF ChangeInv, ProgressInv
<1> QED BY <1>1, <1>3, <1>4, <1>5

(* The editor touches what it changes, and takes away or replaces only      *)
(* directories that are empty.                                              *)
LEMMA EditFileKeeps ==
    ASSUME NEW g \in Files, NEW d \in Data \union {Absent}, ChangeInv, EditFile(g, d), UNCHANGED control
    PROVE  ChangeInv'
<1>1. /\ edits < MaxEdits /\ files' = [files EXCEPT ![g] = FileNode(d, "foreign")]
      /\ edits' = edits + 1 /\ touched' = touched \union {g}
      /\ UNCHANGED <<dirs, plan, phase, pc, journal, created, held, broken, outcome>>
  BY DEF EditFile, control
<1>2. TreeTypeOK /\ ChangeTypeOK /\ FileNode(d, "foreign") \in FileNodes
  BY NodeFacts DEF ChangeInv, Inodes
<1>3. TreeTypeOK'
  <2>1. files' \in [Files -> FileNodes] /\ dirs' \in [Dirs -> DirNodes] /\ touched' \subseteq Paths
    BY <1>1, <1>2 DEF TreeTypeOK, Paths
  <2>2. edits' \in 0..MaxEdits
    BY <1>1, <1>2, MaxEditsAssumption DEF TreeTypeOK
  <2> QED BY <2>1, <2>2 DEF TreeTypeOK
<1>4. \A f \in Files : Untouched(f)' => Untouched(f) /\ files'[f] = files[f]
  BY <1>1, <1>2 DEF Untouched, TreeTypeOK
<1>5. ChangeTypeOK' /\ Position' /\ JournalInv' /\ ProgressInv'
  BY <1>1, ControlKept
<1>6. FilesInv'
  BY <1>1, <1>4 DEF ChangeInv, FilesInv, Wrote, FileSteps
<1>7. CreatedInv'
  BY <1>1 DEF ChangeInv, CreatedInv, PlannedSet, Untouched
<1>8. HeldInv'
  <2>1. SUFFICES ASSUME phase \in {"publish", "restore"}, Untouched(Current.path)'
                 PROVE  (files[Current.path] = AbsentFile \/ DirNode(Parent(Current.path)) = held.parent)'
    BY <1>1 DEF HeldInv
  <2>2. Current.path \in Files
    BY <1>2, <2>1, CurrentFacts DEF ChangeInv, Position, FileSteps
  <2>3. Untouched(Current.path) /\ files'[Current.path] = files[Current.path] /\ Current' = Current
    BY <1>1, <1>4, <2>1, <2>2 DEF Current
  <2>4. files[Current.path] = AbsentFile \/ DirNode(Parent(Current.path)) = held.parent
    BY <2>1, <2>3 DEF ChangeInv, HeldInv
  <2> QED BY <1>1, <2>3, <2>4 DEF DirNode
<1> QED BY <1>3, <1>5, <1>6, <1>7, <1>8 DEF ChangeInv

LEMMA EditDirectoryKeeps ==
    ASSUME NEW d \in Dirs, NEW node \in {"missing", "foreign"}, ChangeInv, EditDirectory(d, node),
           UNCHANGED control
    PROVE  ChangeInv'
<1>1. /\ edits < MaxEdits /\ dirs' = [dirs EXCEPT ![d] = node] /\ Empty(d)
      /\ edits' = edits + 1 /\ touched' = touched \union {d}
      /\ UNCHANGED <<files, plan, phase, pc, journal, created, held, broken, outcome>>
  BY DEF EditDirectory, control
<1>2. TreeTypeOK /\ ChangeTypeOK
  BY DEF ChangeInv
<1>3. TreeTypeOK'
  <2>1. files' \in [Files -> FileNodes] /\ dirs' \in [Dirs -> DirNodes] /\ touched' \subseteq Paths
    BY <1>1, <1>2 DEF TreeTypeOK, Paths, DirNodes, Inodes
  <2>2. edits' \in 0..MaxEdits
    BY <1>1, <1>2, MaxEditsAssumption DEF TreeTypeOK
  <2> QED BY <2>1, <2>2 DEF TreeTypeOK
<1>4. ChangeTypeOK' /\ Position' /\ JournalInv' /\ ProgressInv'
  BY <1>1, ControlKept
<1>5. FilesInv'
  BY <1>1, FilesInvKept DEF ChangeInv
<1>6. CreatedInv'
  BY <1>1, <1>2 DEF ChangeInv, CreatedInv, PlannedSet, Untouched, TreeTypeOK, ChangeTypeOK
<1>7. HeldInv'
  <2>1. SUFFICES ASSUME phase \in {"publish", "restore"}, Untouched(Current.path)', files[Current.path] # AbsentFile
                 PROVE  (DirNode(Parent(Current.path)) = held.parent)'
    BY <1>1 DEF HeldInv, Current
  <2>2. Current.path \in Files /\ Current' = Current
    BY <1>1, <1>2, <2>1, CurrentFacts DEF ChangeInv, Position, FileSteps, Current
  <2>3. DirNode(Parent(Current.path)) = held.parent
    BY <1>1, <2>1, <2>2 DEF ChangeInv, HeldInv, Untouched
  <2>4. Parent(Current.path) # d
    BY <1>1, <2>1, <2>2 DEF Empty
  <2>5. DirNode(Parent(Current.path))' = DirNode(Parent(Current.path))
    BY <1>1, <1>2, <2>2, <2>4, ParentFacts DEF DirNode, TreeTypeOK, Paths
  <2> QED BY <1>1, <2>3, <2>5
<1> QED BY <1>3, <1>4, <1>5, <1>6, <1>7 DEF ChangeInv

LEMMA EditKeeps == ChangeInv /\ Edit => ChangeInv'
  BY EditFileKeeps, EditDirectoryKeeps DEF Edit, EditTree

-----------------------------------------------------------------------------
LEMMA InitEstablishes == ChangeInit => ChangeInv
<1> SUFFICES ASSUME ChangeInit PROVE ChangeInv
  OBVIOUS
<1>1. /\ plan \in Plans /\ phase = "validate" /\ pc = 1 /\ journal = {} /\ created = {}
      /\ held = [file |-> AbsentFile, parent |-> "missing"] /\ broken = FALSE /\ outcome = "running"
      /\ files = [f \in Files |-> FileNode(plan.before[f], "prepared")]
      /\ dirs = [d \in Dirs |-> IF d \in plan.standing THEN "prepared" ELSE "missing"]
      /\ edits = 0 /\ touched = {}
  BY DEF ChangeInit, TreeOf
<1>2. \A f \in Files : files[f] \in FileNodes /\ files[f].data = plan.before[f]
  BY <1>1, PlanFacts, NodeFacts DEF Inodes
<1>3. TreeTypeOK
  BY <1>1, <1>2, MaxEditsAssumption DEF TreeTypeOK, DirNodes, Inodes
<1>4. ChangeTypeOK
  BY <1>1, NodeFacts DEF ChangeTypeOK, Phases, Outcomes, DirNodes
<1>5. Position /\ JournalInv /\ HeldInv
  BY <1>1 DEF Position, JournalInv, HeldInv, Forward, Undoing, Cleaning
<1>6. ProgressInv
  BY <1>1, PlanFacts DEF ProgressInv, FileSteps
<1>7. FilesInv /\ CreatedInv
  BY <1>1, <1>2 DEF FilesInv, CreatedInv, Wrote
<1> QED BY <1>3, <1>4, <1>5, <1>6, <1>7 DEF ChangeInv

-----------------------------------------------------------------------------
(* Kinds of steps the operations have of their own                          *)

LEMMA MovingOnKeeps ==
    ASSUME ChangeInv, phase \in Forward, HeldInv',
           UNCHANGED <<plan, files, dirs, pc, journal, created, broken, edits, touched>>,
           held' \in [file : FileNodes, parent : DirNodes],
           phase' \in {"backup", "copy", "begin", "require", "walk", "look", "publish", "rmdir",
                       "record", "abandon", "rollback", "done"},
           phase' # "done" => outcome' = outcome,
           phase' = "done" => outcome' \in {"refused", "predicted", "terminal"},
           phase' \in {"require", "walk", "look", "publish"} => pc \in FileSteps,
           phase' = "rmdir" => pc \in DOMAIN Steps(plan) \ FileSteps,
           phase' = "record" /\ pc \in FileSteps /\ Changes(pc) => pc \in journal
    PROVE  ChangeInv'
<1>1. TreeTypeOK' /\ ChangeTypeOK'
  BY DEF ChangeInv, TreeTypeOK, ChangeTypeOK, Phases, Outcomes
<1>2. Position'
  BY DEF ChangeInv, Position, FileSteps, Forward
<1>3. outcome = "running" /\ outcome' \notin {"committed", "failed", "rollback failed"}
  BY DEF ChangeInv, JournalInv, Forward
<1>4. JournalInv' /\ ProgressInv'
  BY <1>3 DEF ChangeInv, JournalInv, ProgressInv, FileSteps, Changes, Forward, Undoing, Cleaning
<1>5. FilesInv'
  BY FilesInvKept DEF ChangeInv
<1>6. CreatedInv'
  BY <1>3 DEF ChangeInv, CreatedInv, PlannedSet, Untouched
<1> QED BY <1>1, <1>2, <1>4, <1>5, <1>6 DEF ChangeInv

LEMMA SkippingKeeps ==
    ASSUME ChangeInv, phase \in Forward, NextAction,
           UNCHANGED <<plan, files, dirs, journal, created, held, broken, edits, touched>>,
           pc \in FileSteps /\ Changes(pc) => pc \in journal
    PROVE  ChangeInv'
<1>1. phase' = "begin" /\ pc' = pc + 1 /\ outcome' = outcome /\ pc \in Nat
  BY DEF NextAction, ChangeInv, ChangeTypeOK
<1>2. FileSteps \subseteq Nat
  BY PlanFacts DEF FileSteps, ChangeInv, ChangeTypeOK
<1>3. TreeTypeOK' /\ ChangeTypeOK'
  BY <1>1 DEF ChangeInv, TreeTypeOK, ChangeTypeOK, Phases
<1>4. Position' /\ HeldInv'
  BY <1>1 DEF Position, HeldInv
<1>5. JournalInv'
  <2>1. journal \subseteq 1..pc
    BY DEF ChangeInv, JournalInv
  <2>2. journal' \subseteq 1..pc'
    BY <1>1, <2>1
  <2> QED BY <1>1, <2>2 DEF ChangeInv, JournalInv, Forward, Undoing, Cleaning
<1>6. ProgressInv'
  <2>1. ASSUME NEW i \in FileSteps, i < pc + 1, Changes(i) PROVE i \in journal
    BY <1>1, <1>2, <2>1 DEF ChangeInv, ProgressInv
  <2>2. outcome' # "committed"
    BY <1>1 DEF ChangeInv, JournalInv, Forward
  <2> QED BY <1>1, <2>1, <2>2 DEF ProgressInv, FileSteps, Changes
<1>7. FilesInv' /\ CreatedInv'
  BY <1>1, FilesInvKept, CreatedInvKept DEF ChangeInv
<1> QED BY <1>3, <1>4, <1>5, <1>6, <1>7 DEF ChangeInv

LEMMA StandingStillKeeps == ChangeInv /\ UNCHANGED <<tree, editorVars, control>> => ChangeInv'
<1> SUFFICES ASSUME ChangeInv, UNCHANGED <<tree, editorVars, control>> PROVE ChangeInv'
  OBVIOUS
<1>1. UNCHANGED <<files, dirs, edits, touched, plan, phase, pc, journal, created, held, broken, outcome>>
  BY DEF tree, editorVars, control
<1>2. TreeTypeOK' /\ ChangeTypeOK' /\ Position' /\ JournalInv' /\ ProgressInv'
  BY <1>1, ControlKept DEF ChangeInv, TreeTypeOK
<1>3. HeldInv'
  BY <1>1 DEF ChangeInv, HeldInv, Current, DirNode, Untouched
<1>4. FilesInv' /\ CreatedInv'
  BY <1>1, FilesInvKept, CreatedInvKept DEF ChangeInv
<1> QED BY <1>2, <1>3, <1>4 DEF ChangeInv

-----------------------------------------------------------------------------
(* What the invariant says once the caller has been told                    *)
LEMMA FilesRestoredHolds == ChangeInv => FilesRestored
<1> SUFFICES ASSUME ChangeInv, outcome = "failed", NEW f \in Files, Untouched(f)
             PROVE  files[f].data = plan.before[f]
  BY DEF FilesRestored
<1>1. journal = {} /\ ~broken
  BY DEF ChangeInv, JournalInv
<1> QED BY <1>1 DEF ChangeInv, FilesInv, Wrote

LEMMA CommitIsCompleteHolds == ChangeInv => CommitIsComplete
<1> SUFFICES ASSUME ChangeInv, outcome = "committed" PROVE CommitIsComplete
  BY DEF CommitIsComplete
<1>1. ASSUME NEW i \in FileSteps, Untouched(Steps(plan)[i].path)
      PROVE  files[Steps(plan)[i].path].data = After(plan, Steps(plan)[i])
  <2>1. plan \in Plans /\ i \in DOMAIN Steps(plan) /\ Steps(plan)[i].path \in Files /\ i < pc
    BY PlanFacts, ActionFacts DEF ChangeInv, ChangeTypeOK, ProgressInv, FileSteps
  <2>2. CASE Changes(i)
    <3>1. Wrote(i, Steps(plan)[i].path)
      BY <2>1, <2>2 DEF ChangeInv, ProgressInv, Wrote
    <3> QED BY <1>1, <2>1, <3>1 DEF ChangeInv, FilesInv
  <2>3. CASE ~Changes(i)
    <3>1. ~broken
      BY DEF ChangeInv, JournalInv
    <3>2. \A j \in DOMAIN Steps(plan) : Wrote(j, Steps(plan)[i].path) => j = i
      BY <2>1, PlanFacts DEF DistinctPaths, Wrote
    <3> QED BY <1>1, <2>1, <2>3, <3>1, <3>2 DEF ChangeInv, FilesInv, Changes
  <2> QED BY <2>2, <2>3
<1>2. ASSUME NEW d \in PlannedSet, Untouched(d)
      PROVE  dirs[d] = "engine"
  BY <1>2 DEF ChangeInv, CreatedInv
<1> QED BY <1>1, <1>2 DEF CommitIsComplete

-----------------------------------------------------------------------------
(* The state record comes last *)

(* Position c of s holds the single element of m, and what comes later is   *)
(* from t.                                                                  *)
HeldBefore(c, s, m, t) == /\ s[c] = m[1]
                          /\ \A i \in DOMAIN s : i <= c \/ \E n \in DOMAIN t : s[i] = t[n]
LEMMA ElementBetween ==
    ASSUME NEW S, NEW s \in Seq(S), NEW m \in Seq(S), NEW t \in Seq(S), Len(m) = 1,
           NEW all, all = (s \o m) \o t
    PROVE  \E c \in DOMAIN all : HeldBefore(c, all, m, t)
<1> DEFINE u == s \o m
<1>1. u \in Seq(S) /\ Len(u) = Len(s) + 1 /\ u[Len(s) + 1] = m[1]
  <2>1. /\ s \o m \in Seq(S) /\ Len(s \o m) = Len(s) + Len(m)
        /\ \A i \in 1..Len(s) + Len(m) : (s \o m)[i] = IF i <= Len(s) THEN s[i] ELSE m[i - Len(s)]
    BY ConcatProperties
  <2> QED BY <2>1
<1>2. /\ u \o t \in Seq(S) /\ Len(u \o t) = Len(u) + Len(t)
      /\ \A i \in 1..Len(u) + Len(t) : (u \o t)[i] = IF i <= Len(u) THEN u[i] ELSE t[i - Len(u)]
  BY <1>1, ConcatProperties
<1> HIDE DEF u
<1>3. DOMAIN (u \o t) = 1..(Len(u) + Len(t)) /\ Len(s) \in Nat /\ Len(t) \in Nat
  BY <1>2
<1>4. /\ DOMAIN (u \o t) = 1..(Len(s) + 1 + Len(t)) /\ (u \o t)[Len(s) + 1] = m[1]
      /\ \A n \in 1..Len(t) : (u \o t)[Len(s) + 1 + n] = t[n]
  BY <1>1, <1>2, <1>3
<1>5. all = u \o t
  BY DEF u
<1>6. ASSUME NEW i \in DOMAIN all, ~(i <= Len(s) + 1) PROVE \E n \in DOMAIN t : all[i] = t[n]
  <2>1. i \in 1..(Len(s) + 1 + Len(t))
    BY <1>4, <1>5, Zenon
  <2>2. PICK n \in 1..Len(t) : i = Len(s) + 1 + n
    <3>1. Len(s) \in Nat /\ Len(t) \in Nat
      BY <1>3
    <3>2. i \in Nat /\ ~(i <= Len(s) + 1) /\ i <= Len(s) + 1 + Len(t)
      BY <1>6, <2>1, <3>1
    <3>3. i - (Len(s) + 1) \in 1..Len(t) /\ i = Len(s) + 1 + (i - (Len(s) + 1))
      BY <3>1, <3>2
    <3> QED BY <3>3
  <2>3. n \in DOMAIN t /\ all[Len(s) + 1 + n] = t[n]
    BY <1>4, <1>5
  <2> QED BY <2>2, <2>3
<1>7. Len(s) + 1 \in DOMAIN all /\ all[Len(s) + 1] = m[1]
  BY <1>3, <1>4, <1>5
<1> QED BY <1>6, <1>7 DEF HeldBefore

LEMMA StateIsLast ==
    ASSUME plan \in Plans, NEW k \in StateSteps, NEW i \in FileSteps
    PROVE  i <= k
<1> DEFINE rest == IF Installing THEN <<>> ELSE plan.namespaceDirectories
<1>1. /\ plan.targets \in Seq(Actions) /\ plan.targetDirectories \in Seq(Actions)
      /\ plan.policy \in Seq(Actions) /\ plan.state \in Seq(Actions)
      /\ plan.namespaceDirectories \in Seq(Actions) /\ rest \in Seq(Actions)
  BY PlanFacts DEF PlanType
<1>2. PICK early \in Seq(Actions) : Steps(plan) = (early \o plan.state) \o rest
  <2>1. CASE Installing
    <3>1. plan.policy \o plan.targets \in Seq(Actions)
      BY <1>1, ConcatProperties
    <3>2. ((plan.policy \o plan.targets) \o plan.state) \o <<>> = (plan.policy \o plan.targets) \o plan.state
      BY <1>1, <3>1, ConcatProperties, ConcatEmptySeq
    <3> QED BY <2>1, <3>1, <3>2 DEF Steps, Installing
  <2>2. CASE ~Installing
    <3>1. (plan.targets \o plan.targetDirectories) \o plan.policy \in Seq(Actions)
      BY <1>1, ConcatProperties
    <3> QED BY <2>2, <3>1 DEF Steps, Installing
  <2> QED BY <2>1, <2>2
<1>3. \A n \in DOMAIN rest : ~IsFile(rest[n])
  BY StateIsLastAssumption
<1> HIDE DEF rest
<1>4. PICK j \in DOMAIN plan.state : plan.state[j].path = Steps(plan)[k].path
  BY DEF StateSteps
<1>5. j = 1 /\ Len(plan.state) = 1
  <2>1. Len(plan.state) \in Nat /\ Len(plan.state) <= 1
    BY <1>1, StateIsLastAssumption
  <2>2. j \in 1..Len(plan.state)
    BY <1>1, <1>4
  <2>3. \A n \in Nat : n <= 1 => \A i1 \in 1..n : i1 = 1 /\ n = 1
    OBVIOUS
  <2> QED BY <2>1, <2>2, <2>3, Zenon
<1>6. PICK c \in DOMAIN Steps(plan) : HeldBefore(c, Steps(plan), plan.state, rest)
  BY <1>1, <1>2, <1>5, ElementBetween, Zenon
<1>7. k \in DOMAIN Steps(plan) /\ i \in DOMAIN Steps(plan) /\ IsFile(Steps(plan)[i])
  BY DEF StateSteps, FileSteps
<1>8. k = c
  BY <1>4, <1>5, <1>6, <1>7, PlanFacts DEF DistinctPaths, HeldBefore
<1> QED BY <1>3, <1>6, <1>7, <1>8 DEF HeldBefore

(* The journal has no gaps: what changes a file before a journaled action   *)
(* is journaled too.                                                        *)
OrderInv == \A k \in journal, i \in FileSteps : i < k /\ Changes(i) => i \in journal

(* What was last seen of a destination: the bytes of the preparation before *)
(* a rename or unlink, oaw's own before it is undone, and never a directory *)
(* of somebody else's before a removal.                                     *)
LookInv == /\ phase = "publish" => held.file.data = plan.before[Current.path]
           /\ phase = "restore" => held.file.data = After(plan, Current)
           /\ phase \in {"rmdir", "sweep"} => held.parent # "foreign"

(* Nothing is touched without an edit, and a process that ends says how.    *)
(* The outcomes of an operation that never began leave nothing to undo.     *)
EndInv == /\ edits = 0 => touched = {}
          /\ phase = "done" => outcome # "running"
          /\ outcome \in {"refused", "predicted", "terminal"} => journal = {} /\ ~broken

TraceInv == OrderInv /\ LookInv /\ EndInv

(* How a step may change the journal                                        *)
Journaling == /\ UNCHANGED plan
              /\ \/ UNCHANGED journal
                 \/ phase \in Forward /\ journal' = journal \union {pc}
                 \/ phase \in Undoing /\ journal' = journal \ {pc}

(* The steps the operations share, but for the cleanup                      *)
SharedSteps == \/ MakeDirectory \/ PathReady \/ OpenDirectory \/ Publish \/ OperationFails
               \/ UndoFile \/ Restore \/ UndoDirectory \/ NothingToUndo \/ UndoFails
               \/ JournalUndone \/ Sweep \/ ReportFailure \/ Kill

LEMMA OrderKept ==
    ASSUME ChangeInv, OrderInv, Journaling
    PROVE  OrderInv'
<1>1. journal \subseteq Nat /\ FileSteps \subseteq Nat /\ pc \in Nat
  BY PlanFacts DEF ChangeInv, ChangeTypeOK, FileSteps
<1>2. FileSteps' = FileSteps /\ \A i : Changes(i)' <=> Changes(i)
  BY DEF Journaling, FileSteps, Changes
<1>3. CASE phase \in Forward /\ journal' = journal \union {pc}
  BY <1>1, <1>2, <1>3 DEF OrderInv, ChangeInv, ProgressInv
<1>4. CASE phase \in Undoing /\ journal' = journal \ {pc}
  <2>1. journal \subseteq 1..pc
    BY <1>4, Zenon DEF ChangeInv, JournalInv
  <2> QED BY <1>1, <1>2, <1>4, <2>1 DEF OrderInv
<1> QED BY <1>2, <1>3, <1>4 DEF Journaling, OrderInv

LEMMA SharedJournaling ==
    ASSUME ChangeInv, SharedSteps
    PROVE  Journaling /\ UNCHANGED <<edits, touched>>
<1> USE DEF Journaling, editorVars
<1>1. CASE MakeDirectory \/ PathReady \/ OpenDirectory \/ OperationFails \/ NothingToUndo \/ JournalUndone
  BY <1>1 DEF MakeDirectory, PathReady, OpenDirectory, OperationFails, NothingToUndo, JournalUndone
<1>2. CASE Sweep \/ ReportFailure \/ Kill
  BY <1>2, Zenon DEF Sweep, ReportFailure, Kill
<1>3. CASE Publish
  BY <1>3 DEF Publish, Applied, Forward
<1>4. CASE UndoFile \/ Restore \/ UndoDirectory \/ UndoFails
  BY <1>4 DEF UndoFile, Restore, UndoDirectory, UndoFails, Undone, CannotUndo, Undoing
<1> QED BY <1>1, <1>2, <1>3, <1>4 DEF SharedSteps

(* Where the shared steps lead, and what they tell the caller               *)
LEMMA SharedLeads ==
    ASSUME ChangeInv, SharedSteps
    PROVE  /\ phase \notin {"done", "killed"} /\ outcome = "running"
           /\ phase' \notin {"publish", "rmdir", "sweep", "validate"}
           /\ phase' = "restore" => UndoFile
           /\ \/ phase' = "done" /\ outcome' \in {"failed", "rollback failed"}
              \/ phase' # "done" /\ outcome' = "running"
<1>1. phase \notin {"done", "killed"}
  <2>1. CASE Sweep \/ Kill \/ ReportFailure
    BY <2>1, Zenon DEF Sweep, Kill, ReportFailure, Running
  <2>2. CASE ~(Sweep \/ Kill \/ ReportFailure)
    BY <2>2 DEF SharedSteps, MakeDirectory, PathReady, OpenDirectory, Publish, OperationFails, UndoFile,
                Restore, UndoDirectory, NothingToUndo, UndoFails, JournalUndone
  <2> QED BY <2>1, <2>2
<1>2. outcome = "running"
  BY <1>1, Zenon DEF ChangeInv, JournalInv
<1>3. CASE ReportFailure
  <2>1. phase' = "done" /\ outcome' \in {"failed", "rollback failed"}
    BY <1>3, Zenon DEF ReportFailure, Finish
  <2>2. phase' \notin {"publish", "rmdir", "sweep", "validate", "restore"}
    BY <2>1, Zenon
  <2> QED BY <1>1, <1>2, <2>1, <2>2, Zenon
<1>4. CASE Sweep \/ Kill
  <2>1. phase' \in {"cleanup", "killed"} /\ outcome' = outcome
    BY <1>4, Zenon DEF Sweep, Kill
  <2> QED BY <1>1, <1>2, <2>1
<1>5. CASE MakeDirectory \/ PathReady \/ OpenDirectory \/ Publish \/ OperationFails
  <2>1. phase' \in {"walk", "open", "look", "begin", "record", "abandon", "rollback"} /\ outcome' = outcome
    BY <1>5 DEF MakeDirectory, PathReady, OpenDirectory, Publish, OperationFails, Applied, NextAction, Goto, Fail
  <2> QED BY <1>1, <1>2, <2>1
<1>6. CASE Restore \/ UndoDirectory \/ NothingToUndo \/ UndoFails \/ JournalUndone
  <2>1. phase' \in {"rollback", "cleanup"} /\ outcome' = outcome
    BY <1>6 DEF Restore, UndoDirectory, NothingToUndo, UndoFails, JournalUndone, Undone, CannotUndo
  <2> QED BY <1>1, <1>2, <2>1
<1>7. CASE UndoFile
  <2>1. phase' \in {"rollback", "restore"} /\ outcome' = outcome
    BY <1>7 DEF UndoFile, Undone, CannotUndo, Goto
  <2> QED BY <1>1, <1>2, <1>7, <2>1
<1> QED BY <1>3, <1>4, <1>5, <1>6, <1>7, Zenon DEF SharedSteps

LEMMA SharedKeepsLook ==
    ASSUME ChangeInv, LookInv, SharedSteps
    PROVE  LookInv'
<1>1. CASE UndoFile
  <2>1. phase' = "restore" => /\ UNCHANGED <<plan, pc>> /\ held' = Seen(Current.path)
                              /\ files[Current.path].data = After(plan, Current)
    BY <1>1 DEF UndoFile, Undone, CannotUndo, Goto, StillApplied
  <2>2. phase' \in {"restore", "rollback"}
    BY <1>1 DEF UndoFile, Undone, CannotUndo, Goto
  <2> QED BY <2>1, <2>2 DEF LookInv, Seen, Current
<1>2. CASE ~UndoFile
  <2>1. phase' \notin {"publish", "restore", "rmdir", "sweep"}
    BY <1>2, SharedLeads, Zenon
  <2> QED BY <2>1 DEF LookInv
<1> QED BY <1>1, <1>2

(* A step that changes nothing of the process's own                         *)
LEMMA WaitingKeepsLook == LookInv /\ UNCHANGED control => LookInv'
  BY DEF LookInv, control, Current

LEMMA CleanUpLeads ==
    ASSUME NEW known, NEW gone, NEW own, CleanUp(known, gone, own) \/ CleanUpFails(known)
    PROVE  /\ UNCHANGED <<plan, tree, journal, edits, touched, outcome>>
           /\ phase \in {"cleanup", "sweep"} /\ phase' \in {"cleanup", "sweep"}
<1>1. CASE CleanUp(known, gone, own)
  BY <1>1, Zenon DEF CleanUp, editorVars
<1>2. CASE CleanUpFails(known)
  BY <1>2, Zenon DEF CleanUpFails, editorVars
<1> QED BY <1>1, <1>2

LEMMA CleanUpKeepsTrace ==
    ASSUME ChangeInv, TraceInv, NEW known, NEW gone, NEW own, \A d \in own : dirs[d] # "foreign",
           CleanUp(known, gone, own) \/ CleanUpFails(known)
    PROVE  TraceInv'
<1>1. /\ Journaling /\ UNCHANGED <<edits, touched>> /\ phase' \in {"cleanup", "sweep"}
      /\ outcome = "running" /\ outcome' = "running"
  BY CleanUpLeads, Zenon DEF Journaling, ChangeInv, JournalInv
<1>2. phase' = "sweep" => held'.parent # "foreign"
  BY DEF CleanUp, CleanUpFails, ChangeInv, ChangeTypeOK
<1>3. OrderInv'
  BY <1>1, OrderKept DEF TraceInv
<1>4. LookInv' /\ EndInv'
  BY <1>1, <1>2 DEF LookInv, EndInv, TraceInv
<1> QED BY <1>3, <1>4 DEF TraceInv

LEMMA SharedKeepsTrace ==
    ASSUME ChangeInv, TraceInv, SharedSteps
    PROVE  TraceInv'
<1>1. Journaling /\ UNCHANGED <<edits, touched>>
  BY SharedJournaling
<1>2. /\ outcome = "running"
      /\ \/ phase' # "done" /\ outcome' = "running"
         \/ outcome' \in {"failed", "rollback failed"}
  BY SharedLeads, Zenon
<1>4. OrderInv' /\ LookInv'
  BY <1>1, OrderKept, SharedKeepsLook DEF TraceInv
<1>5. EndInv'
  BY <1>1, <1>2, Zenon DEF EndInv, TraceInv
<1> QED BY <1>4, <1>5 DEF TraceInv

LEMMA EditKeepsTrace ==
    ASSUME ChangeInv, TraceInv, Edit
    PROVE  TraceInv'
<1>1. UNCHANGED control /\ edits' = edits + 1 /\ edits \in Nat
  BY DEF Edit, EditTree, EditFile, EditDirectory, ChangeInv, TreeTypeOK
<1>2. OrderInv' /\ LookInv'
  BY <1>1, OrderKept, WaitingKeepsLook DEF TraceInv, Journaling, control
<1>3. EndInv'
  BY <1>1 DEF EndInv, TraceInv, control
<1> QED BY <1>2, <1>3 DEF TraceInv

LEMMA StateTrailsDiskHolds == ChangeInv /\ OrderInv => StateTrailsDisk
<1> SUFFICES ASSUME ChangeInv, OrderInv, ~broken,
                    NEW k \in StateSteps, Changes(k), Shows(k), Untouched(Steps(plan)[k].path),
                    NEW i \in FileSteps, Untouched(Steps(plan)[i].path)
             PROVE  Shows(i)
  BY DEF StateTrailsDisk
<1>1. plan \in Plans /\ k \in FileSteps
  BY DEF ChangeInv, ChangeTypeOK, StateSteps
<1>2. \A n \in FileSteps : n \in DOMAIN Steps(plan) /\ Steps(plan)[n].path \in Files
  BY <1>1, PlanFacts, ActionFacts DEF FileSteps
<1>3. \A n \in FileSteps, m \in DOMAIN Steps(plan) : Wrote(m, Steps(plan)[n].path) => m = n
  BY <1>1, <1>2, PlanFacts DEF DistinctPaths, Wrote
<1>4. k \in journal
  BY <1>1, <1>2, <1>3 DEF ChangeInv, FilesInv, Wrote, Shows, Changes
<1>5. Changes(i) => i \in journal
  <2>1. i <= k /\ i \in Nat /\ k \in Nat
    BY <1>1, <1>2, StateIsLast, PlanFacts
  <2> QED BY <1>4, <2>1 DEF OrderInv
<1>6. CASE i \in journal
  BY <1>2, <1>6 DEF ChangeInv, FilesInv, Wrote, Shows
<1>7. CASE i \notin journal
  BY <1>2, <1>3, <1>5, <1>7 DEF ChangeInv, FilesInv, Wrote, Shows, Changes
<1> QED BY <1>6, <1>7

-----------------------------------------------------------------------------
(* What the shared steps spare *)

SparesAll == /\ \A f \in Files : SparesAlien(f)
             /\ \A d \in Dirs : SparesDirectory(d)

LEMMA QuietSpares == UNCHANGED tree => SparesAll
  BY DEF tree, SparesAll, SparesAlien, SparesDirectory

LEMMA EditSpares == ChangeInv /\ Edit => SparesAll
<1> SUFFICES ASSUME ChangeInv, Edit PROVE edits' # edits
  BY DEF SparesAll, SparesAlien, SparesDirectory
<1> QED BY DEF Edit, EditTree, EditFile, EditDirectory, ChangeInv, TreeTypeOK

LEMMA SharedSpares ==
    ASSUME ChangeInv, LookInv, SharedSteps
    PROVE  SparesAll
<1>1. CASE Publish \/ Restore
  <2>1. /\ phase \in {"publish", "restore"} /\ pc \in FileSteps /\ Current = Steps(plan)[pc]
        /\ Current.path \in Files /\ TreeTypeOK
    BY <1>1, CurrentFacts DEF Publish, Restore, ChangeInv, Position, FileSteps, Current
  <2>2. UNCHANGED dirs /\ \A f \in Files : f # Current.path => files'[f] = files[f]
    BY <1>1, <2>1 DEF Publish, Restore, TreeTypeOK
  <2>3. Alien(Current.path) => held.file # files[Current.path]
    BY <2>1 DEF LookInv, Alien
  <2> QED BY <2>1, <2>2, <2>3 DEF SparesAll, SparesAlien, SparesDirectory
<1>2. CASE MakeDirectory
  <2>1. PICK i \in DOMAIN Above[Current.path] :
           ~Standing(Above[Current.path][i]) /\ dirs' = [dirs EXCEPT ![Above[Current.path][i]] = "engine"]
    BY <1>2 DEF MakeDirectory, FirstMissing
  <2>2. \A d \in Dirs : dirs[d] = "foreign" => dirs'[d] = dirs[d]
    BY <2>1, PathsAssumption DEF Standing, DirNode, Paths, ChangeInv, TreeTypeOK
  <2> QED BY <1>2, <2>2 DEF MakeDirectory, SparesAll, SparesAlien, SparesDirectory
<1>3. CASE UndoDirectory
  <2>1. UNCHANGED files /\ \A d \in Dirs : dirs[d] = "foreign" => dirs'[d] = dirs[d]
    BY <1>3 DEF UndoDirectory, ChangeInv, TreeTypeOK
  <2> QED BY <2>1 DEF SparesAll, SparesAlien, SparesDirectory
<1>4. CASE Sweep
  <2>1. phase = "sweep" /\ UNCHANGED files
    BY <1>4, Zenon DEF Sweep
  <2> QED BY <2>1 DEF LookInv, SparesAll, SparesAlien, SparesDirectory
<1>5. CASE PathReady \/ OpenDirectory \/ OperationFails \/ UndoFile \/ NothingToUndo \/ UndoFails
           \/ JournalUndone \/ ReportFailure \/ Kill
  <2>1. UNCHANGED tree
    BY <1>5, Zenon DEF PathReady, OpenDirectory, OperationFails, UndoFile, NothingToUndo, UndoFails,
                       JournalUndone, ReportFailure, Kill
  <2> QED BY <2>1, QuietSpares
<1> QED BY <1>1, <1>2, <1>3, <1>4, <1>5, Zenon DEF SharedSteps

-----------------------------------------------------------------------------
(* The refinement of AtomicChange, when no other process touches anything   *)

Ended == phase \in {"done", "killed"}
Shown == {f \in ChangedFiles : files[f].data # plan.before[f]}

LEMMA ChangedFacts ==
    ASSUME ChangeInv
    PROVE  /\ ChangedFiles \subseteq Files
           /\ \A f \in ChangedFiles : \E i \in FileSteps : /\ Steps(plan)[i].path = f
                                                        /\ After(plan, Steps(plan)[i]) # plan.before[f]
<1>1. \A i \in FileSteps : Steps(plan)[i].path \in Files
  BY PlanFacts, ActionFacts DEF FileSteps, ChangeInv, ChangeTypeOK
<1> QED BY <1>1 DEF ChangedFiles, Changes

(* What a caller has been told is true of all the files changed.            *)
LEMMA CommittedShows ==
    ASSUME ChangeInv, touched = {}, outcome = "committed"
    PROVE  Shown = ChangedFiles
  BY CommitIsCompleteHolds, ChangedFacts DEF CommitIsComplete, Untouched, Shown

LEMMA AbortedShows ==
    ASSUME ChangeInv, EndInv, touched = {}, outcome \in {"failed", "refused", "predicted", "terminal"}
    PROVE  Shown = {}
<1>1. journal = {} /\ ~broken
  BY Zenon DEF ChangeInv, JournalInv, EndInv
<1>2. \A f \in Files : files[f].data = plan.before[f]
  BY <1>1 DEF ChangeInv, FilesInv, Wrote, Untouched
<1> QED BY <1>2, ChangedFacts DEF Shown

TrueVerdict == /\ Verdict \in Atomic!Verdicts
               /\ Verdict = "open" <=> ~Ended
               /\ Verdict = "committed" => Shown = ChangedFiles
               /\ Verdict = "aborted" => Shown = {}

LEMMA VerdictIsTrue == ChangeInv /\ EndInv /\ touched = {} => TrueVerdict
<1> SUFFICES ASSUME ChangeInv, EndInv, touched = {} PROVE TrueVerdict
  OBVIOUS
<1>1. /\ phase # "done" => outcome = "running"
      /\ phase = "done" => outcome # "running"
      /\ outcome \in Outcomes
  BY Zenon DEF ChangeInv, ChangeTypeOK, JournalInv, EndInv
<1>2. CASE phase = "killed"
  <2>1. outcome = "running" /\ Verdict = "killed"
    BY <1>1, <1>2, Zenon DEF Verdict
  <2> QED BY <1>2, <2>1 DEF TrueVerdict, Ended, Atomic!Verdicts
<1>3. CASE phase \notin {"done", "killed"}
  <2>1. outcome = "running" /\ Verdict = "open"
    BY <1>1, <1>3, Zenon DEF Verdict
  <2> QED BY <1>3, <2>1 DEF TrueVerdict, Ended, Atomic!Verdicts
<1>4. CASE phase = "done" /\ outcome = "committed"
  <2>1. Verdict = "committed"
    BY <1>4, Zenon DEF Verdict
  <2> QED BY <1>4, <2>1, CommittedShows DEF TrueVerdict, Ended, Atomic!Verdicts
<1>5. CASE phase = "done" /\ outcome \in {"failed", "refused", "predicted", "terminal"}
  <2>1. Verdict = "aborted"
    BY <1>5, Zenon DEF Verdict
  <2> QED BY <1>5, <2>1, AbortedShows DEF TrueVerdict, Ended, Atomic!Verdicts
<1>6. CASE phase = "done" /\ outcome = "rollback failed"
  <2>1. Verdict = "incomplete"
    BY <1>6, Zenon DEF Verdict
  <2> QED BY <1>6, <2>1, Zenon DEF TrueVerdict, Ended, Atomic!Verdicts
<1> QED BY <1>1, <1>2, <1>3, <1>4, <1>5, <1>6, Zenon DEF Outcomes

LEMMA StepIsAtomic ==
    ASSUME TrueVerdict, TrueVerdict', UNCHANGED plan, ChangeInv, ~Ended,
           \/ UNCHANGED files
           \/ ~Ended' /\ \E f \in Files : \A g \in Files : g # f => files'[g] = files[g]
    PROVE  [Atomic!Next]_(Atomic!vars)
<1>1. ChangedFiles' = ChangedFiles /\ ChangedFiles \subseteq Files
  BY ChangedFacts DEF ChangedFiles, FileSteps, Changes
<1>2. Verdict = "open"
  BY DEF TrueVerdict
<1>3. CASE UNCHANGED files
  <2>1. Shown' = Shown
    BY <1>1, <1>3 DEF Shown
  <2>2. CASE Verdict' # "open"
    <3>1. Verdict' \in Atomic!Verdicts \ {"open"}
      BY <2>2 DEF TrueVerdict, Atomic!Verdicts
    <3>2. (Verdict' = "committed" => Shown = ChangedFiles) /\ (Verdict' = "aborted" => Shown = {})
      BY <1>1, <2>1 DEF TrueVerdict
    <3>3. Atomic!Conclude(Verdict')
      BY <1>1, <1>2, <2>1, <3>2 DEF Atomic!Conclude, Shown
    <3> QED BY <3>1, <3>3 DEF Atomic!Next
  <2>3. CASE Verdict' = "open"
    BY <1>1, <1>2, <2>1, <2>3 DEF Atomic!vars, Shown
  <2> QED BY <2>2, <2>3
<1>4. ASSUME ~Ended', NEW f \in Files, \A g \in Files : g # f => files'[g] = files[g]
      PROVE  [Atomic!Next]_(Atomic!vars)
  <2>1. Verdict' = "open"
    BY <1>4 DEF TrueVerdict
  <2>2. CASE f \notin ChangedFiles
    <3>1. Shown' = Shown
      BY <1>1, <1>4, <2>2 DEF Shown
    <3> QED BY <1>1, <1>2, <2>1, <3>1 DEF Atomic!vars, Shown
  <2>3. CASE f \in ChangedFiles /\ files'[f].data = plan.before[f]
    <3>1. Shown' = Shown \ {f}
      BY <1>1, <1>4, <2>3 DEF Shown
    <3> QED BY <1>1, <1>2, <2>1, <2>3, <3>1 DEF Atomic!Next, Atomic!Undo, Shown
  <2>4. CASE f \in ChangedFiles /\ files'[f].data # plan.before[f]
    <3>1. Shown' = Shown \union {f}
      BY <1>1, <1>4, <2>4 DEF Shown
    <3> QED BY <1>1, <1>2, <2>1, <2>4, <3>1 DEF Atomic!Next, Atomic!Apply, Shown
  <2> QED BY <2>2, <2>3, <2>4
<1> QED BY <1>3, <1>4

LEMMA StillIsAtomic == UNCHANGED <<tree, control>> => UNCHANGED Atomic!vars
<1> SUFFICES ASSUME UNCHANGED <<tree, control>> PROVE UNCHANGED Atomic!vars
  OBVIOUS
<1>1. UNCHANGED <<files, plan, phase, outcome>>
  BY DEF tree, control
<1>2. ChangedFiles' = ChangedFiles
  BY <1>1 DEF ChangedFiles, FileSteps, Changes
<1>3. Verdict' = Verdict
  BY <1>1, Zenon DEF Verdict
<1> QED BY <1>1, <1>2, <1>3 DEF Atomic!vars

LEMMA InitIsAtomic == ChangeInit => Atomic!Init
<1> SUFFICES ASSUME ChangeInit PROVE Atomic!Init
  OBVIOUS
<1>1. ChangeInv /\ outcome = "running" /\ phase = "validate"
  BY InitEstablishes DEF ChangeInit
<1>2. \A f \in Files : files[f].data = plan.before[f]
  BY <1>1, NodeFacts, PlanFacts DEF ChangeInit, TreeOf, Inodes
<1>3. Verdict = "open" /\ ChangedFiles \subseteq Files
  BY <1>1, ChangedFacts DEF Verdict
<1> QED BY <1>2, <1>3 DEF Atomic!Init

LEMMA SharedChangesOneFile ==
    ASSUME ChangeInv, SharedSteps
    PROVE  \/ UNCHANGED files
           \/ ~Ended' /\ \E f \in Files : \A g \in Files : g # f => files'[g] = files[g]
<1>1. CASE Publish \/ Restore
  <2>1. Current.path \in Files /\ TreeTypeOK
    BY <1>1, CurrentFacts DEF Publish, Restore, ChangeInv, Position, FileSteps
  <2>2. \A g \in Files : g # Current.path => files'[g] = files[g]
    BY <1>1, <2>1 DEF Publish, Restore, TreeTypeOK
  <2>3. phase' \notin {"done", "killed"}
    BY <1>1 DEF Publish, Restore, Applied, NextAction, Goto, Fail, Undone, CannotUndo
  <2> QED BY <2>1, <2>2, <2>3 DEF Ended
<1>2. CASE ~(Publish \/ Restore)
  <2>1. UNCHANGED files
    BY <1>2, Zenon DEF SharedSteps, MakeDirectory, PathReady, OpenDirectory, OperationFails, UndoFile,
         UndoDirectory, NothingToUndo, UndoFails, JournalUndone, Sweep, ReportFailure, Kill, tree
  <2> QED BY <2>1
<1> QED BY <1>1, <1>2, Zenon
=============================================================================
