---------------------------- MODULE ManagedTree ----------------------------
(***************************************************************************)
(* The files and directories below an allowed root that oaw manages, as    *)
(* internal/management sees them, and the editor: any other process - the  *)
(* user, the Host, another oaw - that changes them.  There is no lock.     *)
(***************************************************************************)
EXTENDS Integers, Sequences, FiniteSets

CONSTANTS Files,      \* destinations that are regular files
          Dirs,       \* directories between an allowed root and a destination
          Above,      \* path -> the directories on its relative suffix, outermost first
          Data,       \* file contents (bytes and permissions together)
          Absent,     \* the content of a missing file
          MaxEdits    \* bound: changes made by the editor

Paths == Files \union Dirs
Root == "allowed root"
Parent(p) == IF Above[p] = <<>> THEN Root ELSE Above[p][Len(Above[p])]

(* Who created an inode: it was there at preparation, oaw created it, or   *)
(* somebody else did.  os.SameFile tells these apart.                      *)
Inodes == {"prepared", "engine", "foreign"}
DirNodes == {"missing"} \union Inodes
AbsentFile == [data |-> Absent, inode |-> "none"]
FileNodes == [data : Data, inode : Inodes] \union {AbsentFile}
FileNode(d, creator) == IF d = Absent THEN AbsentFile ELSE [data |-> d, inode |-> creator]

ASSUME PathsAssumption == /\ Files \intersect Dirs = {}
                          /\ Root \notin Paths
                          /\ Above \in [Paths -> Seq(Dirs)]
                          /\ Absent \notin Data
ASSUME MaxEditsAssumption == MaxEdits \in Nat

VARIABLES files,      \* Files -> content and creator
          dirs,       \* Dirs -> "missing" or the creator of the directory
          edits,      \* editor steps so far
          touched     \* paths the editor has changed (history)

tree == <<files, dirs>>
editorVars == <<edits, touched>>

TreeTypeOK == /\ files \in [Files -> FileNodes]
              /\ dirs \in [Dirs -> DirNodes]
              /\ edits \in 0..MaxEdits
              /\ touched \subseteq Paths

(* The tree of a preparation: contents and the directories that stand.      *)
TreeOf(before, standing) ==
    /\ files = [f \in Files |-> FileNode(before[f], "prepared")]
    /\ dirs = [d \in Dirs |-> IF d \in standing THEN "prepared" ELSE "missing"]
    /\ edits = 0 /\ touched = {}

DirNode(p) == IF p = Root THEN "prepared" ELSE dirs[p]
Standing(p) == DirNode(p) # "missing"
Empty(d) == /\ \A f \in Files : Parent(f) = d => files[f] = AbsentFile
            /\ \A e \in Dirs : Parent(e) = d => dirs[e] = "missing"

SomeMissing(p) == \E i \in DOMAIN Above[p] : ~Standing(Above[p][i])
FirstMissing(p, i) == /\ ~Standing(Above[p][i])
                      /\ \A j \in 1..(i - 1) : Standing(Above[p][j])

Untouched(p) == p \notin touched

-----------------------------------------------------------------------------
EditFile(f, d) == /\ edits < MaxEdits /\ Standing(Parent(f))
                  /\ files' = [files EXCEPT ![f] = FileNode(d, "foreign")]
                  /\ edits' = edits + 1 /\ touched' = touched \union {f}
                  /\ UNCHANGED dirs

EditDirectory(d, node) == /\ edits < MaxEdits /\ Standing(Parent(d)) /\ Empty(d)
                          /\ dirs' = [dirs EXCEPT ![d] = node]
                          /\ edits' = edits + 1 /\ touched' = touched \union {d}
                          /\ UNCHANGED files

EditTree == \/ \E f \in Files, d \in Data \union {Absent} : EditFile(f, d)
            \/ \E d \in Dirs, node \in {"missing", "foreign"} : EditDirectory(d, node)
=============================================================================
