--------------------------- MODULE BridgeInstall ---------------------------
(***************************************************************************)
(* Installation, update and removal of the Codex Bridge: a payload in the  *)
(* data root, the record install.json, and two registrations kept by       *)
(* Codex, which is asked through its command line.  One command runs at a  *)
(* time; it may be killed anywhere, and another one may follow.  The user  *)
(* edits the payload, the record and the registrations at any moment.      *)
(***************************************************************************)
EXTENDS Naturals, Sequences, FiniteSets

CONSTANTS Versions,     \* releases of the Bridge
          MaxCommands,  \* how many commands are given, one after the other
          MaxEdits,     \* how often somebody else interferes
          MaxFaults     \* how many calls of one command fail

ASSUME VersionsAssumption == Versions # {} /\ Versions \cap {"drift", "extra", "none", "other", "twice"} = {}
ASSUME BoundsAssumption == MaxCommands \in Nat /\ MaxEdits \in Nat /\ MaxFaults \in Nat

VARIABLES disk,      \* the two directories of a payload: live, staged, backed up
          litter,    \* what is left in staging and backup directories nobody uses any more
          record,    \* install.json
          codex,     \* the registrations Codex has
          request,   \* what the command was asked to do
          pc, i,     \* the call it is about to make, and on which directory or move
          read,      \* the record it has read
          undo,      \* the registrations it has to take back
          failed,    \* whether taking them back failed
          backward,  \* whether it is rolling back
          remaining, \* owned files it could not remove
          seen,      \* what it saw last: of a payload file, or of the record
          outcome,   \* what it has reported
          before, touched,  \* the state when it began, and what others changed since
          faults, edits, commands

tree == <<disk, litter>>
control == <<request, pc, i, read, undo, failed, backward, remaining, seen>>
history == <<before, touched, edits, commands>>
vars == <<tree, record, codex, control, outcome, history, faults>>

-----------------------------------------------------------------------------
(* A payload directory holds one owned file - of some version, or changed  *)
(* since - and perhaps files nobody recorded.                              *)
Tops == {"bin", "marketplace"}
Order == <<"bin", "marketplace">>
Places == {"live", "stage", "backup"}
Foreign == {"drift", "extra"}
OwnPath == Versions \union {"drift"}
Dirs == [there : BOOLEAN, items : SUBSET (Versions \union Foreign)]
NoDir == [there |-> FALSE, items |-> {}]
Dir(items) == [there |-> TRUE, items |-> items]

Records == [version : Versions, files : SUBSET Tops, by : {"oaw", "other"}]
NoRecord == [version |-> "none", files |-> {}, by |-> "none"]
Full(v) == [version |-> v, files |-> Tops, by |-> "oaw"]

Requests == [op : {"install", "update"}, version : Versions, dryRun : BOOLEAN]
              \union {[op |-> "uninstall", version |-> "none", dryRun |-> FALSE]}
Marketplaces == {"none", "ours", "other", "twice"}
Plugins == Versions \union {"none", "other", "twice"}
PCs == {"idle", "read", "inspect", "registered", "list", "stage", "recheck", "move", "unmove", "unstage",
        "addMarketplace", "addPlugin", "removePlugin", "undoPlugin", "undoMarketplace", "erase", "remove",
        "sweep", "restore", "unrestore", "readd", "write", "rename", "dropBackup", "forget", "unlink",
        "giveUp", "rolledBack", "committed", "uncleaned"}
Outcomes == {"none", "running", "killed", "refused", "predicted", "done", "failed", "rolled back", "incomplete", "cleanup incomplete"}

Op == request.op
T == Order[i]
Go(p) == pc' = p
Same == UNCHANGED <<request, read, undo, failed, backward, remaining, seen>>

(* A call works; or it fails because of what it meets, or for no reason    *)
(* the command can see.                                                    *)
Works == UNCHANGED faults
CallFails(because) == \/ because /\ UNCHANGED faults
                      \/ faults < MaxFaults /\ faults' = faults + 1

Nothing == [file |-> {}, record |-> NoRecord]
Snapshot == [live |-> disk["live"], record |-> record, codex |-> codex]

Init == /\ disk = [p \in Places |-> [t \in Tops |-> NoDir]]
        /\ litter = [t \in Tops |-> {}]
        /\ record = NoRecord
        /\ codex = [marketplace |-> "none", plugin |-> "none"]
        /\ request = [op |-> "uninstall", version |-> "none", dryRun |-> FALSE]
        /\ pc = "idle" /\ i = 1 /\ read = NoRecord
        /\ undo = {} /\ failed = FALSE /\ backward = FALSE /\ remaining = {} /\ seen = Nothing
        /\ outcome = "none" /\ before = Snapshot /\ touched = {}
        /\ faults = 0 /\ edits = 0 /\ commands = 0

-----------------------------------------------------------------------------
(* The end of a command.  The names of staging and backup directories are  *)
(* random: no later command finds them again.                              *)
Leave(o, kept) ==
    /\ disk' = [disk EXCEPT !["stage"] = [t \in Tops |-> NoDir], !["backup"] = [t \in Tops |-> NoDir]]
    /\ litter' = [t \in Tops |-> litter[t] \union UNION {disk[p][t].items : p \in kept}]
    /\ pc' = "idle" /\ i' = 1 /\ read' = NoRecord
    /\ undo' = {} /\ failed' = FALSE /\ backward' = FALSE /\ remaining' = {} /\ seen' = Nothing
    /\ outcome' = o
    /\ UNCHANGED <<request, history>>
Conclude(o) == Leave(o, {"stage", "backup"}) /\ UNCHANGED <<record, codex>>

Continue == UNCHANGED <<outcome, history>>

Begin(r) == /\ pc = "idle" /\ commands < MaxCommands
            /\ request' = r /\ pc' = "read" /\ outcome' = "running"
            /\ before' = Snapshot /\ touched' = {} /\ faults' = 0 /\ commands' = commands + 1
            /\ UNCHANGED <<tree, record, codex, i, read, undo, failed, backward, remaining, seen, edits>>

ReadRecord == /\ pc = "read"
              /\ IF (record = NoRecord) = (Op = "install")
                 THEN /\ Go(CASE Op = "install" -> "stage" [] Op = "update" -> "inspect" [] OTHER -> "list")
                      /\ read' = record
                      /\ UNCHANGED <<tree, record, codex, request, i, undo, failed, backward, remaining, seen>> /\ Continue
                 ELSE Conclude("refused")
              /\ Works

(* An update insists on an exact payload and exact registrations.          *)
Exact(t) == disk["live"][t] = Dir(IF t \in read.files THEN {read.version} ELSE {})
InspectPayload == /\ pc = "inspect"
                  /\ IF \A t \in Tops : Exact(t)
                     THEN Go("registered") /\ Same /\ UNCHANGED <<tree, record, codex, i>> /\ Continue
                     ELSE Conclude("refused")
                  /\ Works
InspectRegistration == /\ pc = "registered"
                       /\ IF codex = [marketplace |-> "ours", plugin |-> read.version]
                          THEN Go("stage") /\ Same /\ UNCHANGED <<tree, record, codex, i>> /\ Continue
                          ELSE Conclude("refused")
                       /\ Works

(* A registration Codex lists twice counts as none.                        *)
Listed == {n \in {"plugin", "marketplace"} : codex[n] \notin {"none", "twice"}}
ListRegistrations == /\ pc = "list"
                     /\ undo' = Listed /\ Go("undoPlugin")
                     /\ UNCHANGED <<tree, record, codex, request, i, read, failed, backward, remaining, seen>> /\ Continue /\ Works

Fresh == \A t \in Tops : ~disk["live"][t].there
Stage == /\ pc = "stage"
         /\ \/ request.dryRun /\ Conclude("predicted")
            \/ ~request.dryRun /\ Op = "install" /\ ~Fresh /\ Conclude("refused")
            \/ /\ ~request.dryRun /\ (Op = "install" => Fresh)
               /\ disk' = [disk EXCEPT !["stage"] = [t \in Tops |-> Dir({request.version})]]
               /\ Go(IF Op = "install" THEN "recheck" ELSE "move")
               /\ Same /\ UNCHANGED <<litter, record, codex, i>> /\ Continue
         /\ Works

Recheck == /\ pc = "recheck"
           /\ \/ Fresh /\ Works /\ Go("move")
              \/ CallFails(~Fresh) /\ Go("unstage")
           /\ Same /\ UNCHANGED <<tree, record, codex, i>> /\ Continue

(* Any inspection before the first change may fail, and the command ends.  *)
Refuse == pc \in {"read", "inspect", "registered", "list", "stage"} /\ CallFails(FALSE) /\ Conclude("refused")

-----------------------------------------------------------------------------
(* Publication: renames of whole directories, taken back in reverse order. *)
Move(from, to, top) == [from |-> from, to |-> to, top |-> top]
Moves == (IF Op = "install" THEN <<>> ELSE <<Move("live", "backup", "bin"), Move("live", "backup", "marketplace")>>)
            \o <<Move("stage", "live", "bin"), Move("stage", "live", "marketplace")>>
Free(d) == ~d.there \/ d.items = {}
CanMove(m) == disk[m.from][m.top].there /\ Free(disk[m.to][m.top])
Moved(m) == [disk EXCEPT ![m.from][m.top] = NoDir, ![m.to][m.top] = disk[m.from][m.top]]
Back(m) == Move(m.to, m.from, m.top)

(* Mutant: a failed publication is not taken back.                         *)
MovePayloadFaulty == /\ pc = "move"
                     /\ \/ /\ CanMove(Moves[i]) /\ Works /\ disk' = Moved(Moves[i])
                           /\ IF i < Len(Moves) THEN Go("move") /\ i' = i + 1
                              ELSE Go(IF Op = "install" THEN "addMarketplace" ELSE "removePlugin") /\ i' = 1
                        \/ CallFails(~CanMove(Moves[i])) /\ disk' = disk /\ i' = 1 /\ Go("unstage")
                     /\ Same /\ UNCHANGED <<litter, record, codex>> /\ Continue
MovePayload == /\ pc = "move"
               /\ \/ /\ CanMove(Moves[i]) /\ Works /\ disk' = Moved(Moves[i])
                     /\ IF i < Len(Moves) THEN Go("move") /\ i' = i + 1
                        ELSE Go(IF Op = "install" THEN "addMarketplace" ELSE "removePlugin") /\ i' = 1
                  \/ CallFails(~CanMove(Moves[i])) /\ disk' = disk /\ i' = i - 1 /\ Go("unmove")
               /\ Same /\ UNCHANGED <<litter, record, codex>> /\ Continue

UnmovePayload == /\ pc = "unmove"
                 /\ \/ i = 0 /\ Works /\ Go("unstage") /\ i' = 1 /\ disk' = disk
                    \/ /\ i > 0 /\ Go("unmove") /\ i' = i - 1
                       /\ \/ CanMove(Back(Moves[i])) /\ Works /\ disk' = Moved(Back(Moves[i]))
                          \/ CallFails(~CanMove(Back(Moves[i]))) /\ disk' = disk
                 /\ Same /\ UNCHANGED <<litter, record, codex>> /\ Continue

(* Mutant: the backup is deleted with the staging directory.               *)
UnstageFaulty == pc = "unstage" /\ Works /\ Leave("failed", {}) /\ UNCHANGED <<record, codex>>
Unstage == /\ pc = "unstage"
           /\ \/ Works /\ Leave("failed", {"backup"})
              \/ CallFails(FALSE) /\ Leave("failed", {"stage", "backup"})
           /\ UNCHANGED <<record, codex>>

-----------------------------------------------------------------------------
(* Codex.  A command that reports success has had its effect; one that     *)
(* reports failure, or that timed out, may have had it.                    *)
Manifest == disk["live"]["marketplace"].items \intersect OwnPath
AddedVersion == IF Manifest \subseteq Versions THEN CHOOSE v \in Versions : v \in Manifest ELSE "other"
Effect(call) == CASE call = "add marketplace" -> [codex EXCEPT !.marketplace = "ours"]
                  [] call = "add plugin" -> IF Manifest = {} THEN codex ELSE [codex EXCEPT !.plugin = AddedVersion]
                  [] call = "remove plugin" -> [codex EXCEPT !.plugin = "none"]
                  [] call = "remove marketplace" -> [codex EXCEPT !.marketplace = "none"]
Succeeds(call) == Works /\ (call = "add plugin" => Manifest # {}) /\ codex' = Effect(call)
Fails(call) == CallFails(call = "add plugin" /\ Manifest = {}) /\ codex' \in {codex, Effect(call)}

RollBack(registrations) == /\ Go("undoPlugin") /\ undo' = registrations /\ backward' = TRUE
                           /\ UNCHANGED <<request, read, failed, remaining, seen>>

AddMarketplace == /\ pc = "addMarketplace"
                  /\ \/ Succeeds("add marketplace") /\ Go("addPlugin") /\ Same
                     \/ Fails("add marketplace") /\ RollBack({"marketplace"})
                  /\ UNCHANGED <<tree, record, i>> /\ Continue

AddPlugin == /\ pc = "addPlugin"
             /\ \/ Succeeds("add plugin") /\ Go("write") /\ Same
                \/ Fails("add plugin") /\ RollBack({"plugin", "marketplace"})
             /\ UNCHANGED <<tree, record, i>> /\ Continue

(* The first Codex call of an update.                                      *)
RemovePlugin == /\ pc = "removePlugin"
                /\ \/ Succeeds("remove plugin") /\ Go("addPlugin") /\ Same
                   \/ Fails("remove plugin") /\ RollBack({})
                /\ UNCHANGED <<tree, record, i>> /\ Continue

(* Taking back registrations: by a rollback, or by an uninstall.           *)
TakeBack(name, call) ==
    \/ name \notin undo /\ Works /\ UNCHANGED <<codex, failed>>
    \/ name \in undo /\ Succeeds(call) /\ UNCHANGED failed
    \/ name \in undo /\ Fails(call) /\ failed' = TRUE

UndoPlugin == /\ pc = "undoPlugin"
              /\ TakeBack("plugin", "remove plugin")
              /\ Go(IF Op = "update" THEN "erase" ELSE "undoMarketplace")
              /\ UNCHANGED <<tree, record, request, i, read, undo, backward, remaining, seen>> /\ Continue

(* With a registration left the payload stays; a rolled back install then  *)
(* records it all the same, so that it can be removed later.               *)
(* Mutant: a failure to take back a registration is forgotten.             *)
UndoMarketplaceFaulty ==
    /\ pc = "undoMarketplace"
    /\ TakeBack("marketplace", "remove marketplace") /\ Go("erase")
    /\ UNCHANGED <<tree, record, request, i, read, undo, backward, remaining, seen>> /\ Continue
UndoMarketplace == /\ pc = "undoMarketplace"
                   /\ TakeBack("marketplace", "remove marketplace")
                   /\ Go(CASE ~failed' -> "erase" [] failed' /\ backward -> "write" [] OTHER -> "giveUp")
                   /\ UNCHANGED <<tree, record, request, i, read, undo, backward, remaining, seen>> /\ Continue
GiveUp == pc = "giveUp" /\ Works /\ Conclude("incomplete")

-----------------------------------------------------------------------------
(* Removal of owned files: what does not have the recorded digest stays.   *)
Owned == IF Op = "uninstall" THEN read ELSE Full(request.version)
Onward == IF i < Len(Order) THEN Go("erase") /\ i' = i + 1 ELSE Go("sweep") /\ i' = 1
KeptFaulty == remaining' = remaining \union {"live"}
Kept == remaining' = remaining \union {T}

(* Mutant: removes whatever lies at the path of an owned file.             *)
LookAtFileFaulty ==
    /\ pc = "erase"
    /\ LET own == disk["live"][T].items \intersect OwnPath IN
       \/ (T \notin Owned.files \/ own = {}) /\ Works /\ Onward /\ UNCHANGED <<remaining, seen>>
       \/ T \in Owned.files /\ own # {} /\ Works /\ Go("remove") /\ seen' = [Nothing EXCEPT !.file = own] /\ UNCHANGED <<i, remaining>>
    /\ UNCHANGED <<tree, record, codex, request, read, undo, failed, backward>> /\ Continue
LookAtFile == /\ pc = "erase"
              /\ LET own == disk["live"][T].items \intersect OwnPath IN
                 \/ (T \notin Owned.files \/ own = {}) /\ Works /\ Onward /\ UNCHANGED <<remaining, seen>>
                 \/ T \in Owned.files /\ own = {Owned.version} /\ Works /\ Go("remove") /\ seen' = [Nothing EXCEPT !.file = own] /\ UNCHANGED <<i, remaining>>
                 \/ T \in Owned.files /\ own # {} /\ CallFails(own # {Owned.version}) /\ Onward /\ Kept /\ UNCHANGED seen
              /\ UNCHANGED <<tree, record, codex, request, read, undo, failed, backward>> /\ Continue

RemoveFile == /\ pc = "remove"
              /\ \/ disk' = [disk EXCEPT !["live"][T].items = @ \ OwnPath] /\ Works /\ UNCHANGED remaining
                 \/ CallFails(FALSE) /\ disk' = disk /\ Kept
              /\ Onward /\ seen' = Nothing
              /\ UNCHANGED <<litter, record, codex, request, read, undo, failed, backward>> /\ Continue

(* Directories of owned files go when they are empty and rmdir works.      *)
(* Mutant: an uninstall forgets its record whatever it could not remove.   *)
SweepDirectoriesFaulty ==
    /\ pc = "sweep"
    /\ Go(CASE Op = "update" -> "restore" [] Op = "install" -> "rolledBack" [] OTHER -> "forget")
    /\ Same /\ UNCHANGED <<tree, record, codex, i>> /\ Continue /\ Works
SweepDirectories ==
    /\ pc = "sweep"
    /\ \E gone \in SUBSET {t \in Owned.files : disk["live"][t].items = {}} :
          disk' = [disk EXCEPT !["live"] = [t \in Tops |-> IF t \in gone THEN NoDir ELSE @[t]]]
    /\ Go(CASE Op = "update" /\ remaining = {} -> "restore"
             [] Op = "update" /\ remaining # {} -> "giveUp"
             [] Op = "install" /\ remaining = {} -> "rolledBack"
             [] Op = "uninstall" /\ remaining = {} -> "forget"
             [] OTHER -> "write")
    /\ Same /\ UNCHANGED <<litter, record, codex, i>> /\ Continue /\ Works
RolledBack == pc = "rolledBack" /\ Works /\ Conclude("rolled back")

(* The rollback of an update puts the backup in place again.               *)
RestorePayload ==
    /\ pc = "restore"
    /\ LET m == Move("backup", "live", T) IN
       \/ /\ CanMove(m) /\ Works /\ disk' = Moved(m)
          /\ IF i < Len(Order) THEN Go("restore") /\ i' = i + 1 ELSE Go("readd") /\ i' = 1
       \/ CallFails(~CanMove(m)) /\ disk' = disk /\ i' = 1 /\ Go(IF i = 1 THEN "giveUp" ELSE "unrestore")
    /\ Same /\ UNCHANGED <<litter, record, codex>> /\ Continue

UnrestorePayload == /\ pc = "unrestore"
                    /\ LET m == Move("live", "backup", T) IN
                       \/ CanMove(m) /\ Works /\ disk' = Moved(m)
                       \/ CallFails(~CanMove(m)) /\ disk' = disk
                    /\ Go("giveUp") /\ Same /\ UNCHANGED <<litter, record, codex, i>> /\ Continue

ReaddPlugin == /\ pc = "readd"
               /\ \/ Succeeds("add plugin") /\ Go(IF failed THEN "giveUp" ELSE "rolledBack")
                  \/ Fails("add plugin") /\ Go("giveUp")
               /\ Same /\ UNCHANGED <<tree, record, i>> /\ Continue

-----------------------------------------------------------------------------
(* The record: looked at once more, then renamed into place or unlinked.   *)
Wanted == CASE Op = "uninstall" -> [read EXCEPT !.files = remaining]
            [] Op # "uninstall" /\ remaining # {} -> [Full(request.version) EXCEPT !.files = remaining]
            [] OTHER -> Full(request.version)

(* A write that fails going forward starts the rollback; one of a rollback *)
(* is passed over.                                                         *)
WriteFails == IF backward THEN Conclude("incomplete")
              ELSE IF Op = "uninstall" THEN Conclude("failed")
              ELSE /\ RollBack(IF Op = "install" THEN {"plugin", "marketplace"} ELSE {"plugin"})
                   /\ UNCHANGED <<tree, record, codex, i>> /\ Continue

LookAtRecord == /\ pc = "write"
                /\ \/ /\ record = read /\ Works /\ Go("rename") /\ seen' = [Nothing EXCEPT !.record = record]
                      /\ UNCHANGED <<tree, record, codex, request, i, read, undo, failed, backward, remaining>> /\ Continue
                   \/ CallFails(record # read) /\ WriteFails

WriteRecord == /\ pc = "rename"
               /\ \/ /\ record' = Wanted /\ Works
                     /\ IF Op = "update" /\ ~backward
                        THEN /\ Go("dropBackup") /\ seen' = Nothing
                             /\ UNCHANGED <<tree, codex, request, i, read, undo, failed, backward, remaining>> /\ Continue
                        ELSE /\ Leave(IF backward THEN "incomplete" ELSE "done", {"stage", "backup"})
                             /\ UNCHANGED codex
                  \/ CallFails(FALSE) /\ WriteFails

(* The backup of a committed update: recorded files in it are removed.     *)
DropBackup == /\ pc = "dropBackup"
              /\ \E stuck \in SUBSET Tops :
                    LET left(t) == IF t \in stuck THEN disk["backup"][t].items
                                   ELSE disk["backup"][t].items \ {read.version} IN
                    /\ IF stuck = {} THEN Works ELSE CallFails(FALSE)
                    /\ disk' = [disk EXCEPT !["backup"] = [t \in Tops |-> IF left(t) = {} THEN NoDir ELSE Dir(left(t))]]
                    /\ Go(IF \A t \in Tops : left(t) = {} THEN "committed" ELSE "uncleaned")
              /\ Same /\ UNCHANGED <<litter, record, codex, i>> /\ Continue
Committed == pc = "committed" /\ Works /\ Conclude("done")
Uncleaned == pc = "uncleaned" /\ Works /\ Conclude("cleanup incomplete")

LookBeforeForgetting == /\ pc = "forget"
                        /\ \/ record = NoRecord /\ Works /\ Conclude("done")
                           \/ /\ record = read /\ Works /\ Go("unlink") /\ seen' = [Nothing EXCEPT !.record = record]
                              /\ UNCHANGED <<tree, record, codex, request, i, read, undo, failed, backward, remaining>> /\ Continue
                           \/ CallFails(record # read) /\ Conclude("failed")
ForgetRecord == /\ pc = "unlink"
                /\ \/ Works /\ record' = NoRecord /\ Leave("done", {"stage", "backup"}) /\ UNCHANGED codex
                   \/ CallFails(FALSE) /\ Conclude("failed")

-----------------------------------------------------------------------------
(* The process may be killed at any point: what it staged or backed up is  *)
(* nobody's from then on.                                                  *)
Kill == pc # "idle" /\ Works /\ Conclude("killed")

(* Somebody else: overwrites, adds or deletes a file of the payload, takes *)
(* a directory away, edits the record, changes registrations.              *)
EditedDirs(d) == {NoDir, Dir(d.items \ OwnPath), Dir(d.items \union {"extra"}),
                  Dir((d.items \ OwnPath) \union {"drift"})}
Edit == /\ edits < MaxEdits /\ edits' = edits + 1
        /\ \/ \E t \in Tops : \E d \in EditedDirs(disk["live"][t]) \ {disk["live"][t]} :
                 /\ disk' = [disk EXCEPT !["live"][t] = d]
                 /\ touched' = touched \union {t} /\ UNCHANGED <<record, codex>>
           \/ /\ record' \in ({NoRecord} \union {[Full(v) EXCEPT !.by = "other"] : v \in Versions}) \ {record}
              /\ touched' = touched \union {"record"} /\ UNCHANGED <<disk, codex>>
           \/ /\ codex' \in [marketplace : Marketplaces, plugin : Plugins] \ {codex}
              /\ touched' = touched \union {"codex"} /\ UNCHANGED <<disk, record>>
        /\ UNCHANGED <<litter, control, outcome, faults, before, commands>>

Command == \/ ReadRecord \/ InspectPayload \/ InspectRegistration \/ ListRegistrations \/ Stage \/ Recheck \/ Refuse
           \/ MovePayload \/ UnmovePayload \/ Unstage
           \/ AddMarketplace \/ AddPlugin \/ RemovePlugin \/ UndoPlugin \/ UndoMarketplace \/ GiveUp
           \/ LookAtFile \/ RemoveFile \/ SweepDirectories \/ RolledBack
           \/ RestorePayload \/ UnrestorePayload \/ ReaddPlugin
           \/ LookAtRecord \/ WriteRecord \/ DropBackup \/ Committed \/ Uncleaned
           \/ LookBeforeForgetting \/ ForgetRecord
Next == \/ \E r \in Requests : Begin(r)
        \/ Command \/ Kill \/ Edit
        \/ pc = "idle" /\ commands = MaxCommands /\ UNCHANGED vars

Spec == Init /\ [][Next]_vars

-----------------------------------------------------------------------------
Untouched(x) == x \notin touched
Live(t) == disk["live"][t].items

TypeOK == /\ disk \in [Places -> [Tops -> Dirs]]
          /\ litter \in [Tops -> SUBSET (Versions \union Foreign)]
          /\ record \in Records \union {NoRecord}
          /\ codex \in [marketplace : Marketplaces, plugin : Plugins]
          /\ request \in Requests /\ pc \in PCs /\ i \in 0..4
          /\ read \in Records \union {NoRecord}
          /\ undo \subseteq {"plugin", "marketplace"} /\ failed \in BOOLEAN /\ backward \in BOOLEAN
          /\ remaining \subseteq Tops
          /\ seen \in [file : SUBSET OwnPath, record : Records \union {NoRecord}]
          /\ outcome \in Outcomes
          /\ before \in [live : [Tops -> Dirs], record : Records \union {NoRecord},
                         codex : [marketplace : Marketplaces, plugin : Plugins]]
          /\ touched \subseteq Tops \union {"record", "codex"}
          /\ faults \in 0..MaxFaults /\ edits \in 0..MaxEdits /\ commands \in 0..MaxCommands

(* A command that says it did nothing, or rolled everything back, has left *)
(* payload, record and registrations as it found them, whatever failed     *)
(* underway.  An install takes its registrations back even where some      *)
(* were there before.                                                      *)
AsBefore == /\ \A t \in Tops : Untouched(t) => Live(t) = before.live[t].items
            /\ Untouched("record") => record = before.record
RegistrationsAsBefore ==
    Untouched("codex") /\ Untouched("marketplace") =>
                          \/ codex = before.codex
                          \/ /\ Op = "install" /\ outcome = "rolled back"
                             /\ codex.marketplace = "none" /\ codex.plugin \in {"none", before.codex.plugin}
FailureIsHonest == outcome \in {"refused", "predicted", "rolled back"} => AsBefore /\ RegistrationsAsBefore

(* One failing call is always made good: an install or update that does    *)
(* not complete leaves everything as it was (an update of what a partial   *)
(* uninstall has left has no payload to register again).                   *)
OneFaultIsUndone ==
    /\ pc = "idle" /\ Op # "uninstall" /\ faults <= 1 /\ touched = {}
    /\ Op = "update" => before.record.files \in {{}, Tops}
    /\ outcome \notin {"none", "killed", "done", "cleanup incomplete"}
    => AsBefore /\ RegistrationsAsBefore

(* Success of an install or update: payload, record and registrations name *)
(* the new version.  Success of an uninstall: exactly the owned files that *)
(* are still there are recorded, and Codex has no registration it lists    *)
(* unambiguously.                                                          *)
Complete == /\ \A t \in Tops : Untouched(t) => Live(t) = {request.version}
            /\ Untouched("record") => record = Full(request.version)
            /\ Untouched("codex") /\ Untouched("marketplace") => codex = [marketplace |-> "ours", plugin |-> request.version]
Gone == /\ Untouched("record") => \A t \in before.record.files : Untouched(t) =>
              (Live(t) \intersect OwnPath # {}) = (t \in record.files)
        /\ Untouched("codex") => \A n \in DOMAIN codex : codex[n] \in {"none", "twice"}
SuccessIsComplete == outcome = "done" => IF Op = "uninstall" THEN Gone ELSE Complete

(* From its first rename on, and when it is killed, an update keeps the    *)
(* files of the payload the record names, until the record names the new   *)
(* one.                                                                    *)
PreviousPayloadKept ==
    Op = "update" /\ Untouched("record") /\ record = before.record =>
        \A t \in Tops : Untouched(t) =>
            before.live[t].items \subseteq (UNION {disk[p][t].items : p \in Places}) \union litter[t]

(* What somebody else wrote into the payload, or as the record, is never   *)
(* lost, unless it came between the last look and the removal or rename.   *)
(* A directory a failed publication takes back to staging, and deletes     *)
(* with it, is the exception.                                              *)
SparesFiles == \A t \in Tops : \A x \in Foreign :
    /\ \E p \in Places : x \in disk[p][t].items
    /\ \A p \in Places : x \notin disk'[p][t].items
    /\ x \notin litter'[t] /\ edits' = edits
    => \/ pc = "unstage"
       \/ pc = "remove" /\ T = t /\ seen.file # Live(t) \intersect OwnPath
SparesRecord == record.by = "other" /\ record' # record /\ edits' = edits
                  => \/ pc \in {"rename", "unlink"} /\ seen.record # record
                     \/ record = read
EditsSurvive == [][SparesFiles /\ SparesRecord]_vars
=============================================================================
