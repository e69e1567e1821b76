--------------------------- MODULE MCMutationApply ---------------------------
(***************************************************************************)
(* Small prepared plans for MutationApply: updates (forced, legacy, legacy *)
(* with a Policy Set file in a new directory), uninstalls (full, partial,  *)
(* forced), a manual recovery and a dry run.                               *)
(***************************************************************************)
EXTENDS MutationApply, TLC

CONSTANTS router, skill, meta, policy, record, notes,    \* files
          skillDir, skillSub, policyDir, stateDir,        \* directories
          old, new, alien, absent                         \* contents

MCFiles == {router, skill, meta, policy, record, notes}
MCDirs == {skillDir, skillSub, policyDir, stateDir}
MCData == {old, new, alien}

(* The router lies in the allowed root, the native entrypoint in a          *)
(* directory of its own and its metadata in one below.  notes stands for a  *)
(* file of the user's beside the entrypoint.                                *)
MCAbove == [p \in MCFiles \union MCDirs |->
              CASE p \in {skill, notes, skillSub} -> <<skillDir>>
                [] p = meta -> <<skillDir, skillSub>>
                [] p = policy -> <<policyDir>>
                [] p = record -> <<stateDir>>
                [] OTHER -> <<>>]

Replace(f, d) == [effect |-> "replace", path |-> f, data |-> d]
Remove(f) == [effect |-> "remove", path |-> f, data |-> absent]
Retain(f) == [effect |-> "retain", path |-> f, data |-> absent]
RemoveDir(d) == [effect |-> "rmdir", path |-> d, data |-> absent]

(* A clean installation of the old release, without a file of the user's.   *)
Installed == [f \in MCFiles |-> IF f = notes THEN absent ELSE old]

Update == [operation |-> "update",
           targets |-> <<Replace(router, new), Replace(skill, new), Replace(meta, new)>>,
           targetDirectories |-> <<>>, policy |-> <<Replace(policy, new)>>,
           state |-> <<Replace(record, new)>>, namespaceDirectories |-> <<>>,
           before |-> Installed, standing |-> MCDirs, planned |-> <<>>,
           backup |-> FALSE, recovery |-> {}, terminal |-> FALSE, dryRun |-> FALSE]

(* The router's block was edited, and the metadata needs no change.         *)
ForcedUpdate == [Update EXCEPT !.before = [Installed EXCEPT ![router] = alien, ![meta] = new],
                               !.backup = TRUE]

(* Format 1 recorded routers only: entrypoint and metadata are added.       *)
LegacyUpdate == [Update EXCEPT !.before = [Installed EXCEPT ![skill] = absent, ![meta] = absent],
                               !.standing = {policyDir, stateDir},
                               !.planned = <<skillDir, skillSub>>]

(* prepareUpdateDirectories plans directories for targets only.             *)
LegacyUpdateNewPolicyDir ==
    [LegacyUpdate EXCEPT !.before = [LegacyUpdate.before EXCEPT ![policy] = absent],
                         !.standing = {stateDir}]

Uninstall == [operation |-> "uninstall",
              targets |-> <<Replace(router, alien), Remove(skill), Remove(meta)>>,
              targetDirectories |-> <<RemoveDir(skillSub), RemoveDir(skillDir)>>,
              policy |-> <<Remove(policy)>>, state |-> <<Remove(record)>>,
              namespaceDirectories |-> <<RemoveDir(policyDir), RemoveDir(stateDir)>>,
              before |-> Installed, standing |-> MCDirs, planned |-> <<>>,
              backup |-> FALSE, recovery |-> {}, terminal |-> FALSE, dryRun |-> FALSE]

ForcedUninstall == [Uninstall EXCEPT !.before = [Installed EXCEPT ![skill] = alien, ![notes] = old],
                                     !.backup = TRUE]

PartialUninstall == [Uninstall EXCEPT !.targets = <<Remove(skill), Remove(meta)>>,
                                      !.policy = <<Retain(policy)>>,
                                      !.state = <<Replace(record, new)>>,
                                      !.namespaceDirectories = <<>>]

Nothing == [Update EXCEPT !.targets = <<>>, !.policy = <<>>, !.state = <<>>]
ManualRecovery == [Nothing EXCEPT !.backup = TRUE, !.terminal = TRUE,
                                  !.recovery = {router, policy, record}]

MCPlans == {Update, ForcedUpdate, LegacyUpdate, LegacyUpdateNewPolicyDir, Uninstall,
            ForcedUninstall, PartialUninstall, ManualRecovery,
            [Update EXCEPT !.dryRun = TRUE]}

(* For the run with more interference: a short forced uninstall, and a      *)
(* legacy update that has to take a directory away again.                   *)
ShortPlans == {[ForcedUninstall EXCEPT !.targets = <<Replace(router, new), Remove(skill)>>,
                                        !.targetDirectories = <<>>, !.policy = <<>>,
                                        !.namespaceDirectories = <<>>],
               [LegacyUpdate EXCEPT !.targets = <<Replace(skill, new)>>, !.planned = <<skillDir>>,
                                    !.policy = <<>>],
               [Uninstall EXCEPT !.targets = <<Remove(meta)>>, !.policy = <<>>,
                                 !.targetDirectories = <<RemoveDir(skillSub)>>,
                                 !.state = <<>>, !.namespaceDirectories = <<>>]}
LegacyPlans == {LegacyUpdate}
=============================================================================
