--------------------------- MODULE MCInstallApply ---------------------------
(***************************************************************************)
(* Small prepared installations for InstallApply: a fresh one, one that    *)
(* adds a target beside an installed one, and a dry run.                   *)
(***************************************************************************)
EXTENDS InstallApply, TLC

CONSTANTS router, skill, policy, record,     \* files
          skillDir, skillSub, policyDir,      \* directories
          old, new, alien, absent             \* contents

MCFiles == {router, skill, policy, record}
MCDirs == {skillDir, skillSub, policyDir}
MCData == {old, new, alien}

(* The native entrypoint lies two directories deep, the Policy Set in one   *)
(* of its own.                                                              *)
MCAbove == [p \in MCFiles \union MCDirs |->
              CASE p = skill -> <<skillDir, skillSub>>
                [] p = skillSub -> <<skillDir>>
                [] p = policy -> <<policyDir>>
                [] OTHER -> <<>>]

Write(f) == [effect |-> "replace", path |-> f, data |-> new]

FreshInstall == [operation |-> "install",
                 policy |-> <<Write(policy)>>, targets |-> <<Write(router), Write(skill)>>,
                 state |-> <<Write(record)>>,
                 targetDirectories |-> <<>>, namespaceDirectories |-> <<>>,
                 before |-> [f \in MCFiles |-> IF f = router THEN old ELSE absent],
                 standing |-> {}, planned |-> <<policyDir, skillDir, skillSub>>,
                 backup |-> FALSE, recovery |-> {}, terminal |-> FALSE, dryRun |-> FALSE]

(* The Policy Set is there already; the entrypoint is new.                  *)
AddTarget == [FreshInstall EXCEPT !.before = [f \in MCFiles |-> CASE f = policy -> new
                                                                   [] f = skill -> absent
                                                                   [] OTHER -> old],
                                  !.standing = {policyDir},
                                  !.planned = <<skillDir, skillSub>>]

MCPlans == {FreshInstall, AddTarget, [FreshInstall EXCEPT !.dryRun = TRUE]}
=============================================================================
