----------------------------- MODULE MCLifecycle -----------------------------
(***************************************************************************)
(* Small instances of Lifecycle.  The second release replaces a profile.   *)
(***************************************************************************)
EXTENDS Lifecycle, FiniteSets

CONSTANT TargetSets   \* the selections users make

MCPolicySet == <<{<<"POLICY.md">>, <<"profiles", "a">>}, {<<"POLICY.md">>, <<"profiles", "b">>}>>

MCRequests ==
    UNION {{Request(kind, i, T \intersect Supported(i), force, v) : force \in IF kind = "install" THEN {FALSE} ELSE BOOLEAN,
                                            v \in IF kind = "uninstall" THEN {1} ELSE Versions} :
              kind \in {"install", "update", "uninstall"}, i \in Installations,
              T \in TargetSets}

MCUserFiles == {<<"p", "AGENTS.md">>, <<"p", ".agents", "mine">>}
MCUserDirs == {}

Processes == Permutations(Procs)
SharedRequests == {q \in MCRequests : ~q.force}

(* The user's own profile, instructions, a file at a native entrypoint.    *)
SharedUserFiles == {<<"config", "oaw", "profiles", "mine">>, <<"home", ".claude", "CLAUDE.md">>,
                    <<"p", ".claude", "skills", "oaw", "SKILL.md">>}
SharedUserDirs == {<<"home", ".claude">>, <<"p", ".claude">>, <<"p", ".claude", "skills">>,
                   <<"p", ".claude", "skills", "oaw">>, <<"config", "oaw">>, <<"config", "oaw", "profiles">>}
=============================================================================
