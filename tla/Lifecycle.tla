------------------------------ MODULE Lifecycle ------------------------------
(***************************************************************************)
(* The life of OAW installations: what oaw install, update and uninstall   *)
(* plan from the tree they find (internal/management/install_prepare.go,   *)
(* mutation_prepare.go, update.go, uninstall.go, force.go), what an applied *)
(* plan makes of the tree, and what check says of it (health.go), over any *)
(* sequence of commands, users' edits and killed commands.  Preparation    *)
(* and application are two steps, so that two oaw processes interleave;    *)
(* one application is one step, as AtomicChange shows, or a killed prefix. *)
(***************************************************************************)
EXTENDS Naturals, FiniteSets, SequencesExt, Functions

CONSTANTS Installations,  \* "user" and names of projects
          Targets,        \* the targets of the registry in play
          PolicySet,      \* version -> the paths of its Policy Set files
          Requests,       \* what users ask: [kind, owner, targets, force, version]
          Legacy,         \* installations that begin as format 1 ones of version 1
          UserFiles,      \* paths where users may write files of their own
          UserDirs,       \* directories that were there before OAW
          Edits,          \* what users do: "write", "change", "break", "delete"
          Procs, MaxCommands, MaxEdits, MaxKills

Versions == DOMAIN PolicySet
Edited == 99          \* the body of what somebody changed

(* A project is named apart from the other roots; paths are names, and no  *)
(* release is the mark of a change; each has POLICY.md and a directory of   *)
(* profiles (ValidatePolicySet); requests name targets of the registry.     *)
ASSUME InstallationsAssumption == Installations \subseteq STRING \ {"home", "config", "state"}
ASSUME PolicySetAssumption ==
    /\ Versions \subseteq 1..(Edited - 1)
    /\ \A v \in Versions : /\ IsFiniteSet(PolicySet[v]) /\ PolicySet[v] \subseteq Seq(STRING) \ {<<>>, <<"profiles">>}
                           /\ <<"POLICY.md">> \in PolicySet[v] /\ \E f \in PolicySet[v] : f[1] = "profiles"
ASSUME RequestsAssumption ==
    \A q \in Requests : q.owner \in Installations /\ q.version \in Versions /\ q.targets \subseteq Targets

ASSUME BoundsAssumption == MaxCommands \in Nat /\ MaxEdits \in Nat /\ MaxKills \in Nat

VARIABLES tree,      \* [files, dirs, record, saved]
          pending,   \* process -> the prepared command and the tree it saw
          last,      \* the command applied by the last step, if any (history)
          commands, edits, kills

vars == <<tree, pending, last, commands, edits, kills>>

-----------------------------------------------------------------------------
(* The members of a finite set, those of the least rank first; the elements *)
(* of a sequence at some of its positions; directories by their depth.      *)
Ordered(S, rank) ==
    LET Least(T) == CHOOSE x \in T : \A y \in T : rank[x] <= rank[y]
        listed[n \in 0..Cardinality(S)] ==
            IF n = 0 THEN <<>> ELSE Append(listed[n - 1], Least(S \ ToSet(listed[n - 1])))
    IN listed[Cardinality(S)]
Listed(S) == Ordered(S, [x \in S |-> 0])
AtPositions(s, N) == LET at == Ordered(N, [n \in N |-> n]) IN [k \in DOMAIN at |-> s[at[k]]]
ByDepth(D) == Ordered(D, [d \in D |-> Len(d)])
(* Mutant: directories are removed from the top.                         *)
DeepestFirstFaulty(D) == ByDepth(D)
DeepestFirst(D) == Reverse(ByDepth(D))

-----------------------------------------------------------------------------
(* The target registry: <<target, artifact, user root, suffix there,       *)
(* suffix in a project, ownership>>; no user root: projects only.          *)
Entry(t, a, root, user, project, mode) ==
    [target |-> t, artifact |-> a, root |-> root, user |-> user, project |-> project, mode |-> mode]
Anywhere(t, a, suffix, mode) == Entry(t, a, "home", suffix, suffix, mode)
ProjectOnly(t, a, suffix) == Entry(t, a, "none", <<>>, suffix, "owned-file")
Skill(top) == <<top, "skills", "oaw", "SKILL.md">>
AgentsFile == <<"AGENTS.md">>

Registry == <<
    Anywhere("claude", "router", <<".claude", "CLAUDE.md">>, "managed-block"),
    Anywhere("claude", "native-entrypoint", Skill(".claude"), "owned-file"),
    Entry("codex", "router", "home", <<".codex", "AGENTS.md">>, AgentsFile, "managed-block"),
    Anywhere("codex", "native-entrypoint", Skill(".agents"), "owned-file"),
    Anywhere("codex", "native-policy", <<".agents", "skills", "oaw", "agents", "openai.yaml">>, "owned-file"),
    Entry("gemini", "router", "home", <<".gemini", "GEMINI.md">>, <<"GEMINI.md">>, "managed-block"),
    Anywhere("gemini", "native-entrypoint", <<".gemini", "commands", "oaw.toml">>, "owned-file"),
    Entry("opencode", "router", "config", <<"opencode", "AGENTS.md">>, AgentsFile, "managed-block"),
    Entry("opencode", "native-entrypoint", "config", <<"opencode", "commands", "oaw.md">>,
          <<".opencode", "commands", "oaw.md">>, "owned-file"),
    ProjectOnly("cursor", "router", <<".cursor", "rules", "open-agent-workflow.mdc">>),
    ProjectOnly("cursor", "native-entrypoint", Skill(".cursor")),
    ProjectOnly("windsurf", "router", <<".devin", "rules", "open-agent-workflow.md">>),
    ProjectOnly("windsurf", "native-entrypoint", <<".windsurf", "workflows", "oaw.md">>),
    ProjectOnly("cline", "router", <<".clinerules", "open-agent-workflow.md">>),
    ProjectOnly("cline", "native-entrypoint", Skill(".cline")),
    ProjectOnly("roo", "router", <<".roo", "rules", "open-agent-workflow.md">>),
    ProjectOnly("roo", "native-entrypoint", <<".roo", "commands", "oaw.md">>),
    ProjectOnly("copilot", "router", <<".github", "instructions", "open-agent-workflow.instructions.md">>),
    ProjectOnly("copilot", "native-entrypoint", Skill(".github"))>>

ASSUME TargetsAssumption == Targets \subseteq {Registry[n].target : n \in DOMAIN Registry}
TargetSupportsScope(i, e) == i = "user" => e.root # "none"
InPlay == {n \in DOMAIN Registry : Registry[n].target \in Targets}
Supported(i) == {t \in Targets : \A n \in InPlay :
                    Registry[n].target = t => TargetSupportsScope(i, Registry[n])}
ArtifactsOf(T) == {Registry[n] : n \in {m \in InPlay : Registry[m].target \in T}}
TargetArtifacts(i, T) == AtPositions(Registry, {n \in InPlay : Registry[n].target \in T})
TargetArtifactPosition(x) == CHOOSE n \in InPlay :
    Registry[n].target = x.target /\ Registry[n].artifact = x.artifact

-----------------------------------------------------------------------------
(* Coordinates.  A path is a sequence; its head is a root that always is.  *)
Below(d, p) == IsStrictPrefix(d, p)
Parents(p) == {SubSeq(p, 1, n) : n \in 2..(Len(p) - 1)}

(* The directories that were there hang in the tree.                       *)
ASSUME UserAssumption ==
    /\ UserFiles \union UserDirs \subseteq {p \in Seq(STRING) : Len(p) > 1}
    /\ \A d \in UserDirs : Parents(d) \subseteq UserDirs

ArtifactDestination(i, e) == IF i = "user" THEN <<e.root>> \o e.user ELSE <<i>> \o e.project

ConfigDir == <<"config", "oaw">>
StateDir == <<"state", "oaw">>
InstallationsDir == StateDir \o <<"installations">>
ProjectsDir == InstallationsDir \o <<"projects">>
BackupRoot == StateDir \o <<"backups">>
StateFile(i) == (IF i = "user" THEN InstallationsDir ELSE ProjectsDir) \o <<i>>
PolicyDir(i) == IF i = "user" THEN ConfigDir ELSE <<i, ".oaw", "policy">>
CustomProfilesDir(i) == IF i = "user" THEN ConfigDir \o <<"profiles">> ELSE <<i, ".oaw", "profiles">>

(* In user scope the release's profiles move aside for the user's own.     *)
PolicySetDestination(i, f) ==
    PolicyDir(i) \o (IF i = "user" /\ f[1] = "profiles" THEN <<"profiles", "builtin">> \o Tail(f) ELSE f)
PolicyPath(i) == PolicySetDestination(i, <<"POLICY.md">>)
SourcePolicySet(i, v) == [p \in {PolicySetDestination(i, f) : f \in PolicySet[v]} |-> v]

UserCustomProfilePath(p) ==
    LET profiles == CustomProfilesDir("user")
        builtin == profiles \o <<"builtin">>
    IN IsPrefix(profiles, p) /\ ~IsPrefix(builtin, p)

IsPolicySetDirectory(i, d) ==
    /\ Len(d) > 1 /\ (IsPrefix(d, PolicyDir(i)) \/ Below(PolicyDir(i), d))
    /\ i = "user" => d = CustomProfilesDir(i) \/ ~UserCustomProfilePath(d)
InstallNamespaceDirectory(i, d) ==
    IsPolicySetDirectory(i, d) \/ d \in {ConfigDir, StateDir, InstallationsDir, ProjectsDir}

-----------------------------------------------------------------------------
(* Files.  body: the release that rendered a Policy Set file, an owned file *)
(* or a managed block, Edited if somebody changed it, 0 if OAW wrote none; *)
(* marks: the markers of a block; own: there is text of the user's around. *)
Written(v) == [body |-> v, marks |-> "none", own |-> FALSE]
UserText == [body |-> 0, marks |-> "none", own |-> TRUE]

Present(t, p) == p \in DOMAIN t.files
OwnText(t, p) == Present(t, p) /\ t.files[p].own
ManagedInstallStatus(t, p) ==
    IF ~Present(t, p) \/ t.files[p].marks = "none" THEN "absent"
    ELSE IF t.files[p].marks = "whole" THEN "present" ELSE "drift"
(* Mutant: a torn marker stays torn when the block is replaced.          *)
RenderManagedFileFaulty(t, p, v) ==
    IF Present(t, p) THEN [t.files[p] EXCEPT !.body = v] ELSE [body |-> v, marks |-> "whole", own |-> FALSE]
RenderManagedFile(t, p, v) == [body |-> v, marks |-> "whole", own |-> OwnText(t, p)]
RenderManagedFileWithoutBlock(t, p) == [body |-> 0, marks |-> "none", own |-> OwnText(t, p)]
Render(t, x, v) == IF x.mode = "owned-file" THEN Written(v) ELSE RenderManagedFile(t, x.path, v)

Empty(t, d) == \A p \in t.dirs \union DOMAIN t.files
                        \union {StateFile(i) : i \in {j \in Installations : t.record[j].version # 0}} :
                  ~Below(d, p)

-----------------------------------------------------------------------------
(* State records.  targets: [target, artifact, path, mode, checksum,       *)
(* origin]; policy: path -> checksum.  A checksum is the release rendered. *)
NoRecord == [legacy |-> FALSE, version |-> 0, policy |-> <<>>, dirs |-> {}, targets |-> {}]
Installed(t, i) == t.record[i] # NoRecord
RecordedArtifact(r, e) == {x \in r.targets : x.target = e.target /\ x.artifact = e.artifact}
At(r, p) == {x \in r.targets : x.path = p}

ValidateTargetRecords(i, r) ==
    /\ \A x \in r.targets : /\ x.target \in Supported(i)
                            /\ r.legacy => x.artifact = "router"
                            /\ x.mode = "owned-file" => x.origin = "created-file"
                            /\ RecordedArtifact(r, x) = {x}
                            /\ \A y \in At(r, x.path) : /\ x.mode = y.mode /\ x.origin = y.origin
                                                        /\ x.checksum = y.checksum
    /\ ~r.legacy => \A n \in InPlay :
          LET e == Registry[n]
          IN (\E x \in r.targets : x.target = e.target) => RecordedArtifact(r, e) # {}

(* What a record must hold to be written, and to be read again; the syntax *)
(* of its fields is left out.                                              *)
ValidatePolicyFileRecords(r) == DOMAIN r.policy # {}
SerializeInstallState(i, r) ==
    r.version \in Versions /\ ValidatePolicyFileRecords(r) /\ r.targets # {} /\ ValidateTargetRecords(i, r)
ParseInstallationState(i, r) ==
    r.version \in Versions /\ r.targets # {} /\ ValidateTargetRecords(i, r) /\ ValidatePolicyFileRecords(r)

OwnedDirectory(i, targets, d) == \/ InstallNamespaceDirectory(i, d)
                                 \/ \E x \in targets : x.origin = "created-file" /\ Below(d, x.path)
ValidateOwnedDirectories(i, r) == \A d \in r.dirs : OwnedDirectory(i, r.targets, d)

(* Nothing lies in the Policy Set directory but the recorded files and the *)
(* directories above them, the user's own profiles aside.                  *)
ValidatePolicySetTree(i, t) ==
    LET top == PolicyDir(i)
        files == DOMAIN t.record[i].policy
        directories == {top} \union {d \in UNION {Parents(f) : f \in files} : Below(top, d)}
        Inside(S) == {p \in S : IsPrefix(top, p) /\ ~(i = "user" /\ p # CustomProfilesDir(i) /\ UserCustomProfilePath(p))}
    IN top \in t.dirs /\ Inside(t.dirs) \subseteq directories /\ Inside(DOMAIN t.files) \subseteq files

PolicyFileClean(t, r, p) == Present(t, p) /\ t.files[p].body = r.policy[p]
ValidatePolicySetFiles(i, t) ==
    /\ ValidatePolicySetTree(i, t)
    /\ \A p \in DOMAIN t.record[i].policy : PolicyFileClean(t, t.record[i], p)

ValidateLiveTargetRecord(t, x) ==
    /\ Present(t, x.path) /\ t.files[x.path].body = x.checksum
    /\ x.mode = "managed-block" => ManagedInstallStatus(t, x.path) = "present"

(* validateCurrentInstallState and validateCleanMutationState. *)
ValidateClean(i, t) == /\ Present(t, PolicyPath(i)) /\ ValidatePolicySetFiles(i, t)
                       /\ \A x \in t.record[i].targets : ValidateLiveTargetRecord(t, x)
                       /\ ValidateOwnedDirectories(i, t.record[i])

-----------------------------------------------------------------------------
(* What oaw check says of a target. *)
UntrackedArtifactClean(t, i, e) ==
    LET p == ArtifactDestination(i, e)
    IN IF e.mode = "owned-file" THEN ~Present(t, p) ELSE ManagedInstallStatus(t, p) = "absent"
UntrackedClean(t, i, T) == \A e \in ArtifactsOf(T) : UntrackedArtifactClean(t, i, e)

(* Mutant: check looks at POLICY.md, not at the other Policy Set files.      *)
TargetStatusFaulty(t, i, id) ==
    LET r == t.record[i]
        mine == {x \in r.targets : x.target = id}
    IN IF ~Installed(t, i) \/ mine = {}
       THEN IF UntrackedClean(t, i, {id}) THEN "not-installed" ELSE "drift"
       ELSE IF ~PolicyFileClean(t, r, PolicyPath(i)) \/ \E x \in mine : ~ValidateLiveTargetRecord(t, x) THEN "drift"
       ELSE IF r.legacy THEN "upgrade-required" ELSE "clean"
TargetStatus(t, i, id) ==
    LET r == t.record[i]
        mine == {x \in r.targets : x.target = id}
        natives == {e \in ArtifactsOf({id}) : e.artifact # "router"}
    IN IF ~Installed(t, i)
       THEN IF Present(t, PolicyPath(i)) \/ ~UntrackedClean(t, i, {id}) THEN "drift" ELSE "not-installed"
       ELSE IF ~ParseInstallationState(i, r) \/ ~ValidateOwnedDirectories(i, r) THEN "invalid-state"
       ELSE IF ~ValidatePolicySetFiles(i, t) THEN "drift"
       ELSE IF mine = {} THEN IF UntrackedClean(t, i, {id}) THEN "not-installed" ELSE "drift"
       ELSE IF \E x \in mine : ~ValidateLiveTargetRecord(t, x) THEN "drift"
       ELSE IF ~r.legacy THEN "clean"
       ELSE IF \A e \in natives : UntrackedArtifactClean(t, i, e) THEN "upgrade-required" ELSE "drift"

-----------------------------------------------------------------------------
(* Plans are sequences of steps. *)
Mkdir(d) == [op |-> "mkdir", path |-> d]
Write(p, c) == [op |-> "write", path |-> p, to |-> c]
Unlink(p) == [op |-> "remove", path |-> p]
Retain(p) == [op |-> "retain", path |-> p]
Rmdir(d) == [op |-> "rmdir", path |-> d]
Record(i, r) == [op |-> "record", path |-> StateFile(i), owner |-> i, to |-> r]
Backup(S) == [op |-> "backup", path |-> BackupRoot, to |-> S]

(* Mutant: removes the directory from under its files.                   *)
RemoveEmptyDirectoryFaulty(t, d) == t.dirs \ {d}
RemoveEmptyDirectory(t, d) == IF Empty(t, d) THEN t.dirs \ {d} ELSE t.dirs

Put(files, p, c) == [f \in DOMAIN files \union {p} |-> IF f = p THEN c ELSE files[f]]
Do(t, x) ==
    [files |-> IF x.op = "write" THEN Put(t.files, x.path, x.to)
               ELSE IF x.op = "remove" THEN Restrict(t.files, DOMAIN t.files \ {x.path})
               ELSE t.files,
     dirs |-> IF x.op = "mkdir" THEN t.dirs \union {x.path}
              ELSE IF x.op = "rmdir" THEN RemoveEmptyDirectory(t, x.path)
              ELSE IF x.op = "backup" THEN t.dirs \union {StateDir, BackupRoot} ELSE t.dirs,
     record |-> IF x.op = "record" THEN [t.record EXCEPT ![x.owner] = x.to] ELSE t.record,
     saved |-> IF x.op = "backup" THEN t.saved \union x.to ELSE t.saved]
Run(t, steps) ==
    LET after[n \in 0..Len(steps)] == IF n = 0 THEN t ELSE Do(after[n - 1], steps[n])
    IN after[Len(steps)]

(* Each write makes the planned directories above it first. *)
MakeDirectories(D) == LET ds == ByDepth(D) IN [n \in DOMAIN ds |-> Mkdir(ds[n])]
MakingDirectories(steps, planned) ==
    LET Missing(done, p) == {d \in Parents(p) \intersect planned : Mkdir(d) \notin ToSet(done)}
        made[n \in 0..Len(steps)] ==
            IF n = 0 THEN <<>>
            ELSE made[n - 1] \o MakeDirectories(Missing(made[n - 1], steps[n].path)) \o <<steps[n]>>
    IN made[Len(steps)]

(* A write needs every directory above it; everything else can be done. *)
Applicable(t, steps) ==
    \A n \in DOMAIN steps : steps[n].op = "write" =>
        \A d \in Parents(steps[n].path) : d \in t.dirs \/ Contains(steps, Mkdir(d))

(* POLICY.md goes first. *)
PolicyActions(i, S) == <<PolicyPath(i)>> \o Listed(S \ {PolicyPath(i)})
WritePolicySet(i, r) ==
    LET paths == PolicyActions(i, DOMAIN r.policy)
    IN [n \in DOMAIN paths |-> Write(paths[n], Written(r.version))]

(* One action for a destination that several artifacts share. *)
DistinctActions(steps) ==
    AtPositions(steps, {n \in DOMAIN steps : \A m \in 1..(n - 1) : steps[m] # steps[n]})

-----------------------------------------------------------------------------
(* Records of a command on the artifacts of its targets. *)
MergeRecords(old, selected) ==
    LET kept == {x \in old : ~\E y \in selected : y.target = x.target /\ y.artifact = x.artifact}
    IN selected \union {[x EXCEPT !.checksum = IF \E y \in selected : y.path = x.path
                                               THEN (CHOOSE y \in selected : y.path = x.path).checksum ELSE @] : x \in kept}

MissingNamespaces(t, i) ==
    ({PolicyDir(i), StateDir, InstallationsDir} \union IF i = "user" THEN {} ELSE {ProjectsDir}) \ t.dirs
MissingParents(t, P) == (UNION {Parents(p) : p \in P}) \ t.dirs

(* includeInstalledTargets: a legacy installation is migrated as a whole.  *)
Wanted(t, q) == IF Installed(t, q.owner) /\ t.record[q.owner].legacy
                THEN q.targets \union {x.target : x \in t.record[q.owner].targets} ELSE q.targets

-----------------------------------------------------------------------------
(* PrepareInstall *)
(* Without a record the Policy Set directory is empty, but for the user's  *)
(* own profiles and an empty directory of the release's.                   *)
RequireUnclaimedPolicySetDirectory(t, i) ==
    /\ \A p \in DOMAIN t.files : IsPrefix(PolicyDir(i), p) =>
          i = "user" /\ UserCustomProfilePath(p) /\ p # CustomProfilesDir(i)
    /\ \A d \in t.dirs : Below(PolicyDir(i), d) =>
          i = "user" /\ (UserCustomProfilePath(d) \/ d = CustomProfilesDir(i) \o <<"builtin">>)

MayInstall(t, i, e, v) ==
    LET r == t.record[i]
        p == ArtifactDestination(i, e)
    IN IF RecordedArtifact(r, e) # {} THEN \A x \in RecordedArtifact(r, e) : x.checksum = v
       ELSE IF e.mode = "managed-block" /\ At(r, p) # {}
       THEN ManagedInstallStatus(t, p) = "present" /\ \A x \in At(r, p) : x.checksum = v
       ELSE UntrackedArtifactClean(t, i, e)

Origin(t, i, e) ==
    LET p == ArtifactDestination(i, e)
        joined == At(t.record[i], p)
    IN IF joined # {} THEN (CHOOSE x \in joined : TRUE).origin
       ELSE IF e.mode = "owned-file" \/ ~Present(t, p) THEN "created-file" ELSE "existing-file"

InstalledArtifact(t, i, e, v) ==
    [target |-> e.target, artifact |-> e.artifact, path |-> ArtifactDestination(i, e),
     mode |-> e.mode, checksum |-> v, origin |-> Origin(t, i, e)]

InstallRecord(t, q) ==
    LET i == q.owner
        artifacts == ArtifactsOf(Wanted(t, q))
        selected == {InstalledArtifact(t, i, e, q.version) : e \in artifacts}
        policy == SourcePolicySet(i, q.version)
    IN [legacy |-> FALSE, version |-> q.version, policy |-> policy,
        dirs |-> t.record[i].dirs \union MissingNamespaces(t, i)
                    \union MissingParents(t, DOMAIN policy \union {x.path : x \in selected}),
        targets |-> MergeRecords(t.record[i].targets, selected)]

InstallAccepted(t, q) ==
    LET i == q.owner
        r == t.record[i]
        record == InstallRecord(t, q)
    IN /\ IF Installed(t, i)
          THEN ValidateClean(i, t) /\ r.version = q.version /\ r.policy = SourcePolicySet(i, q.version)
          ELSE RequireUnclaimedPolicySetDirectory(t, i)
       /\ \A e \in ArtifactsOf(Wanted(t, q)) : MayInstall(t, i, e, q.version)
       /\ SerializeInstallState(i, record) /\ ValidateOwnedDirectories(i, record)

InstallSteps(t, q) ==
    LET i == q.owner
        record == InstallRecord(t, q)
        artifacts == TargetArtifacts(i, Wanted(t, q))
        targets == [n \in DOMAIN artifacts |->
                       LET x == InstalledArtifact(t, i, artifacts[n], q.version)
                       IN Write(x.path, Render(t, x, q.version))]
    IN MakingDirectories(WritePolicySet(i, record) \o DistinctActions(targets)
                             \o <<Record(i, record)>>,
                         record.dirs \ t.dirs)

-----------------------------------------------------------------------------
(* --force: prepareMutationForce and what it calls. *)
SelectedPaths(r, T) == {x.path : x \in {y \in r.targets : y.target \in T}}

(* repairManagedMarkerStructure: one marker is gone, and the rest is what  *)
(* this release renders and the record says.                               *)
Repairable(t, x, v) == t.files[x.path].marks = "torn" /\ t.files[x.path].body = v /\ x.checksum = v

(* verifyForcedTargetRecord; what the command does not touch must be clean. *)
ForcedVerdict(t, r, x, q) ==
    IF x.path \notin SelectedPaths(r, Wanted(t, q))
    THEN IF ValidateLiveTargetRecord(t, x) THEN "fine" ELSE "refused"
    ELSE IF ~Present(t, x.path) THEN "refused"
    ELSE IF x.mode = "owned-file" \/ ManagedInstallStatus(t, x.path) = "present" \/ Repairable(t, x, q.version)
    THEN "fine" ELSE "manual"

(* The first record in trouble decides. *)
ForcedPreparation(t, q) ==
    LET i == q.owner
        r == t.record[i]
        troubled == {x \in r.targets : ForcedVerdict(t, r, x, q) # "fine"}
        first == CHOOSE x \in troubled : \A y \in troubled :
                     TargetArtifactPosition(x) <= TargetArtifactPosition(y)
    IN IF ~ValidatePolicySetTree(i, t) \/ \E p \in DOMAIN r.policy : ~Present(t, p)
       THEN [verdict |-> "refused", record |-> {}]
       ELSE IF troubled # {} THEN [verdict |-> ForcedVerdict(t, r, first, q), record |-> {first}]
       ELSE [verdict |-> IF ValidateOwnedDirectories(i, r) THEN "fine" ELSE "refused", record |-> {}]

ForceVerdict(t, q) == IF q.force THEN ForcedPreparation(t, q).verdict
                      ELSE IF ValidateClean(q.owner, t) THEN "fine" ELSE "refused"

(* Something the records vouch for has changed. *)
BackupRequired(t, q) ==
    LET r == t.record[q.owner]
    IN /\ q.force
       /\ \/ \E p \in DOMAIN r.policy : ~PolicyFileClean(t, r, p)
          \/ \E x \in r.targets : x.path \in SelectedPaths(r, Wanted(t, q)) /\ ~ValidateLiveTargetRecord(t, x)

Saved(t, P) == {<<p, t.files[p]>> : p \in {f \in P : Present(t, f)}}

(* mutationActionNeedsBackup: a file that was there and changes.  The state *)
(* record is copied as well; nothing below depends on it.                  *)
Destroys(t, x) == /\ x.op \in {"write", "remove"} /\ Present(t, x.path)
                  /\ x.op = "write" => x.to # t.files[x.path]
(* Mutant: only files that are removed are copied.                       *)
WithBackupFaulty(t, q, steps) ==
    (IF BackupRequired(t, q)
     THEN <<Backup(Saved(t, {x.path : x \in {y \in ToSet(steps) : y.op = "remove"}}))>> ELSE <<>>) \o steps
WithBackup(t, q, steps) ==
    (IF BackupRequired(t, q)
     THEN <<Backup(Saved(t, {steps[n].path : n \in {m \in DOMAIN steps : Destroys(t, steps[m])}}))>> ELSE <<>>) \o steps

(* prepareManualRecoveryPlan: copy what is there, and change nothing. *)
ManualRecovery(t, q) ==
    <<Backup(Saved(t, {x.path : x \in ForcedPreparation(t, q).record} \union {PolicyPath(q.owner)}))>>

-----------------------------------------------------------------------------
(* PrepareUpdate *)
UpdatedArtifact(t, i, e, v) ==
    LET old == RecordedArtifact(t.record[i], e)
    IN IF old # {} THEN [(CHOOSE x \in old : TRUE) EXCEPT !.checksum = v] ELSE InstalledArtifact(t, i, e, v)

UpdateRecord(t, q) ==
    LET i == q.owner
        r == t.record[i]
        updated == {UpdatedArtifact(t, i, e, q.version) : e \in ArtifactsOf(Wanted(t, q))}
    IN [legacy |-> FALSE, version |-> q.version, policy |-> SourcePolicySet(i, q.version),
        dirs |-> r.dirs \union IF r.legacy THEN MissingNamespaces(t, i) \union MissingParents(t, {x.path : x \in updated})
                               ELSE {},
        targets |-> MergeRecords(r.targets, updated)]

(* Mutant: a legacy update writes over an untracked file.                *)
MayUpdateFaulty(t, i, e) == RecordedArtifact(t.record[i], e) # {} \/ t.record[i].legacy
MayUpdate(t, i, e) ==
    \/ RecordedArtifact(t.record[i], e) # {}
    \/ t.record[i].legacy /\ e.artifact # "router" /\ UntrackedArtifactClean(t, i, e)

UpdateAccepted(t, q) ==
    LET i == q.owner
        record == UpdateRecord(t, q)
    IN /\ Installed(t, i)
       /\ \/ ForceVerdict(t, q) = "manual"
          \/ /\ ForceVerdict(t, q) = "fine"
             /\ \A id \in Wanted(t, q) : \E x \in t.record[i].targets : x.target = id
             /\ \A e \in ArtifactsOf(Wanted(t, q)) : MayUpdate(t, i, e)
             /\ SerializeInstallState(i, record) /\ ValidateOwnedDirectories(i, record)

(* Mutant: files a release no longer has stay.                           *)
ObsoleteFaulty(old, new) == {}
Obsolete(old, new) == DOMAIN old.policy \ DOMAIN new.policy

UpdateSteps(t, q) ==
    LET i == q.owner
        r == t.record[i]
        record == UpdateRecord(t, q)
        artifacts == TargetArtifacts(i, Wanted(t, q))
        obsolete == Listed(Obsolete(r, record))
        targets == [n \in DOMAIN artifacts |->
                       LET x == UpdatedArtifact(t, i, artifacts[n], q.version)
                       IN Write(x.path, Render(t, x, q.version))]
    IN WithBackup(t, q,
          MakingDirectories(DistinctActions(targets) \o WritePolicySet(i, record)
                                \o [n \in DOMAIN obsolete |-> Unlink(obsolete[n])] \o <<Record(i, record)>>,
                            record.dirs \ r.dirs))

-----------------------------------------------------------------------------
(* PrepareUninstall *)
Remaining(t, q) == {x \in t.record[q.owner].targets : x.target \notin q.targets}

(* A file OAW created goes with its block, unless the user wrote in it.    *)
UninstallTarget(t, x) ==
    IF x.mode = "owned-file" \/ (x.origin = "created-file" /\ ~OwnText(t, x.path))
    THEN Unlink(x.path) ELSE Write(x.path, RenderManagedFileWithoutBlock(t, x.path))

(* Namespaces stay while anything is installed, other directories while a  *)
(* remaining file that OAW created lies below.                             *)
(* Mutant: directories stay recorded until the last target goes.         *)
RetainedDirectoriesFaulty(t, q) == IF Remaining(t, q) = {} THEN {} ELSE t.record[q.owner].dirs
RetainedDirectories(t, q) ==
    {d \in t.record[q.owner].dirs :
        IF InstallNamespaceDirectory(q.owner, d) THEN Remaining(t, q) # {}
        ELSE \E x \in Remaining(t, q) : x.origin = "created-file" /\ Below(d, x.path)}

UninstallRecord(t, q) ==
    IF Remaining(t, q) = {} THEN NoRecord
    ELSE [t.record[q.owner] EXCEPT !.targets = Remaining(t, q), !.dirs = RetainedDirectories(t, q)]

UninstallAccepted(t, q) ==
    IF ~Installed(t, q.owner) THEN UntrackedClean(t, q.owner, q.targets)
    ELSE \/ ForceVerdict(t, q) = "manual"
         \/ /\ ForceVerdict(t, q) = "fine"
            /\ Remaining(t, q) # {} => SerializeInstallState(q.owner, UninstallRecord(t, q))

RemoveDirectories(D) == LET ds == DeepestFirst(D) IN [n \in DOMAIN ds |-> Rmdir(ds[n])]
UninstallSteps(t, q) ==
    LET i == q.owner
        r == t.record[i]
        remaining == Remaining(t, q)
        removed == {x \in r.targets \ remaining : ~\E y \in remaining : y.path = x.path}
        gone == Ordered(removed, [x \in removed |-> TargetArtifactPosition(x)])
        targets == DistinctActions([n \in DOMAIN gone |-> UninstallTarget(t, gone[n])])
        directories == r.dirs \ RetainedDirectories(t, q)
        policy == PolicyActions(i, DOMAIN r.policy)
        namespaces == {d \in directories : InstallNamespaceDirectory(i, d)}
    IN IF ~Installed(t, i) THEN <<>>
       ELSE WithBackup(t, q,
               targets \o RemoveDirectories(directories \ namespaces)
               \o [n \in DOMAIN policy |-> IF remaining = {} THEN Unlink(policy[n]) ELSE Retain(policy[n])]
               \o <<Record(i, UninstallRecord(t, q))>> \o RemoveDirectories(namespaces))

-----------------------------------------------------------------------------
(* Commands.  A refused one changes nothing. *)
Legible(t, i) == Installed(t, i) => ParseInstallationState(i, t.record[i])
Accepted(t, q) ==
    /\ Legible(t, q.owner)
    /\ \/ q.kind = "install" /\ InstallAccepted(t, q)
       \/ q.kind = "update" /\ UpdateAccepted(t, q)
       \/ q.kind = "uninstall" /\ UninstallAccepted(t, q)
Manual(t, q) == q.kind # "install" /\ Installed(t, q.owner) /\ ForceVerdict(t, q) = "manual"
Steps(t, q) == IF Manual(t, q) THEN ManualRecovery(t, q)
               ELSE IF q.kind = "install" THEN InstallSteps(t, q)
               ELSE IF q.kind = "update" THEN UpdateSteps(t, q) ELSE UninstallSteps(t, q)

Idle == [busy |-> FALSE]
NoCommand == [kind |-> "none"]

(* PrepareInstall, PrepareUpdate, PrepareUninstall; what is refused here,  *)
(* or has nothing to do, leaves no trace.                                  *)
Prepare(p) ==
    /\ ~pending[p].busy /\ commands < MaxCommands
    /\ \E q \in {r \in Requests : Accepted(tree, r) /\ Steps(tree, r) # <<>>} :
          pending' = [pending EXCEPT ![p] = [busy |-> TRUE, request |-> q, seen |-> tree]]
    /\ commands' = commands + 1 /\ last' = NoCommand
    /\ UNCHANGED <<tree, edits, kills>>

(* An install is prepared again and must come out the same; an update or   *)
(* uninstall looks again at every path of its plan.                        *)
SameAsSeen(seen, x) ==
    /\ x.op \in {"mkdir", "rmdir"} => (x.path \in seen.dirs <=> x.path \in tree.dirs)
    /\ x.op = "record" => seen.record[x.owner] = tree.record[x.owner]
    /\ x.op = "backup" => \A c \in x.to : Present(tree, c[1]) /\ tree.files[c[1]] = c[2]
    /\ x.op \in {"write", "remove", "retain"} =>
          /\ Present(tree, x.path) <=> Present(seen, x.path)
          /\ Present(seen, x.path) => tree.files[x.path] = seen.files[x.path]
PreparedAgain(q, steps) ==
    Legible(tree, q.owner) /\ InstallAccepted(tree, q) /\ InstallSteps(tree, q) = steps
(* Mutant: the paths of an update or uninstall are not looked at again.  *)
StillValidFaulty(q, seen, steps) == q.kind = "install" => PreparedAgain(q, steps)
StillValid(q, seen, steps) ==
    /\ q.kind = "install" => PreparedAgain(q, steps)
    /\ \A n \in DOMAIN steps : SameAsSeen(seen, steps[n])

(* A plan that is stale, or fails and is rolled back, leaves all as it was. *)
Apply(p) ==
    /\ pending[p].busy
    /\ LET q == pending[p].request
           seen == pending[p].seen
       IN \E steps \in {Steps(seen, q)} :
             IF StillValid(q, seen, steps) /\ Applicable(tree, steps)
             THEN tree' = Run(tree, steps) /\ last' = IF Manual(seen, q) THEN NoCommand ELSE q
             ELSE UNCHANGED tree /\ last' = NoCommand
    /\ pending' = [pending EXCEPT ![p] = Idle]
    /\ UNCHANGED <<commands, edits, kills>>

(* The process is killed between two steps. *)
Kill(p) ==
    /\ pending[p].busy /\ kills < MaxKills
    /\ LET q == pending[p].request
           seen == pending[p].seen
       IN \E steps \in {Steps(seen, q)} :
             /\ StillValid(q, seen, steps) /\ Applicable(tree, steps)
             /\ \E n \in 1..(Len(steps) - 1) : tree' = Run(tree, SubSeq(steps, 1, n))
    /\ pending' = [pending EXCEPT ![p] = Idle]
    /\ kills' = kills + 1 /\ last' = NoCommand
    /\ UNCHANGED <<commands, edits>>

-----------------------------------------------------------------------------
(* Users: they write beside OAW, and into or over what it wrote.           *)
Edit(p, c) == /\ edits < MaxEdits /\ edits' = edits + 1 /\ last' = NoCommand
              /\ tree' = [tree EXCEPT !.files = Put(@, p, c)]
              /\ UNCHANGED <<pending, commands, kills>>

WriteOwn == "write" \in Edits /\ \E p \in UserFiles :
    /\ \/ ~Present(tree, p) /\ (Len(p) = 2 \/ Front(p) \in tree.dirs)
       \/ ManagedInstallStatus(tree, p) # "absent" /\ ~OwnText(tree, p)
    /\ Edit(p, IF Present(tree, p) THEN [tree.files[p] EXCEPT !.own = TRUE] ELSE UserText)
Ours(p) == tree.files[p].body \in Versions
EditBody == "change" \in Edits /\ \E p \in DOMAIN tree.files : Ours(p) /\ Edit(p, [tree.files[p] EXCEPT !.body = Edited])
BreakMarkers == "break" \in Edits /\ \E p \in DOMAIN tree.files :
    /\ tree.files[p].marks = "whole"
    /\ \/ Edit(p, [tree.files[p] EXCEPT !.marks = "torn"])
       \/ Edit(p, [tree.files[p] EXCEPT !.marks = "garbled"])
       \/ Edit(p, [tree.files[p] EXCEPT !.marks = "none", !.body = 0])
Delete == "delete" \in Edits /\ \E i \in Installations :
  \E p \in {x.path : x \in tree.record[i].targets} \union DOMAIN tree.record[i].policy :
    /\ Present(tree, p) /\ edits < MaxEdits
    /\ tree' = Do(tree, Unlink(p))
    /\ edits' = edits + 1 /\ last' = NoCommand /\ UNCHANGED <<pending, commands, kills>>

-----------------------------------------------------------------------------
(* A format 1 installation: routers and Policy Set only. *)
LegacyRecord(i) ==
    LET routers == {e \in ArtifactsOf(Targets) : e.artifact = "router"}
        bare == [files |-> [p \in {} |-> UserText], dirs |-> UserDirs, record |-> [j \in Installations |-> NoRecord]]
        records == {InstalledArtifact(bare, i, e, 1) : e \in routers}
        policy == SourcePolicySet(i, 1)
    IN [legacy |-> TRUE, version |-> 1, policy |-> policy, targets |-> records,
        dirs |-> MissingNamespaces(bare, i) \union MissingParents(bare, DOMAIN policy \union {x.path : x \in records})]
(* The format 1 installations in play are ones whose record can be read.   *)
(* One at most: a second would have found the namespaces of the first.     *)
ASSUME LegacyAssumption ==
    /\ Legacy \subseteq Installations /\ \A i, j \in Legacy : i = j
    /\ Legacy # {} => 1 \in Versions
    /\ \A i \in Legacy : ParseInstallationState(i, LegacyRecord(i)) /\ ValidateOwnedDirectories(i, LegacyRecord(i))

InitialFiles ==
    LET written == UNION {DOMAIN LegacyRecord(i).policy \union {x.path : x \in LegacyRecord(i).targets} : i \in Legacy}
    IN [p \in written |->
          IF \E i \in Legacy : \E x \in LegacyRecord(i).targets : x.path = p /\ x.mode = "managed-block"
          THEN [body |-> 1, marks |-> "whole", own |-> FALSE] ELSE Written(1)]

Init == /\ tree = [files |-> InitialFiles,
                   dirs |-> UserDirs \union UNION {LegacyRecord(i).dirs : i \in Legacy},
                   record |-> [i \in Installations |-> IF i \in Legacy THEN LegacyRecord(i) ELSE NoRecord],
                   saved |-> {}]
        /\ pending = [p \in Procs |-> Idle] /\ last = NoCommand
        /\ commands = 0 /\ edits = 0 /\ kills = 0

Next == \/ \E p \in Procs : Prepare(p) \/ Apply(p) \/ Kill(p)
        \/ WriteOwn \/ EditBody \/ BreakMarkers \/ Delete

Spec == Init /\ [][Next]_vars

-----------------------------------------------------------------------------
(* Every file and directory hangs in the tree; state records have targets, *)
(* known versions and owned directories only.                              *)
TypeOK ==
    /\ \A p \in DOMAIN tree.files \union tree.dirs : Len(p) = 2 \/ Front(p) \in tree.dirs
    /\ \A p \in DOMAIN tree.files :
          /\ tree.files[p].body \in Versions \union {0, Edited} /\ tree.files[p].own \in BOOLEAN
          /\ tree.files[p].marks \in {"none", "whole", "torn", "garbled"}
    /\ \A i \in Installations : Installed(tree, i) => tree.record[i].version \in Versions
    /\ commands \in 0..MaxCommands /\ edits \in 0..MaxEdits /\ kills \in 0..MaxKills

InstalledTargets(i) == {x.target : x \in tree.record[i].targets}
Request(kind, i, T, force, v) ==
    [kind |-> kind, owner |-> i, targets |-> T, force |-> force, version |-> v]

(* Whatever sequence of partial installs, updates and uninstalls wrote it, *)
(* the record can be read again: parseInstallationState and                *)
(* validateOwnedDirectories accept it.                                     *)
RecordsStayReadable ==
    \A i \in Installations : Installed(tree, i) =>
        ParseInstallationState(i, tree.record[i]) /\ ValidateOwnedDirectories(i, tree.record[i])

(* An install or update that is applied leaves every target it selected     *)
(* clean for check, whatever else the tree and the records held.  Only when *)
(* something foreign has come into the Policy Set since an update was       *)
(* prepared does that remain, for check to report.                          *)
AppliedMeansClean ==
    [][last'.kind = "install" \/ (last'.kind = "update" /\ ValidatePolicySetTree(last'.owner, tree)) =>
          \A id \in last'.targets : TargetStatus(tree', last'.owner, id) = "clean"]_vars

(* When the last target of an installation is uninstalled, and no command  *)
(* was killed, no file or block of OAW's remains in its scope, and only    *)
(* directories that were there before or hold something of the user's.     *)
Scope(i) == IF i = "user" THEN {"home", "config"} ELSE {i}
NothingLeft ==
    last.kind = "uninstall" /\ kills = 0 /\ ~Installed(tree, last.owner) =>
        /\ \A p \in DOMAIN tree.files : p[1] \in Scope(last.owner) => tree.files[p].body = 0
        /\ \A d \in tree.dirs : d[1] \in Scope(last.owner) => d \in UserDirs \/ ~Empty(tree, d)

(* What users wrote or changed in tree t is in tree u, or copied there.    *)
Unlost(t, u) ==
    \A p \in DOMAIN t.files :
        LET c == t.files[p]
            same == p \in DOMAIN u.files /\ u.files[p] = c
        IN /\ c.own => (p \in DOMAIN u.files /\ u.files[p].own) \/ <<p, c>> \in u.saved
           /\ (c.body = Edited \/ c.marks \in {"torn", "garbled"}) /\ ~same => <<p, c>> \in u.saved

(* A command never drops text of the user's own, nor what somebody changed *)
(* in OAW's files: a forced one that replaces it has it in a backup first.  *)
NoUserLoss == [][edits' = edits => Unlost(tree, tree')]_vars

(* An installation that check finds clean, or legacy and ready, can be     *)
(* updated to any release and be uninstalled without --force.              *)
CleanMeansManageable ==
    \A i \in Installations :
        Installed(tree, i) /\ (\A id \in InstalledTargets(i) :
                                 TargetStatus(tree, i, id) \in {"clean", "upgrade-required"}) =>
            /\ Accepted(tree, Request("uninstall", i, InstalledTargets(i), FALSE, 1))
            /\ \A v \in Versions :
                  LET q == Request("update", i, InstalledTargets(i), FALSE, v)
                  IN Accepted(tree, q) /\ Applicable(tree, Steps(tree, q))

(* As long as no recorded file is missing, nothing foreign lies in the     *)
(* Policy Set and the markers can be told, a forced update is accepted and *)
(* heals every target, whatever was changed.                               *)
ForceHeals ==
    \A i \in Installations :
        LET r == tree.record[i]
            q == Request("update", i, InstalledTargets(i), TRUE, r.version)
        IN /\ Installed(tree, i) /\ ~r.legacy /\ ValidatePolicySetTree(i, tree)
           /\ \A p \in DOMAIN r.policy \union {x.path : x \in r.targets} : Present(tree, p)
           /\ \A x \in r.targets : x.mode = "managed-block" =>
                  ManagedInstallStatus(tree, x.path) = "present" \/ Repairable(tree, x, r.version)
           => /\ Accepted(tree, q) /\ ~Manual(tree, q)
              /\ \A id \in q.targets : TargetStatus(Run(tree, Steps(tree, q)), i, id) = "clean"

(* No directory is owned by two installations: an uninstall of one never   *)
(* counts on removing what the other needs.                                *)
NoSharedOwnership ==
    \A i, j \in Installations : i # j => tree.record[i].dirs \intersect tree.record[j].dirs = {}

(* Check sees everything: when it reports no drift for any target, every   *)
(* file that OAW wrote in the scope is on record as it is, also after a    *)
(* killed command.                                                         *)
CheckSeesEverything ==
    \A i \in Installations :
        (\A id \in Supported(i) : TargetStatus(tree, i, id) \notin {"drift", "invalid-state"}) =>
            LET r == tree.record[i]
            IN \A p \in DOMAIN tree.files : p[1] \in Scope(i) /\ tree.files[p].body # 0 =>
                  \/ p \in DOMAIN r.policy /\ PolicyFileClean(tree, r, p)
                  \/ \E x \in At(r, p) : ValidateLiveTargetRecord(tree, x)
=============================================================================
