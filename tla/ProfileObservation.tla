------------------------- MODULE ProfileObservation -------------------------
(***************************************************************************)
(* observe_profile, the Bridge's one tool (internal/codexbridge,           *)
(* internal/discovery, internal/integrity, internal/assurance,             *)
(* internal/profileinspect): a Markdown Profile is resolved, Codex is      *)
(* asked for its Skills, the installations of the catalog's Providers are  *)
(* discovered and their trees digested, every enabled Skill is matched     *)
(* with the installation it lies in and digested again, and an Assurance   *)
(* Overlay is issued when each occurrence of the Profile has exactly one   *)
(* verified Binding.  Nothing is locked: plugins and Profiles are edited,  *)
(* removed and replaced between any two steps, and an Overlay is verified  *)
(* later against the Profile that stands then.                             *)
(*                                                                         *)
(* A file is its content: "right" (what the catalog's digest was taken     *)
(* of), "wrong", "garbled" (not text) or "absent".  A digest is right when *)
(* every file under the root was as expected when it was read, in the      *)
(* order of their names: some fixed order here.                            *)
(***************************************************************************)
EXTENDS Naturals, Sequences, FiniteSets, SequencesExt

CONSTANTS
    Bindings,         \* catalog: [id, provider, distribution, kind, reference, root]
    Probes,           \* catalog: [provider, distribution, names, versioned, evidence]
    Revision,         \* catalog: the version directory each distribution names
    Links,            \* the installation each path a probe visits resolves to
    Files,            \* the files of an installation: <<root, name>>
    Expected,         \* the content of each file the digests were taken of
    BuiltIn,          \* built-in Profiles
    ProfileFiles,     \* the files of the project's and the user's Profile directories
    ProfileTexts,     \* what may be written into one: [id, rows, valid]
    Responsibilities, \* the vocabulary of policy_set.go
    InitialDisks,     \* what is installed and which Profiles there are at the start
    Requests,         \* [selector, context]: what the tool is called with
    Answers,          \* what Codex may list: [cwd, skills]
    MaxDiagnostics,   \* 32 in the code
    MaxEdits,         \* bound on the steps of everybody else
    None              \* no value

Locations == {Links[n] : n \in DOMAIN Links}
Manifest == <<"top", ".oaw-distribution.json">>
SkillFile(root) == <<root, "SKILL.md">>
Contents == {"right", "wrong", "garbled", "absent"}

(* Binding IDs are unique in a Provider (decode.go:213), and what the       *)
(* catalog calls a Skill has the file Codex lists.                          *)
ASSUME CatalogAssumption ==
    /\ \A b \in Bindings : b.kind = "skill" => SkillFile(b.root) \in Files /\ Expected[SkillFile(b.root)] # "absent"
    /\ \A a, b \in Bindings : a.provider = b.provider /\ a.id = b.id => a = b
    /\ \A pr \in Probes : pr.names \subseteq DOMAIN Links /\ pr.evidence \in Files
    /\ Manifest \in Files /\ MaxDiagnostics \in Nat \ {0} /\ MaxEdits \in Nat
ASSUME FiniteAssumption == IsFiniteSet(Bindings) /\ IsFiniteSet(Probes) /\ IsFiniteSet(DOMAIN Links)
ASSUME DisksAssumption == /\ Expected \in [Files -> Contents]
                          /\ \A d \in InitialDisks : d.tree \in [Locations -> [Files -> Contents]]

(* What Codex lists is a sequence of Skills.                                *)
Entries == [name : STRING, valid : BOOLEAN, enabled : BOOLEAN, location : STRING, file : Seq(STRING)]
ASSUME AnswersAssumption == \A a \in Answers : a.skills \in Seq(Entries)

(* An installation the discovery reports, and what is attested or matched.  *)
Candidates == [provider : {pr.provider : pr \in Probes}, distribution : {pr.distribution : pr \in Probes},
               location : Locations, version : DOMAIN Links \union {None},
               provenance : {None, "distribution-attested", "content-equivalent"},
               roots : SUBSET {b.id : b \in Bindings}]
AttestJobs == [candidate : Candidates, bindings : SUBSET Bindings, whole : BOOLEAN]
MatchJobs == [entry : Entries, candidate : Candidates, bindings : SUBSET Bindings]
ASSUME NoneAssumption == /\ None \notin {"issued", "distribution-attested", "content-equivalent"}
                         /\ None \notin AttestJobs /\ None \notin MatchJobs

VARIABLES
    tree,         \* content of each file of each installation
    profiles,     \* text of each Profile file, or None
    edits,        \* steps of everybody else so far
    phase,        \* what ObserveProfile does next
    profile,      \* the Profile it resolved
    answer,       \* what Codex answered
    todo,         \* candidates still to attest
    report,       \* candidates of discovery
    job,          \* what is being attested or matched: [candidate, bindings, provenance]
    skills,       \* entries of Codex's list still to match
    reading,      \* the tree being digested: [location, files, names, right]
    inventory,    \* Binding observations, in order
    diagnostics,  \* set of [key, providers]
    result,       \* what the tool returned
    verdict,      \* what a verification of the Overlay said
    lately,       \* files that were right at some moment since discovery ended
    throughout    \* files that were right all the time since Codex answered

disk == <<tree, profiles, edits>>
history == <<lately, throughout>>
vars == <<disk, phase, profile, answer, todo, report, job, skills, reading,
          inventory, diagnostics, result, verdict, history>>

-----------------------------------------------------------------------------
(* Profiles                                                                 *)

(* Rows the reader of the Responsibility table warns about.                 *)
Ambiguous(text) ==
    \E i \in DOMAIN text.rows :
        \/ text.rows[i].responsibility \notin Responsibilities
        \/ text.rows[i].action = "empty"
        \/ \E j \in 1..(i - 1) : text.rows[j].responsibility = text.rows[i].responsibility

(* One occurrence per inline code reference, located by Responsibility and  *)
(* position.                                                                *)
Occurrences(text) ==
    FlattenSeq([i \in DOMAIN text.rows |->
        [k \in DOMAIN text.rows[i].references |->
            [locator |-> <<text.rows[i].responsibility, k>>,
             reference |-> text.rows[i].references[k]]]])

(* Built-in Profiles and the readable ones of both directories; one whose   *)
(* frontmatter is invalid is a diagnostic only.                             *)
Discover ==
    {[source |-> "built-in", path |-> <<"built-in", t.id>>, text |-> t] : t \in BuiltIn}
    \union {[source |-> f[1], path |-> f, text |-> profiles[f]] :
              f \in {g \in ProfileFiles : profiles[g] # None /\ profiles[g].valid}}

BuiltInID(id) == \E t \in BuiltIn : t.id = id

Matching(selector) == {p \in Discover : /\ p.text.id = selector.id
                                        /\ selector.source \in {"any", p.source}}

(* The one Profile a selector names, or why there is none.  A bare ID is a  *)
(* built-in Profile's before anything else.                                 *)
Resolve(selector) ==
    LET preferred == {p \in Matching(selector) : p.source = "built-in"}
        matches == IF selector.source = "any" /\ preferred # {} THEN preferred
                   ELSE Matching(selector)
    IN IF matches = {} THEN [code |-> "PROFILE_NOT_FOUND"]
       ELSE IF Cardinality(matches) > 1 THEN [code |-> "PROFILE_AMBIGUOUS"]
       ELSE IF \E p \in matches : p.source # "built-in" /\ BuiltInID(p.text.id)
       THEN [code |-> "PROFILE_SELECTION_INVALID"]
       ELSE [code |-> None, profile |-> CHOOSE p \in matches : TRUE]

(* The Bridge insists on a source, since a bare ID may change its meaning.  *)
ResolveQualified(selector) ==
    IF selector.source = "any" THEN [code |-> "PROFILE_SELECTION_INVALID"]
    ELSE Resolve(selector)

(* Mutant: the Overlay names the Profile but not its content.               *)
ReferenceOfFaulty(p) == [source |-> p.source, id |-> p.text.id, content |-> None]

(* What an Overlay pins: source, ID and the digest of the content.          *)
ReferenceOf(p) == [source |-> p.source, id |-> p.text.id, content |-> p.text]

Assurable(p) == ~Ambiguous(p.text) /\ Occurrences(p.text) # <<>>

(* Occurrences scoped to the Profile they were found in.                    *)
Inspect(p) == [i \in DOMAIN Occurrences(p.text) |->
                 [ref |-> <<ReferenceOf(p), Occurrences(p.text)[i].locator>>,
                  reference |-> Occurrences(p.text)[i].reference]]

(* assurance.Verify: same Profile, claims for its occurrences in its order. *)
Verify(p, overlay) ==
    /\ Assurable(p)
    /\ overlay.profile = ReferenceOf(p)
    /\ overlay.claims # <<>>
    /\ \E at \in [DOMAIN overlay.claims -> DOMAIN Inspect(p)] :
         /\ \A i \in DOMAIN at : /\ Inspect(p)[at[i]].ref = overlay.claims[i].occurrence
                                 /\ Inspect(p)[at[i]].reference = overlay.claims[i].binding.reference
         /\ \A i, j \in DOMAIN at : i < j => at[i] < at[j]

-----------------------------------------------------------------------------
(* Discovery                                                                *)

Right(l, p) == tree[l][p] = Expected[p]
Under(root) == {p \in Files : p[1] = root}
RightNow == {x \in Locations \X Files : Right(x[1], x[2])}

(* A probe visits the paths its names stand for; each directory that holds  *)
(* the evidence file is a candidate, once however many probes find it.      *)
Visits == {v \in Probes \X DOMAIN Links : v[2] \in v[1].names}
Found == {[provider |-> v[1].provider, distribution |-> v[1].distribution,
           location |-> Links[v[2]],
           version |-> IF v[1].versioned THEN v[2] ELSE None,
           provenance |-> None, roots |-> {}] :
             v \in {w \in Visits : tree[Links[w[2]]][w[1].evidence] # "absent"}}

(* Evidence that is no text fails the whole discovery.                      *)
EvidenceUnreadable ==
    \E v \in Visits : tree[Links[v[2]]][v[1].evidence] = "garbled"

BindingsOf(c) == {b \in Bindings : b.provider = c.provider /\ b.distribution = c.distribution}
InstallationKey(c) == <<c.provider, c.distribution, c.location>>

(* digestRootedBindingTree and DigestDistributionTree: the names are listed, *)
(* the files read one after the other, and the names listed again.          *)
Present(l, files) == {p \in files : tree[l][p] # "absent"}
StartDigest(l, files) ==
    [location |-> l, files |-> Present(l, files), names |-> Present(l, files),
     right |-> Present(l, files) = {p \in files : Expected[p] # "absent"}]
DigestRight(files) == reading.right /\ reading.names = Present(reading.location, files)
NotReading == [location |-> None, files |-> {}, names |-> {}, right |-> FALSE]
NextFile == CHOOSE p \in reading.files : TRUE

-----------------------------------------------------------------------------
(* The steps of ObserveProfile                                              *)

Init ==
    /\ \E d \in InitialDisks : tree = d.tree /\ profiles = d.profiles
    /\ edits = 0
    /\ phase = "idle"
    /\ profile = None /\ answer = None
    /\ todo = {} /\ report = {} /\ job = None /\ skills = <<>> /\ reading = NotReading
    /\ inventory = <<>> /\ diagnostics = {}
    /\ result = [status |-> None, code |-> None]
    /\ verdict = None
    /\ lately = {} /\ throughout = {}

Fail(code) ==
    /\ result' = [status |-> "failed", code |-> code]
    /\ phase' = "done"

(* Hook context, selector, Profile and its occurrences, before Codex is     *)
(* asked anything.                                                          *)
SelectProfile(request) ==
    /\ phase = "idle"
    /\ LET resolved == ResolveQualified(request.selector)
       IN IF request.context # "valid" THEN Fail("HOST_BRIDGE_CONTEXT_REQUIRED") /\ UNCHANGED profile
          ELSE IF resolved.code # None THEN Fail(resolved.code) /\ UNCHANGED profile
          ELSE IF ~Assurable(resolved.profile) THEN Fail("PROFILE_NOT_ASSURABLE") /\ UNCHANGED profile
          ELSE profile' = resolved.profile /\ phase' = "asking" /\ UNCHANGED result
    /\ UNCHANGED <<disk, answer, todo, report, job, skills, reading, inventory, diagnostics, verdict, history>>

(* The App Server client (module AppServerClient) answers or fails.  What   *)
(* the answer says is drawn where it is first looked at, in TakeSkills.     *)
AskCodex ==
    /\ phase = "asking"
    /\ \/ phase' = "discovering" /\ UNCHANGED result
       \/ Fail("HOST_OBSERVATION_FAILED")
    /\ throughout' = RightNow
    /\ UNCHANGED <<disk, profile, answer, todo, report, job, skills, reading, inventory, diagnostics, verdict, lately>>

DiscoverProviders ==
    /\ phase = "discovering"
    /\ IF EvidenceUnreadable THEN Fail("HOST_OBSERVATION_FAILED") /\ UNCHANGED todo
       ELSE todo' = Found /\ phase' = "attesting" /\ UNCHANGED result
    /\ UNCHANGED <<disk, profile, answer, report, job, skills, reading, inventory, diagnostics, verdict, history>>

(* A candidate is reported with what its attestation found, or with         *)
(* nothing: one Binding that differs takes the others with it.              *)
Report(c, provenance, roots) ==
    /\ report' = report \union {[c EXCEPT !.provenance = provenance, !.roots = roots]}
    /\ job' = None /\ reading' = NotReading

(* attestCandidate takes up the next candidate.                             *)
Attest ==
    /\ phase = "attesting" /\ job = None /\ todo # {}
    /\ LET c == CHOOSE x \in todo : TRUE
       IN /\ todo' = todo \ {c}
          /\ IF BindingsOf(c) = {} THEN Report(c, None, {})
             ELSE /\ job' = [candidate |-> c, bindings |-> BindingsOf(c), whole |-> FALSE]
                  /\ LET b == CHOOSE x \in BindingsOf(c) : TRUE
                     IN reading' = StartDigest(c.location, Under(b.root))
                  /\ UNCHANGED report
    /\ UNCHANGED <<disk, phase, profile, answer, skills, inventory, diagnostics, result, verdict, history>>

(* A file of the tree is read between two looks at it; Edit says what a     *)
(* change between them does.                                                *)
ReadFile ==
    /\ reading.files # {}
    /\ reading' = [reading EXCEPT !.right = @ /\ Right(reading.location, NextFile),
                                  !.files = @ \ {NextFile}]
    /\ UNCHANGED <<disk, phase, profile, answer, todo, report, job, skills, inventory,
                   diagnostics, result, verdict, history>>

(* The digest of a Binding's tree is there: on to the next Binding, or to   *)
(* the provenance of the installation.  A manifest vouches for revision and *)
(* tree; without one the version directory's name does, if its whole tree   *)
(* is that of the distribution.                                             *)
AttestBinding ==
    /\ phase = "attesting" /\ job # None /\ reading.files = {} /\ ~job.whole
    /\ LET c == job.candidate
           b == CHOOSE x \in job.bindings : TRUE
           rest == job.bindings \ {b}
           roots == {x.id : x \in BindingsOf(c)}
           manifest == tree[c.location][Manifest]
           right == DigestRight(Under(b.root))
       IN CASE ~right -> Report(c, None, {})
            [] right /\ rest # {}
                 -> /\ job' = [job EXCEPT !.bindings = rest]
                    /\ reading' = StartDigest(c.location, Under((CHOOSE x \in rest : TRUE).root))
                    /\ UNCHANGED report
            [] right /\ rest = {} /\ manifest = "right"
                 -> Report(c, "distribution-attested", roots)
            [] right /\ rest = {} /\ manifest \in {"wrong", "garbled"}
                 -> Report(c, None, {})
            [] right /\ rest = {} /\ manifest = "absent"
                                /\ c.version = Revision[c.distribution]
                 -> /\ job' = [job EXCEPT !.whole = TRUE]
                    /\ reading' = StartDigest(c.location, Files)
                    /\ UNCHANGED report
            [] OTHER -> Report(c, "content-equivalent", roots)
    /\ UNCHANGED <<disk, phase, profile, answer, todo, skills, inventory, diagnostics, result,
                   verdict, history>>

(* The digest of the whole installation is there.                           *)
AttestDistribution ==
    /\ phase = "attesting" /\ job # None /\ reading.files = {} /\ job.whole
    /\ IF DigestRight(Files)
       THEN Report(job.candidate, "distribution-attested", {b.id : b \in BindingsOf(job.candidate)})
       ELSE Report(job.candidate, None, {})
    /\ UNCHANGED <<disk, phase, profile, answer, todo, skills, inventory, diagnostics, result,
                   verdict, history>>
-----------------------------------------------------------------------------
(* The inventory of Bindings                                                *)

Diagnose(key, providers) == diagnostics' = diagnostics \union {[key |-> key, providers |-> providers]}

(* Every candidate is reported: on to what Codex listed.  A list for        *)
(* another working directory gives an empty inventory.                      *)
TakeSkills ==
    /\ phase = "attesting" /\ job = None /\ todo = {}
    /\ phase' = "matching"
    /\ answer' \in Answers
    /\ IF answer'.cwd = "ours" THEN skills' = answer'.skills /\ UNCHANGED diagnostics
       ELSE Diagnose(<<"HOST_OBSERVATION_FAILED", "cwd">>, {}) /\ UNCHANGED skills
    /\ lately' = RightNow
    /\ UNCHANGED <<disk, profile, todo, report, job, reading, inventory, result, verdict, throughout>>

ProvidersFor(name) == {b.provider : b \in {x \in Bindings : x.kind = "skill" /\ x.reference = name}}
Containing(e) == {c \in report : c.location = e.location}
SkillBindings(c, name) == {b \in BindingsOf(c) : b.kind = "skill" /\ b.reference = name}
Physical(e) == /\ e.file[2] = "SKILL.md"
               /\ e.location \in Locations => tree[e.location][e.file] # "absent"

(* One enabled Skill: its identity, its file, the installation it lies in   *)
(* and the Bindings declared for it.                                        *)
MatchSkill ==
    /\ phase = "matching" /\ job = None /\ skills # <<>>
    /\ skills' = Tail(skills)
    /\ LET e == Head(skills)
           c == CHOOSE x \in Containing(e) : TRUE
           nothing == UNCHANGED job
       IN \/ ~e.enabled /\ nothing /\ UNCHANGED diagnostics
          \/ e.enabled /\ ~e.valid /\ nothing /\ Diagnose(<<"HOST_OBSERVATION_FAILED", "identity">>, {})
          \/ /\ e.enabled /\ e.valid /\ ~Physical(e) /\ nothing
             /\ Diagnose(<<"PROVIDER_BINDING_CONTENT_MISMATCH", "path">>, ProvidersFor(e.name))
          \/ /\ e.enabled /\ e.valid /\ Physical(e) /\ Containing(e) = {} /\ nothing
             /\ Diagnose(<<"HOST_SKILL_ORPHAN">>, ProvidersFor(e.name))
          \/ /\ e.enabled /\ e.valid /\ Physical(e) /\ Cardinality(Containing(e)) > 1 /\ nothing
             /\ Diagnose(<<"HOST_SKILL_INSTALLATION_AMBIGUOUS">>, {x.provider : x \in Containing(e)})
          \/ /\ e.enabled /\ e.valid /\ Physical(e) /\ Cardinality(Containing(e)) = 1
             /\ IF SkillBindings(c, e.name) = {}
                THEN nothing /\ Diagnose(<<"HOST_BINDING_EVIDENCE_REQUIRED">>, {c.provider})
                ELSE /\ job' = [entry |-> e, candidate |-> c, bindings |-> SkillBindings(c, e.name)]
                     /\ UNCHANGED diagnostics
    /\ UNCHANGED <<disk, phase, profile, answer, todo, report, reading, inventory, result, verdict, history>>

NextBinding == CHOOSE b \in job.bindings : TRUE
BindingDone == IF job.bindings = {NextBinding} THEN None
               ELSE [job EXCEPT !.bindings = @ \ {NextBinding}]

(* One Binding declared for it: attested by discovery, a directory still,   *)
(* and the very one the Skill's file lies in; then its tree is digested     *)
(* again.                                                                   *)
MatchBinding ==
    /\ phase = "matching" /\ job # None /\ reading = NotReading
    /\ LET b == NextBinding
           c == job.candidate
           mismatch(key) == job' = BindingDone /\ UNCHANGED reading /\ Diagnose(key, {c.provider})
       IN IF b.id \notin c.roots
          THEN mismatch(<<"PROVIDER_BINDING_CONTENT_MISMATCH", "discovery">>)
          ELSE IF Present(c.location, Under(b.root)) = {}
          THEN mismatch(<<"PROVIDER_BINDING_CONTENT_MISMATCH", "declared">>)
          ELSE IF job.entry.file # SkillFile(b.root)
          THEN mismatch(<<"HOST_BINDING_INSTALL_ROOT_MISMATCH">>)
          ELSE /\ reading' = StartDigest(c.location, Under(b.root))
               /\ UNCHANGED <<job, diagnostics>>
    /\ UNCHANGED <<disk, phase, profile, answer, todo, report, skills, inventory, result, verdict, history>>

(* Mutant: the live tree is digested and the digest compared with itself.   *)
LiveTreeMatchesFaulty(b) == reading.files = {}

LiveTreeMatches(b) == DigestRight(Under(b.root))

(* The live digest is there: an observation, or a diagnostic.               *)
ConfirmBinding ==
    /\ phase = "matching" /\ reading # NotReading /\ reading.files = {}
    /\ LET b == NextBinding
           c == job.candidate
       IN IF LiveTreeMatches(b)
          THEN /\ inventory' = Append(inventory, [installation |-> InstallationKey(c), binding |-> b.id])
               /\ UNCHANGED diagnostics
          ELSE /\ Diagnose(<<"PROVIDER_BINDING_CONTENT_MISMATCH", "live">>, {c.provider})
               /\ UNCHANGED inventory
    /\ job' = BindingDone /\ reading' = NotReading
    /\ UNCHANGED <<disk, phase, profile, answer, todo, report, skills, result, verdict, history>>

-----------------------------------------------------------------------------
(* Claims, Overlay and diagnostics                                          *)

(* Observations of one Binding of one candidate: none or two are no         *)
(* evidence, and two refuse the whole inventory.                            *)
Observed(c, b) == {i \in DOMAIN inventory :
                     inventory[i] = [installation |-> InstallationKey(c), binding |-> b.id]}
DuplicateObservation == Cardinality(ToSet(inventory)) # Len(inventory)

Verified(ref) == {m \in report \X Bindings :
                    /\ m[2] \in BindingsOf(m[1]) /\ m[2].reference = ref
                    /\ m[1].provenance # None /\ m[2].id \in m[1].roots
                    /\ Cardinality(Observed(m[1], m[2])) = 1}

(* Mutant: the first of several exact Bindings is as good as any.           *)
ClaimableFaulty(ref) == Verified(ref) # {}

(* An occurrence needs exactly one exact current Binding.                   *)
Claimable(ref) == Cardinality(Verified(ref)) = 1

ClaimsForProfile ==
    [i \in DOMAIN Inspect(profile) |->
       LET occurrence == Inspect(profile)[i]
           match == CHOOSE m \in Verified(occurrence.reference) : TRUE
       IN [occurrence |-> occurrence.ref, binding |-> match[2], location |-> match[1].location,
           provenance |-> match[1].provenance]]

(* Codes and details in the order they sort.                                *)
Keys == <<<<"HOST_BINDING_EVIDENCE_REQUIRED">>, <<"HOST_BINDING_INSTALL_ROOT_MISMATCH">>,
          <<"HOST_OBSERVATION_FAILED", "cwd">>, <<"HOST_OBSERVATION_FAILED", "identity">>,
          <<"HOST_SKILL_INSTALLATION_AMBIGUOUS">>, <<"HOST_SKILL_ORPHAN">>,
          <<"PROVIDER_BINDING_CONTENT_MISMATCH", "declared">>,
          <<"PROVIDER_BINDING_CONTENT_MISMATCH", "discovery">>,
          <<"PROVIDER_BINDING_CONTENT_MISMATCH", "path">>,
          <<"PROVIDER_BINDING_CONTENT_MISMATCH", "live">>>>

(* One diagnostic for each code and detail, with all providers it affects;  *)
(* the n-th has n - 1 before it.                                            *)
Diagnosed == {k \in DOMAIN Keys : \E d \in diagnostics : d.key = Keys[k]}
AggregateDiagnostics ==
    LET nth(n) == Keys[CHOOSE k \in Diagnosed : Cardinality({j \in Diagnosed : j < k}) = n - 1]
    IN [n \in 1..Cardinality(Diagnosed) |->
          [key |-> nth(n), providers |-> UNION {d.providers : d \in {x \in diagnostics : x.key = nth(n)}}]]

(* Mutant: the budget keeps one too many beside the summary.                *)
RetainedFaulty == MaxDiagnostics

Retained == MaxDiagnostics - 1

(* Mutant: the summary of what was cut affects nobody.                      *)
SummaryFaulty(omitted) == [key |-> <<"HOST_DIAGNOSTICS_TRUNCATED">>, providers |-> {}]

Summary(omitted) == [key |-> <<"HOST_DIAGNOSTICS_TRUNCATED">>,
                     providers |-> UNION {omitted[i].providers : i \in DOMAIN omitted}]

(* The output budget: the first ones and a summary of the rest.             *)
NormalizeDiagnostics ==
    LET all == AggregateDiagnostics
    IN IF Len(all) <= MaxDiagnostics THEN all
       ELSE Append(SubSeq(all, 1, Retained), Summary(SubSeq(all, Retained + 1, Len(all))))

(* Issue, the Bridge's own verification, and the answer.  A failure returns *)
(* no diagnostics.                                                          *)
Return ==
    /\ phase = "matching" /\ job = None /\ skills = <<>>
    /\ LET overlay == [profile |-> ReferenceOf(profile), claims |-> ClaimsForProfile]
       IN IF DuplicateObservation THEN Fail("HOST_OBSERVATION_FAILED")
          ELSE IF \E i \in DOMAIN Inspect(profile) : ~Claimable(Inspect(profile)[i].reference)
          THEN Fail("ASSURANCE_BINDING_UNAVAILABLE")
          ELSE IF ~Verify(profile, overlay) THEN Fail("OVERLAY_INVALID")
          ELSE /\ result' = [status |-> "issued", code |-> None, overlay |-> overlay,
                             diagnostics |-> NormalizeDiagnostics]
               /\ phase' = "done"
    /\ UNCHANGED <<disk, profile, answer, todo, report, job, skills, reading, inventory, diagnostics,
                   verdict, history>>

(* oaw-assurance overlay verify, later, against the Profile of that time.   *)
(* It writes nothing, so one verification is as good as several.            *)
VerifyOverlay(selector) ==
    /\ phase = "done" /\ result.status = "issued"
    /\ LET resolved == Resolve(selector)
       IN /\ resolved.code = None
          /\ verdict' = [valid |-> Verify(resolved.profile, result.overlay), profile |-> resolved.profile]
    /\ phase' = "verified"
    /\ UNCHANGED <<disk, profile, answer, todo, report, job, skills, reading, inventory,
                   diagnostics, result, history>>

-----------------------------------------------------------------------------
(* Everybody else                                                           *)

Evidence == {pr.evidence : pr \in Probes}
Removed == [p \in Files |-> "absent"]

(* What a change to files of an installation does to the two histories.     *)
Remember(l, changed) ==
    /\ lately' = IF phase = "matching" THEN lately \union RightNow' ELSE lately
    /\ throughout' = (throughout \ ({l} \X changed)) \intersect RightNow'

(* A file of what is installed is written, made or deleted: before the file *)
(* is read, after it, or between the two looks at it, which fails the       *)
(* digest.  Whether a file is text matters for evidence only.               *)
Edit(l, p, content) ==
    /\ edits < MaxEdits /\ phase \notin {"done", "verified"} /\ tree[l][p] # content
    /\ tree[l] # Removed
    /\ content = "garbled" => p \in Evidence
    /\ tree' = [tree EXCEPT ![l][p] = content]
    /\ edits' = edits + 1
    /\ \/ UNCHANGED reading
       \/ /\ reading.location = l /\ reading.files # {} /\ NextFile = p
          /\ reading' = [reading EXCEPT !.right = FALSE]
    /\ Remember(l, {p})
    /\ UNCHANGED <<profiles, phase, profile, answer, todo, report, job, skills, inventory,
                   diagnostics, result, verdict>>

(* An installation is removed or put in place anew, under another identity. *)
Replace(l, content) ==
    /\ edits < MaxEdits /\ phase \notin {"done", "verified"} /\ tree[l] # content
    /\ tree' = [tree EXCEPT ![l] = content]
    /\ edits' = edits + 1
    /\ reading' = IF reading.location = l THEN [reading EXCEPT !.right = FALSE] ELSE reading
    /\ Remember(l, Files)
    /\ UNCHANGED <<profiles, phase, profile, answer, todo, report, job, skills, inventory,
                   diagnostics, result, verdict>>

(* A Profile is written or deleted.  No step between the resolution of a    *)
(* Profile and the answer looks at one, so it is then or now.               *)
EditProfile(f, text) ==
    /\ edits < MaxEdits /\ phase \in {"idle", "done"} /\ profiles[f] # text
    /\ profiles' = [profiles EXCEPT ![f] = text]
    /\ edits' = edits + 1
    /\ UNCHANGED <<tree, phase, profile, answer, todo, report, job, skills, reading, inventory,
                   diagnostics, result, verdict, history>>

Observe == \/ \E request \in Requests : SelectProfile(request)
           \/ AskCodex \/ DiscoverProviders
           \/ Attest \/ ReadFile \/ AttestBinding \/ AttestDistribution
           \/ TakeSkills \/ MatchSkill \/ MatchBinding \/ ConfirmBinding
           \/ Return
Others == \/ \E l \in Locations : \/ \E p \in Files, content \in Contents : Edit(l, p, content)
                                  \/ \E content \in {Expected, Removed} : Replace(l, content)
          \/ \E f \in ProfileFiles, text \in ProfileTexts \union {None} : EditProfile(f, text)
Next == Observe \/ Others \/ \E request \in Requests : VerifyOverlay(request.selector)

Spec == Init /\ [][Next]_vars

-----------------------------------------------------------------------------
(* Properties                                                               *)

(* State is well typed: what is attested is attested completely, and an     *)
(* answer stays within its budget of diagnostics (diagnostics.go).          *)
TypeOK ==
    /\ tree \in [Locations -> [Files -> Contents]]
    /\ edits \in 0..MaxEdits
    /\ phase \in {"idle", "asking", "discovering", "attesting", "matching", "done", "verified"}
    /\ report \in SUBSET Candidates /\ todo \in SUBSET Candidates
    /\ \A c \in report : c.roots = {} <=> c.provenance = None
    /\ result.status = "issued" => Len(result.diagnostics) <= MaxDiagnostics

(* Whatever is edited, removed and put back while installations are         *)
(* discovered and digested file by file: each file a claim vouches for was  *)
(* as the catalog knows it at some moment after discovery had ended, and    *)
(* what should not be there was absent (bindings.go, attest.go).            *)
ClaimsAreLive ==
    result.status = "issued" =>
        \A i \in DOMAIN result.overlay.claims :
            LET claim == result.overlay.claims[i]
            IN \A p \in Under(claim.binding.root) : <<claim.location, p>> \in lately

(* What an installation would be claimed for: its Bindings were right all   *)
(* the time, discovery attested it, and Codex lists the Skill at its root.  *)
Eligible(c, ref) ==
    /\ c.provenance # None
    /\ \A b \in BindingsOf(c) : \A p \in Under(b.root) : <<c.location, p>> \in throughout
    /\ \E b \in SkillBindings(c, ref), i \in DOMAIN answer.skills :
          LET e == answer.skills[i]
          IN e.enabled /\ e.valid /\ e.name = ref /\ e.location = c.location /\ e.file = SkillFile(b.root)
    /\ \A d \in report : d.location = c.location => d = c

(* A claim is never a choice: when two installations that were right all    *)
(* the time offer the same enabled Skill, there is no Overlay               *)
(* (service.go).                                                            *)
OneInstallation ==
    result.status = "issued" =>
        \A i \in DOMAIN result.overlay.claims :
            LET claim == result.overlay.claims[i]
            IN \A c \in report : Eligible(c, claim.binding.reference) => c.location = claim.location

(* An Overlay that verifies fits the Profile it is verified against: it     *)
(* claims each of its occurrences, in order, under its own name, however    *)
(* the Profile files were edited since (overlay.go, profile.go).            *)
VerifiedOverlayFits ==
    (verdict # None /\ verdict.valid) =>
        LET claims == result.overlay.claims
            occurrences == Occurrences(verdict.profile.text)
        IN /\ DOMAIN claims = DOMAIN occurrences
           /\ \A i \in DOMAIN claims : claims[i].binding.reference = occurrences[i].reference

Named == UNION {result.diagnostics[i].providers : i \in DOMAIN result.diagnostics}

(* Nobody is forgotten: for each well-named enabled Skill that gave no      *)
(* observation, the diagnostics, merged and cut to their budget as they     *)
(* are, name the Providers that declare it or those in whose installation   *)
(* it lies (bindings.go, diagnostics.go).                                   *)
NobodyForgotten ==
    (result.status = "issued" /\ answer.cwd = "ours") =>
        \A i \in DOMAIN answer.skills :
            LET e == answer.skills[i]
                observed == \E c \in Containing(e), b \in Bindings :
                               b \in SkillBindings(c, e.name) /\ Observed(c, b) # {}
                                 /\ e.file = SkillFile(b.root)
            IN (e.enabled /\ e.valid /\ ~observed) =>
                   \/ ProvidersFor(e.name) \subseteq Named
                   \/ Containing(e) # {} /\ {c.provider : c \in Containing(e)} \subseteq Named
=============================================================================
