---------------------- MODULE ProfileObservationProofs ----------------------
(***************************************************************************)
(* Proofs that an observation is well typed, that what it claims was on    *)
(* disk, that a claim is never a choice between two installations, that an *)
(* Overlay that verifies fits the Profile it is verified against, and that *)
(* nobody affected goes unnamed; for any catalog, disk, answer of Codex    *)
(* and number of edits.                                                    *)
(***************************************************************************)
EXTENDS ProfileObservation, FiniteSetTheorems, SequenceTheorems, TLAPS

Ended == {"done", "verified"}
Matchable == phase = "matching" \/ result.status = "issued"

(* What each phase has in hand                                              *)
PhaseInv ==
    /\ phase \in {"idle", "asking", "discovering"} => todo = {} /\ report = {}
    /\ phase \notin {"attesting", "matching"} => job = None
    /\ phase \notin {"matching"} \union Ended => inventory = <<>> /\ diagnostics = {}
    /\ phase # "matching" => skills = <<>>
    /\ phase = "attesting" => job = None \/ job \in AttestJobs
    /\ phase = "matching" => /\ todo = {} /\ answer \in Answers /\ skills \in Seq(Entries)
                             /\ job = None \/ job \in MatchJobs
    /\ job = None => reading = NotReading
    /\ result.status = "issued" => phase \in Ended /\ answer \in Answers
    /\ verdict # None => phase = "verified" /\ result.status = "issued"

(* Candidates are kept or reported as the discovery found them, completely  *)
(* attested or not at all.                                                  *)
ReportInv ==
    /\ \A c \in todo : c.provenance = None /\ c.roots = {}
    /\ \A c \in report : c.provenance # None => c.roots = {b.id : b \in BindingsOf(c)}
    /\ phase = "attesting" /\ job # None => job.bindings # {} /\ job.bindings \subseteq BindingsOf(job.candidate)
    /\ IsFiniteSet(todo) /\ IsFiniteSet(report)

(* What is being matched: the one installation the Skill lies in, and       *)
(* Bindings declared for it.                                                *)
JobInv ==
    phase = "matching" /\ job # None =>
        /\ Containing(job.entry) = {job.candidate}
        /\ job.bindings # {} /\ job.bindings \subseteq SkillBindings(job.candidate, job.entry.name)
        /\ job.entry.enabled = TRUE /\ job.entry.valid = TRUE
        /\ reading # NotReading => job.entry.file = SkillFile(NextBinding.root)

(* What was right when it was read is remembered, and what was right all    *)
(* the time still is.                                                       *)
HistoryInv == /\ phase = "matching" => RightNow \subseteq lately
              /\ throughout \subseteq RightNow

(* A digest under way: each file was right when it was read or is still to  *)
(* be read; what was right all the time cannot fail it.                     *)
Readings == [location : Locations \union {None}, files : SUBSET Files, names : SUBSET Files, right : BOOLEAN]
Wholly(l, root, when) == \A p \in Under(root) : <<l, p>> \in when
Declared(files) == {p \in files : Expected[p] # "absent"}
ReadingInv ==
    /\ reading \in Readings
    /\ phase = "matching" /\ reading # NotReading =>
        LET root == NextBinding.root IN
        /\ reading.location = job.candidate.location
        /\ reading.files \subseteq Under(root)
        /\ reading.right = TRUE => /\ reading.names = Declared(Under(root))
                                   /\ \A p \in Under(root) \ reading.files : <<reading.location, p>> \in lately
        /\ Wholly(reading.location, root, throughout) => reading.right = TRUE

(* An observation is of an attested Binding whose tree was right.           *)
ObservationOf(c, b) == [installation |-> InstallationKey(c), binding |-> b.id]
InventoryInv ==
    /\ inventory \in Seq([installation : {InstallationKey(c) : c \in Candidates}, binding : {b.id : b \in Bindings}])
    /\ \A k \in DOMAIN inventory : \E c \in report, b \in Bindings :
           b \in BindingsOf(c) /\ inventory[k] = ObservationOf(c, b) /\ Wholly(c.location, b.root, lately)

(* Skills Codex listed, still to be matched, or being matched               *)
ListedSkills == {answer.skills[i] : i \in DOMAIN answer.skills}
Waiting(e) == \E j \in DOMAIN skills : skills[j] = e
Pending(e, b) == job # None /\ job.entry = e /\ b \in job.bindings
Matched(c, b) == \E k \in DOMAIN inventory : inventory[k] = ObservationOf(c, b)

(* What was right all the time and is listed unambiguously is observed.     *)
Clear(e, c, b) ==
    /\ e.enabled = TRUE /\ e.valid = TRUE /\ e.location = c.location /\ e.file = SkillFile(b.root)
    /\ c \in report /\ c.provenance # None /\ Containing(e) = {c}
    /\ b \in SkillBindings(c, e.name) /\ Wholly(c.location, b.root, throughout)
SeenInv ==
    Matchable =>
        IF answer.cwd = "ours"
        THEN \A e \in ListedSkills, c \in report, b \in Bindings :
                 Clear(e, c, b) => Waiting(e) \/ Pending(e, b) \/ Matched(c, b)
        ELSE inventory = <<>> /\ skills = <<>> /\ job = None

(* Each Skill that is done with was observed or diagnosed.                  *)
Affected == UNION {d.providers : d \in diagnostics}
Observable(e) == \E c \in Containing(e), b \in Bindings :
                    b \in SkillBindings(c, e.name) /\ Matched(c, b) /\ e.file = SkillFile(b.root)
Answered(e) == \/ Observable(e)
               \/ ProvidersFor(e.name) \subseteq Affected
               \/ Containing(e) # {} /\ {c.provider : c \in Containing(e)} \subseteq Affected
AnsweredInv ==
    /\ \A d \in diagnostics : \E k \in DOMAIN Keys : d.key = Keys[k]
    /\ Matchable /\ answer.cwd = "ours" =>
         \A e \in ListedSkills : e.enabled = TRUE /\ e.valid = TRUE => Waiting(e) \/ (job # None /\ job.entry = e) \/ Answered(e)

(* What was issued                                                          *)
IssuedInv ==
    result.status = "issued" =>
        /\ job = None /\ skills = <<>>
        /\ Cardinality(ToSet(inventory)) = Len(inventory)
        /\ result.overlay.profile = ReferenceOf(profile)
        /\ DOMAIN result.overlay.claims = DOMAIN Inspect(profile)
        /\ \A d \in diagnostics : \E n \in DOMAIN result.diagnostics : d.providers \subseteq result.diagnostics[n].providers
        /\ \A i \in DOMAIN result.overlay.claims : \E ref \in {Inspect(profile)[i].reference}, c \in report, b \in Bindings :
              /\ Verified(ref) = {<<c, b>>}
              /\ result.overlay.claims[i].binding = b /\ result.overlay.claims[i].location = c.location
        /\ verdict # None => /\ verdict.valid \in BOOLEAN
                             /\ verdict.valid = TRUE => ReferenceOf(verdict.profile) = ReferenceOf(profile)

ObservationInv == /\ TypeOK /\ PhaseInv /\ ReportInv /\ JobInv /\ HistoryInv /\ ReadingInv /\ InventoryInv
                  /\ SeenInv /\ AnsweredInv /\ IssuedInv

-----------------------------------------------------------------------------
(* What has been listed but is not yet matched after one more is taken.     *)
LEMMA TailFacts ==
    ASSUME NEW S, NEW s \in Seq(S), s # <<>>
    PROVE  /\ Tail(s) \in Seq(S) /\ Head(s) \in S
           /\ \A j \in DOMAIN s : s[j] = Head(s) \/ \E k \in DOMAIN Tail(s) : Tail(s)[k] = s[j]
<1>1. /\ Tail(s) \in Seq(S) /\ Head(s) = s[1] /\ Head(s) \in S
      /\ Len(s) \in Nat \ {0} /\ Len(Tail(s)) = Len(s) - 1
      /\ \A k \in 1..Len(s) - 1 : Tail(s)[k] = s[k + 1]
  BY HeadTailProperties, EmptySeq, LenProperties
<1>2. ASSUME NEW j \in DOMAIN s, s[j] # Head(s) PROVE \E k \in DOMAIN Tail(s) : Tail(s)[k] = s[j]
  <2>1. j \in 2..Len(s)
    BY <1>1, <1>2
  <2>2. j - 1 \in 1..Len(s) - 1 /\ j - 1 + 1 = j
    BY <1>1, <2>1
  <2>3. DOMAIN Tail(s) = 1..Len(s) - 1
    BY <1>1
  <2> QED BY <1>1, <2>2, <2>3
<1> QED BY <1>1, <1>2

(* What is next is one of what is left.                                     *)
LEMMA NextFacts ==
    /\ reading.files # {} => NextFile \in reading.files
    /\ job.bindings # {} => NextBinding \in job.bindings
  BY DEF NextFile, NextBinding

-----------------------------------------------------------------------------
(* Before the matching nothing is observed and nothing issued.              *)
LEMMA EarlyKeeps ==
    ASSUME phase' \in {"idle", "asking", "discovering", "attesting", "done"}, result'.status # "issued",
           inventory' = <<>>, diagnostics' = {}, reading' \in Readings, throughout' \subseteq RightNow'
    PROVE  /\ JobInv' /\ HistoryInv' /\ ReadingInv' /\ InventoryInv' /\ SeenInv' /\ AnsweredInv' /\ IssuedInv'
<1>1. JobInv' /\ HistoryInv' /\ ReadingInv' /\ IssuedInv' /\ SeenInv' /\ AnsweredInv'
  BY DEF JobInv, HistoryInv, ReadingInv, IssuedInv, SeenInv, AnsweredInv, Matchable
<1>2. InventoryInv'
  BY EmptySeq DEF InventoryInv
<1> QED BY <1>1, <1>2

(* A Profile is chosen, or the call fails before Codex is asked.            *)
LEMMA SelectKeeps == ASSUME ObservationInv, NEW request \in Requests, SelectProfile(request) PROVE ObservationInv'
<1> USE DEF ObservationInv
<1>1. /\ phase = "idle" /\ phase' \in {"asking", "done"}
      /\ result' = result \/ \E code : result' = [status |-> "failed", code |-> code]
      /\ UNCHANGED <<disk, answer, todo, report, job, skills, reading, inventory, diagnostics, verdict, history>>
  BY DEF SelectProfile, Fail
<1>2. result.status # "issued" /\ result'.status # "issued" /\ verdict = None
  BY <1>1 DEF PhaseInv, Ended
<1>3. TypeOK'
  BY <1>1, <1>2 DEF TypeOK, disk
<1>4. PhaseInv'
  BY <1>1, <1>2 DEF PhaseInv, Ended
<1>5. ReportInv'
  BY <1>1 DEF ReportInv, BindingsOf
<1>6. RightNow' = RightNow
  BY <1>1 DEF RightNow, Right, disk
<1> QED BY <1>1, <1>2, <1>3, <1>4, <1>5, <1>6, EarlyKeeps DEF PhaseInv, Ended, ReadingInv, HistoryInv, history

(* From Codex's answer on, what is right is followed.                       *)
LEMMA AskKeeps == ASSUME ObservationInv, AskCodex PROVE ObservationInv'
<1> USE DEF ObservationInv
<1>1. /\ phase = "asking" /\ phase' \in {"discovering", "done"}
      /\ result' = result \/ \E code : result' = [status |-> "failed", code |-> code]
      /\ throughout' = RightNow
      /\ UNCHANGED <<disk, answer, todo, report, job, skills, reading, inventory, diagnostics, verdict>>
  BY DEF AskCodex, Fail
<1>2. result.status # "issued" /\ result'.status # "issued" /\ verdict = None
  BY <1>1 DEF PhaseInv, Ended
<1>3. TypeOK'
  BY <1>1, <1>2 DEF TypeOK, disk
<1>4. PhaseInv'
  BY <1>1, <1>2 DEF PhaseInv, Ended
<1>5. ReportInv'
  BY <1>1 DEF ReportInv, BindingsOf
<1>6. RightNow' = RightNow
  BY <1>1 DEF RightNow, Right, disk
<1> QED BY <1>1, <1>2, <1>3, <1>4, <1>5, <1>6, EarlyKeeps DEF PhaseInv, Ended, ReadingInv

(* What a probe finds is one of finitely many candidates.                   *)
LEMMA FoundFacts == ASSUME TypeOK PROVE /\ Found \subseteq Candidates /\ IsFiniteSet(Found)
                          /\ \A c \in Found : c.provenance = None /\ c.roots = {}
<1> DEFINE At(v) == [provider |-> v[1].provider, distribution |-> v[1].distribution, location |-> Links[v[2]],
                     version |-> IF v[1].versioned THEN v[2] ELSE None, provenance |-> None, roots |-> {}]
           All == {At(v) : v \in Probes \X DOMAIN Links}
<1>1. Found \subseteq All
  BY DEF Found, Visits
<1>2. \A c \in All : c \in Candidates /\ c.provenance = None /\ c.roots = {}
  <2> SUFFICES ASSUME NEW v \in Probes \X DOMAIN Links PROVE At(v) \in Candidates
    OBVIOUS
  <2>1. v[1] \in Probes /\ v[2] \in DOMAIN Links
    OBVIOUS
  <2>2. Links[v[2]] \in Locations
    BY <2>1 DEF Locations
  <2>3. (IF v[1].versioned THEN v[2] ELSE None) \in DOMAIN Links \union {None}
    BY <2>1
  <2> QED BY <2>1, <2>2, <2>3 DEF Candidates
<1>3. IsFiniteSet(Probes \X DOMAIN Links)
  BY FiniteAssumption, FS_Product
<1>4. IsFiniteSet(All)
  <2> DEFINE f == [v \in Probes \X DOMAIN Links |-> At(v)]
  <2>1. f \in Surjection(Probes \X DOMAIN Links, All)
    BY DEF Surjection
  <2> QED BY <1>3, <2>1, FS_Surjection
<1> QED BY <1>1, <1>2, <1>4, FS_Subset

(* The discovery reports what it finds, not attested yet.                   *)
LEMMA DiscoverKeeps == ASSUME ObservationInv, DiscoverProviders PROVE ObservationInv'
<1> USE DEF ObservationInv
<1>1. /\ phase = "discovering" /\ phase' \in {"attesting", "done"}
      /\ \/ phase' = "done" /\ UNCHANGED todo /\ \E code : result' = [status |-> "failed", code |-> code]
         \/ phase' = "attesting" /\ todo' = Found /\ result' = result
      /\ UNCHANGED <<disk, answer, report, job, skills, reading, inventory, diagnostics, verdict, history>>
  BY DEF DiscoverProviders, Fail
<1>2. result.status # "issued" /\ result'.status # "issued" /\ verdict = None /\ job = None
  BY <1>1 DEF PhaseInv, Ended
<1>3. TypeOK'
  BY <1>1, <1>2, FoundFacts DEF TypeOK, disk
<1>4. PhaseInv'
  BY <1>1, <1>2 DEF PhaseInv, Ended
<1>5. ReportInv'
  BY <1>1, <1>2, FoundFacts DEF ReportInv, BindingsOf
<1>6. RightNow' = RightNow
  BY <1>1 DEF RightNow, Right, disk
<1> QED BY <1>1, <1>2, <1>3, <1>4, <1>5, <1>6, EarlyKeeps DEF PhaseInv, Ended, ReadingInv, HistoryInv, history

(* A digest that starts is of files that are there.                         *)
LEMMA StartFacts ==
    ASSUME NEW l \in Locations, NEW files \in SUBSET Files PROVE StartDigest(l, files) \in Readings
  BY DEF StartDigest, Readings, Present

(* A candidate that is reported is attested completely or not at all.       *)
LEMMA ReportKeeps ==
    ASSUME TypeOK, ReportInv, NEW c \in Candidates, NEW provenance \in {None, "distribution-attested", "content-equivalent"},
           NEW roots \in SUBSET {b.id : b \in Bindings}, roots = {} <=> provenance = None,
           provenance # None => roots = {b.id : b \in BindingsOf(c)},
           Report(c, provenance, roots)
    PROVE  /\ report' \subseteq Candidates /\ IsFiniteSet(report')
           /\ \A d \in report' : d.roots = {} <=> d.provenance = None
           /\ \A d \in report' : d.provenance # None => d.roots = {b.id : b \in BindingsOf(d)}
           /\ job' = None /\ reading' = NotReading
<1> DEFINE r == [c EXCEPT !.provenance = provenance, !.roots = roots]
<1>1. report' = report \union {r} /\ job' = None /\ reading' = NotReading
  BY DEF Report
<1>2. r \in Candidates /\ r.provenance = provenance /\ r.roots = roots /\ BindingsOf(r) = BindingsOf(c)
  BY DEF Candidates, BindingsOf
<1>3. IsFiniteSet(report')
  BY <1>1, FS_AddElement DEF ReportInv
<1> HIDE DEF r
<1> QED BY <1>1, <1>2, <1>3 DEF TypeOK, ReportInv

(* Of the attestation, nothing but candidates, reports and the digest.      *)
LEMMA AttestingKeeps ==
    ASSUME ObservationInv, phase = "attesting", reading' \in Readings, job' = None => reading' = NotReading,
           todo' \subseteq todo, report' \subseteq Candidates, IsFiniteSet(report'),
           \A d \in report' : d.roots = {} <=> d.provenance = None,
           \A d \in report' : d.provenance # None => d.roots = {b.id : b \in BindingsOf(d)},
           job' = None \/ (job' \in AttestJobs /\ job'.bindings # {} /\ job'.bindings \subseteq BindingsOf(job'.candidate)),
           UNCHANGED <<disk, phase, profile, answer, skills, inventory, diagnostics, result, verdict, history>>
    PROVE  ObservationInv'
<1> USE DEF ObservationInv
<1>1. result.status # "issued" /\ verdict = None
  BY DEF PhaseInv, Ended
<1>2. TypeOK'
  BY <1>1 DEF TypeOK, disk
<1>3. PhaseInv'
  BY <1>1 DEF PhaseInv, Ended
<1>4. ReportInv'
  <2>1. IsFiniteSet(todo')
    BY FS_Subset DEF ReportInv
  <2> QED BY <2>1 DEF ReportInv, BindingsOf
<1>5. RightNow' = RightNow
  BY DEF RightNow, Right, disk
<1> QED BY <1>1, <1>2, <1>3, <1>4, <1>5, EarlyKeeps DEF PhaseInv, Ended, ReadingInv, HistoryInv, history

(* A candidate is taken up: reported at once, or digested.                  *)
LEMMA AttestKeeps == ASSUME ObservationInv, Attest PROVE ObservationInv'
<1> USE DEF ObservationInv
<1> DEFINE c == CHOOSE x \in todo : TRUE
           b == CHOOSE x \in BindingsOf(c) : TRUE
<1>1. /\ phase = "attesting" /\ todo # {} /\ todo' \subseteq todo
      /\ UNCHANGED <<disk, phase, profile, answer, skills, inventory, diagnostics, result, verdict, history>>
      /\ \/ BindingsOf(c) = {} /\ Report(c, None, {})
         \/ /\ BindingsOf(c) # {} /\ job' = [candidate |-> c, bindings |-> BindingsOf(c), whole |-> FALSE]
            /\ reading' = StartDigest(c.location, Under(b.root)) /\ UNCHANGED report
  BY DEF Attest
<1>2. c \in todo /\ c \in Candidates /\ c.location \in Locations
  BY <1>1 DEF TypeOK, Candidates
<1> HIDE DEF c
<1>3. CASE BindingsOf(c) = {} /\ Report(c, None, {})
  <2>1. /\ report' \subseteq Candidates /\ IsFiniteSet(report') /\ job' = None /\ reading' = NotReading
        /\ \A d \in report' : d.roots = {} <=> d.provenance = None
        /\ \A d \in report' : d.provenance # None => d.roots = {x.id : x \in BindingsOf(d)}
    BY <1>2, <1>3, ReportKeeps
  <2>2. NotReading \in Readings
    BY DEF Readings, NotReading
  <2> QED BY <1>1, <2>1, <2>2, AttestingKeeps
<1>4. CASE BindingsOf(c) # {} /\ job' = [candidate |-> c, bindings |-> BindingsOf(c), whole |-> FALSE]
              /\ reading' = StartDigest(c.location, Under(b.root)) /\ UNCHANGED report
  <2>1. reading' \in Readings
    <3>1. Under(b.root) \in SUBSET Files
      BY DEF Under
    <3> QED BY <1>2, <1>4, <3>1, StartFacts
  <2>2. job' \in AttestJobs /\ job'.bindings = BindingsOf(c) /\ job'.candidate = c /\ BindingsOf(c) \subseteq Bindings
    BY <1>2, <1>4 DEF AttestJobs, BindingsOf
  <2>3. job' # None
    BY <2>2, NoneAssumption
  <2> QED BY <1>1, <1>4, <2>1, <2>2, <2>3, AttestingKeeps DEF TypeOK, ReportInv
<1> QED BY <1>1, <1>3, <1>4

(* What the attestation of a candidate leaves, with a report or without.    *)
LEMMA ReportingKeeps ==
    ASSUME ObservationInv, phase = "attesting", job # None,
           UNCHANGED <<disk, phase, profile, answer, todo, skills, inventory, diagnostics, result, verdict, history>>,
           \/ Report(job.candidate, None, {})
           \/ \E p \in {"distribution-attested", "content-equivalent"} :
                 Report(job.candidate, p, {b.id : b \in BindingsOf(job.candidate)})
    PROVE  ObservationInv'
<1> USE DEF ObservationInv
<1> DEFINE c == job.candidate
<1>1. c \in Candidates /\ BindingsOf(c) # {} /\ BindingsOf(c) \subseteq Bindings
  BY DEF PhaseInv, AttestJobs, ReportInv, BindingsOf
<1>2. NotReading \in Readings
  BY DEF Readings, NotReading
<1>3. PICK p \in {None, "distribution-attested", "content-equivalent"}, roots \in SUBSET {b.id : b \in Bindings} :
         /\ Report(c, p, roots) /\ (roots = {} <=> p = None)
         /\ p # None => roots = {b.id : b \in BindingsOf(c)}
  <2>1. CASE Report(job.candidate, None, {})
    BY <2>1
  <2>2. CASE \E p \in {"distribution-attested", "content-equivalent"} : Report(c, p, {b.id : b \in BindingsOf(c)})
    BY <1>1, <2>2, NoneAssumption
  <2> QED BY <2>1, <2>2
<1> HIDE DEF c
<1>4. /\ report' \subseteq Candidates /\ IsFiniteSet(report') /\ job' = None /\ reading' = NotReading
      /\ \A d \in report' : d.roots = {} <=> d.provenance = None
      /\ \A d \in report' : d.provenance # None => d.roots = {b.id : b \in BindingsOf(d)}
  BY <1>1, <1>3, ReportKeeps
<1> QED BY <1>2, <1>4, AttestingKeeps

(* The next Binding of a candidate is digested, or all of them were.        *)
LEMMA AttestBindingKeeps == ASSUME ObservationInv, AttestBinding PROVE ObservationInv'
<1> USE DEF ObservationInv
<1> DEFINE c == job.candidate
           b == CHOOSE x \in job.bindings : TRUE
           rest == job.bindings \ {b}
<1>1. /\ phase = "attesting" /\ job # None
      /\ UNCHANGED <<disk, phase, profile, answer, todo, skills, inventory, diagnostics, result, verdict, history>>
  BY DEF AttestBinding
<1>2. /\ job \in AttestJobs /\ c \in Candidates /\ c.location \in Locations
      /\ job.bindings \subseteq BindingsOf(c) /\ BindingsOf(c) \subseteq Bindings
  BY <1>1 DEF PhaseInv, AttestJobs, ReportInv, BindingsOf, Candidates
<1>3. \/ Report(c, None, {})
      \/ Report(c, "distribution-attested", {x.id : x \in BindingsOf(c)})
      \/ Report(c, "content-equivalent", {x.id : x \in BindingsOf(c)})
      \/ /\ rest # {} /\ job' = [job EXCEPT !.bindings = rest] /\ UNCHANGED report
         /\ reading' = StartDigest(c.location, Under((CHOOSE x \in rest : TRUE).root))
      \/ job' = [job EXCEPT !.whole = TRUE] /\ UNCHANGED report /\ reading' = StartDigest(c.location, Files)
  BY Zenon DEF AttestBinding
<1>4. CASE \/ Report(c, None, {})
           \/ Report(c, "distribution-attested", {x.id : x \in BindingsOf(c)})
           \/ Report(c, "content-equivalent", {x.id : x \in BindingsOf(c)})
  BY <1>1, <1>4, ReportingKeeps
<1> HIDE DEF b
<1>5. CASE /\ rest # {} /\ job' = [job EXCEPT !.bindings = rest] /\ UNCHANGED report
           /\ reading' = StartDigest(c.location, Under((CHOOSE x \in rest : TRUE).root))
  <2>1. job' \in AttestJobs /\ job'.bindings = rest /\ job'.candidate = c
    BY <1>2, <1>5 DEF AttestJobs
  <2>2. Under((CHOOSE x \in rest : TRUE).root) \in SUBSET Files
    BY DEF Under
  <2>3. reading' \in Readings /\ job' # None
    BY <1>2, <1>5, <2>1, <2>2, StartFacts, NoneAssumption
  <2> QED BY <1>1, <1>2, <1>5, <2>1, <2>3, AttestingKeeps DEF TypeOK, ReportInv
<1>6. CASE job' = [job EXCEPT !.whole = TRUE] /\ UNCHANGED report /\ reading' = StartDigest(c.location, Files)
  <2>1. job' \in AttestJobs /\ job'.bindings = job.bindings /\ job'.candidate = c
    BY <1>2, <1>6 DEF AttestJobs
  <2>2. reading' \in Readings /\ job' # None
    BY <1>2, <1>6, <2>1, StartFacts, NoneAssumption
  <2> QED BY <1>1, <1>2, <1>6, <2>1, <2>2, AttestingKeeps DEF TypeOK, ReportInv
<1> QED BY <1>3, <1>4, <1>5, <1>6

(* The whole installation was digested.                                     *)
LEMMA AttestDistributionKeeps == ASSUME ObservationInv, AttestDistribution PROVE ObservationInv'
<1>1. /\ phase = "attesting" /\ job # None
      /\ UNCHANGED <<disk, phase, profile, answer, todo, skills, inventory, diagnostics, result, verdict, history>>
      /\ \/ Report(job.candidate, None, {})
         \/ Report(job.candidate, "distribution-attested", {b.id : b \in BindingsOf(job.candidate)})
  BY DEF AttestDistribution
<1> QED BY <1>1, ReportingKeeps

-----------------------------------------------------------------------------
(* The diagnostics of the matching have their place in the order.           *)
Known(key) == \E k \in DOMAIN Keys : key = Keys[k]

(* All that are used are known.                                             *)
LEMMA KeyFacts ==
    /\ Known(<<"HOST_BINDING_EVIDENCE_REQUIRED">>) /\ Known(<<"HOST_BINDING_INSTALL_ROOT_MISMATCH">>)
    /\ Known(<<"HOST_OBSERVATION_FAILED", "cwd">>) /\ Known(<<"HOST_OBSERVATION_FAILED", "identity">>)
    /\ Known(<<"HOST_SKILL_INSTALLATION_AMBIGUOUS">>) /\ Known(<<"HOST_SKILL_ORPHAN">>)
    /\ Known(<<"PROVIDER_BINDING_CONTENT_MISMATCH", "declared">>)
    /\ Known(<<"PROVIDER_BINDING_CONTENT_MISMATCH", "discovery">>)
    /\ Known(<<"PROVIDER_BINDING_CONTENT_MISMATCH", "path">>)
    /\ Known(<<"PROVIDER_BINDING_CONTENT_MISMATCH", "live">>)
<1>1. /\ DOMAIN Keys = 1..10
      /\ Keys[1] = <<"HOST_BINDING_EVIDENCE_REQUIRED">> /\ Keys[2] = <<"HOST_BINDING_INSTALL_ROOT_MISMATCH">>
      /\ Keys[3] = <<"HOST_OBSERVATION_FAILED", "cwd">> /\ Keys[4] = <<"HOST_OBSERVATION_FAILED", "identity">>
      /\ Keys[5] = <<"HOST_SKILL_INSTALLATION_AMBIGUOUS">> /\ Keys[6] = <<"HOST_SKILL_ORPHAN">>
      /\ Keys[7] = <<"PROVIDER_BINDING_CONTENT_MISMATCH", "declared">>
      /\ Keys[8] = <<"PROVIDER_BINDING_CONTENT_MISMATCH", "discovery">>
      /\ Keys[9] = <<"PROVIDER_BINDING_CONTENT_MISMATCH", "path">>
      /\ Keys[10] = <<"PROVIDER_BINDING_CONTENT_MISMATCH", "live">>
  BY DEF Keys
<1> QED BY <1>1 DEF Known

(* With nothing attested any more, all that Codex listed waits.             *)
LEMMA TakeSkillsKeeps == ASSUME ObservationInv, TakeSkills PROVE ObservationInv'
<1> USE DEF ObservationInv
<1>1. /\ phase = "attesting" /\ phase' = "matching" /\ job = None /\ todo = {} /\ answer' \in Answers
      /\ \/ answer'.cwd = "ours" /\ skills' = answer'.skills /\ UNCHANGED diagnostics
         \/ answer'.cwd # "ours" /\ Diagnose(<<"HOST_OBSERVATION_FAILED", "cwd">>, {}) /\ UNCHANGED skills
      /\ lately' = RightNow
      /\ UNCHANGED <<disk, profile, todo, report, job, reading, inventory, result, verdict, throughout>>
  BY DEF TakeSkills
<1>2. /\ result.status # "issued" /\ verdict = None /\ skills = <<>> /\ reading = NotReading
      /\ inventory = <<>> /\ diagnostics = {}
  BY <1>1 DEF PhaseInv, Ended
<1>3. skills' \in Seq(Entries)
  BY <1>1, <1>2, AnswersAssumption, EmptySeq
<1>4. TypeOK'
  BY <1>1, <1>2 DEF TypeOK, disk
<1>5. PhaseInv'
  BY <1>1, <1>2, <1>3 DEF PhaseInv, Ended
<1>6. ReportInv'
  BY <1>1 DEF ReportInv, BindingsOf
<1>7. RightNow' = RightNow
  BY <1>1 DEF RightNow, Right, disk
<1>8. HistoryInv'
  BY <1>1, <1>7 DEF HistoryInv
<1>9. JobInv' /\ ReadingInv' /\ IssuedInv'
  BY <1>1, <1>2 DEF JobInv, ReadingInv, IssuedInv
<1>10. InventoryInv'
  BY <1>1, <1>2, EmptySeq DEF InventoryInv
<1>11. SeenInv'
  <2>1. CASE answer'.cwd = "ours"
    BY <1>1, <2>1 DEF SeenInv, Waiting, ListedSkills
  <2>2. CASE answer'.cwd # "ours"
    BY <1>1, <1>2, <2>2 DEF SeenInv
  <2> QED BY <2>1, <2>2
<1>12. AnsweredInv'
  <2>1. \A d \in diagnostics' : \E k \in DOMAIN Keys : d.key = Keys[k]
    BY <1>1, <1>2, KeyFacts DEF Diagnose, Known
  <2>2. CASE answer'.cwd = "ours"
    BY <1>1, <2>1, <2>2 DEF AnsweredInv, Waiting, ListedSkills
  <2>3. CASE answer'.cwd # "ours"
    BY <2>1, <2>3 DEF AnsweredInv
  <2> QED BY <2>2, <2>3
<1> QED BY <1>4, <1>5, <1>6, <1>8, <1>9, <1>10, <1>11, <1>12

(* A step of the matching leaves the disk, the reports and the answer as    *)
(* they are.                                                                *)
Matches == /\ phase = "matching" /\ UNCHANGED <<disk, phase, profile, answer, todo, report, result, verdict, history>>

(* So what depends on those alone is kept.                                  *)
LEMMA MatchingKeeps ==
    ASSUME ObservationInv, Matches, job' = None \/ job' \in MatchJobs, skills' \in Seq(Entries),
           job' = None => reading' = NotReading
    PROVE  TypeOK' /\ PhaseInv' /\ ReportInv' /\ HistoryInv' /\ IssuedInv'
<1> USE DEF ObservationInv, Matches
<1>1. result.status # "issued" /\ verdict = None
  BY DEF PhaseInv, Ended
<1>2. TypeOK'
  BY <1>1 DEF TypeOK, disk
<1>3. PhaseInv'
  BY <1>1 DEF PhaseInv, Ended
<1>4. ReportInv'
  BY DEF ReportInv, BindingsOf
<1>5. RightNow' = RightNow
  BY DEF RightNow, Right, disk
<1>6. HistoryInv' /\ IssuedInv'
  BY <1>1, <1>5 DEF HistoryInv, IssuedInv, history
<1> QED BY <1>2, <1>3, <1>4, <1>6

(* A step of the digest alone disturbs neither Skills nor observations.     *)
LEMMA DigestingKeeps ==
    ASSUME ObservationInv, Matches, UNCHANGED <<skills, inventory>>,
           UNCHANGED <<job, diagnostics>>
    PROVE  InventoryInv' /\ SeenInv' /\ AnsweredInv'
<1> USE DEF ObservationInv, Matches
<1>1. InventoryInv'
  BY DEF InventoryInv, Wholly, BindingsOf, history
<1>2. SeenInv'
  BY DEF SeenInv, ListedSkills, Clear, Waiting, Pending, Matched, Matchable, Containing, SkillBindings, BindingsOf, Wholly, history
<1>3. AnsweredInv'
  BY DEF AnsweredInv, ListedSkills, Answered, Observable, Affected, Waiting, Matched, Matchable, Containing, SkillBindings, BindingsOf,
     ProvidersFor
<1> QED BY <1>1, <1>2, <1>3

(* A file is read: it was right then, and remembered as such, or the digest *)
(* is wrong and the file was not right all the time.                        *)
LEMMA ReadFileKeeps == ASSUME ObservationInv, ReadFile PROVE ObservationInv'
<1> USE DEF ObservationInv
<1>1. /\ reading.files # {} /\ NextFile \in reading.files
      /\ reading' = [reading EXCEPT !.right = @ /\ Right(reading.location, NextFile), !.files = @ \ {NextFile}]
      /\ UNCHANGED <<disk, phase, profile, answer, todo, report, job, skills, inventory, diagnostics, result, verdict,
                     history>>
  BY NextFacts DEF ReadFile
<1>2. reading \in Readings /\ reading # NotReading /\ job # None /\ phase \in {"attesting", "matching"}
  BY <1>1 DEF ReadingInv, NotReading, PhaseInv
<1>3. /\ reading'.location = reading.location /\ reading'.names = reading.names
      /\ reading'.files = reading.files \ {NextFile} /\ reading' \in Readings
      /\ reading'.right = TRUE <=> reading.right = TRUE /\ Right(reading.location, NextFile)
  BY <1>1, <1>2 DEF Readings, Right
<1>4. CASE phase = "attesting"
  BY <1>1, <1>2, <1>3, <1>4, AttestingKeeps DEF PhaseInv, ReportInv, TypeOK
<1>5. CASE phase = "matching"
  <2>1. TypeOK' /\ PhaseInv' /\ ReportInv' /\ HistoryInv' /\ IssuedInv' /\ InventoryInv' /\ SeenInv' /\ AnsweredInv'
    BY <1>1, <1>2, <1>5, MatchingKeeps, DigestingKeeps DEF PhaseInv, Matches
  <2>2. JobInv'
    BY <1>1, <1>2, <1>5 DEF JobInv, Containing, SkillBindings, BindingsOf, NextBinding
  <2>3. ReadingInv'
    <3> DEFINE root == NextBinding.root
    <3>1. NextBinding' = NextBinding /\ UNCHANGED <<lately, throughout, job>>
      BY <1>1 DEF NextBinding, history
    <3>2. /\ reading.location = job.candidate.location /\ reading.files \subseteq Under(root)
          /\ reading.right = TRUE => /\ reading.names = Declared(Under(root))
                                     /\ \A p \in Under(root) \ reading.files : <<reading.location, p>> \in lately
          /\ Wholly(reading.location, root, throughout) => reading.right = TRUE
      BY <1>2, <1>5 DEF ReadingInv
    <3>3. job.candidate.location \in Locations /\ Under(root) \subseteq Files
      BY <1>2, <1>5 DEF PhaseInv, MatchJobs, Candidates, Under
    <3>4. Right(reading.location, NextFile) => <<reading.location, NextFile>> \in lately
      BY <1>1, <1>5, <3>2, <3>3 DEF HistoryInv, RightNow
    <3>5. <<reading.location, NextFile>> \in throughout => Right(reading.location, NextFile)
      BY DEF HistoryInv, RightNow
    <3> HIDE DEF root
    <3>6. Wholly(reading.location, root, throughout) => <<reading.location, NextFile>> \in throughout
      BY <1>1, <3>2 DEF Wholly
    <3>7. reading'.right = TRUE => /\ reading'.names = Declared(Under(root))
                                   /\ \A p \in Under(root) \ reading'.files : <<reading'.location, p>> \in lately
      BY <1>3, <3>2, <3>4
    <3>8. Wholly(reading'.location, root, throughout) => reading'.right = TRUE
      BY <1>3, <3>2, <3>5, <3>6
    <3>9. reading'.location = job'.candidate.location /\ reading'.files \subseteq Under(root)
      BY <1>3, <3>1, <3>2
    <3> QED BY <1>3, <3>1, <3>7, <3>8, <3>9 DEF ReadingInv, Wholly, root
  <2> QED BY <2>1, <2>2, <2>3
<1> QED BY <1>2, <1>4, <1>5

(* What a Skill is answered with stays.                                     *)
LEMMA AnswersStay ==
    ASSUME UNCHANGED report, \A c, b : Matched(c, b) => Matched(c, b)', diagnostics \subseteq diagnostics', NEW e, Answered(e)
    PROVE  Answered(e)'
<1>1. Affected \subseteq Affected'
  BY DEF Affected
<1>2. Observable(e) => Observable(e)'
  BY DEF Observable, Containing, SkillBindings, BindingsOf
<1>3. Containing(e)' = Containing(e) /\ ProvidersFor(e.name)' = ProvidersFor(e.name)
  BY DEF Containing, ProvidersFor
<1> QED BY <1>1, <1>2, <1>3 DEF Answered

(* What MatchSkill does with the next Skill.                                *)
Taken(e, c) ==
    \/ ~e.enabled /\ UNCHANGED <<job, diagnostics>>
    \/ e.enabled /\ ~e.valid /\ UNCHANGED job /\ Diagnose(<<"HOST_OBSERVATION_FAILED", "identity">>, {})
    \/ ~Physical(e) /\ UNCHANGED job /\ Diagnose(<<"PROVIDER_BINDING_CONTENT_MISMATCH", "path">>, ProvidersFor(e.name))
    \/ Containing(e) = {} /\ UNCHANGED job /\ Diagnose(<<"HOST_SKILL_ORPHAN">>, ProvidersFor(e.name))
    \/ /\ Cardinality(Containing(e)) > 1 /\ UNCHANGED job
       /\ Diagnose(<<"HOST_SKILL_INSTALLATION_AMBIGUOUS">>, {x.provider : x \in Containing(e)})
    \/ /\ Cardinality(Containing(e)) = 1 /\ SkillBindings(c, e.name) = {} /\ UNCHANGED job
       /\ Diagnose(<<"HOST_BINDING_EVIDENCE_REQUIRED">>, {c.provider})
    \/ /\ e.enabled /\ e.valid /\ Cardinality(Containing(e)) = 1 /\ SkillBindings(c, e.name) # {}
       /\ job' = [entry |-> e, candidate |-> c, bindings |-> SkillBindings(c, e.name)]
       /\ UNCHANGED diagnostics

(* The Skill taken from the list becomes the job, or is diagnosed; one that *)
(* is clear cannot be diagnosed.                                            *)
LEMMA MatchSkillKeeps == ASSUME ObservationInv, MatchSkill PROVE ObservationInv'
<1> USE DEF ObservationInv
<1> PICK e : e = Head(skills)
  OBVIOUS
<1> PICK c : c = CHOOSE x \in Containing(e) : TRUE
  OBVIOUS
<1>1. /\ Matches /\ job = None /\ skills # <<>> /\ skills' = Tail(skills) /\ UNCHANGED <<reading, inventory>>
      /\ Taken(e, c)
  BY DEF MatchSkill, Matches, Taken
<1>2. /\ skills' \in Seq(Entries) /\ e \in Entries /\ e.enabled \in BOOLEAN /\ e.valid \in BOOLEAN /\ reading = NotReading
      /\ \A j \in DOMAIN skills : skills[j] = e \/ \E k \in DOMAIN skills' : skills'[k] = skills[j]
  <2>1. skills \in Seq(Entries) /\ reading = NotReading
    BY <1>1 DEF PhaseInv, Matches
  <2>2. /\ Tail(skills) \in Seq(Entries) /\ Head(skills) \in Entries
        /\ \A j \in DOMAIN skills : skills[j] = Head(skills) \/ \E k \in DOMAIN Tail(skills) : Tail(skills)[k] = skills[j]
    BY <1>1, <2>1, TailFacts
  <2>3. e.enabled \in BOOLEAN /\ e.valid \in BOOLEAN
    BY <2>2 DEF Entries
  <2> QED BY <1>1, <2>1, <2>2, <2>3
<1>3. Cardinality(Containing(e)) = 1 => Containing(e) = {c}
  <2>1. IsFiniteSet(Containing(e))
    BY FS_Subset DEF ReportInv, Containing
  <2>2. Cardinality(Containing(e)) = 1 => \E x : Containing(e) = {x}
    BY <2>1, FS_Singleton
  <2> QED BY <2>2
<1>4. \/ UNCHANGED job
      \/ /\ e.enabled = TRUE /\ e.valid = TRUE /\ Containing(e) = {c} /\ SkillBindings(c, e.name) # {}
         /\ job' = [entry |-> e, candidate |-> c, bindings |-> SkillBindings(c, e.name)]
  BY <1>1, <1>3 DEF Taken
<1>5. /\ job' = None \/ job' \in MatchJobs
      /\ job' # None => /\ job'.entry = e /\ job'.candidate = c /\ job'.bindings = SkillBindings(c, e.name)
                        /\ e.enabled = TRUE /\ e.valid = TRUE /\ Containing(e) = {c} /\ SkillBindings(c, e.name) # {}
  <2>1. c \in Containing(e) => c \in Candidates
    BY DEF Containing, TypeOK
  <2>2. SkillBindings(c, e.name) \subseteq Bindings
    BY DEF SkillBindings, BindingsOf
  <2>3. CASE UNCHANGED job
    BY <1>1, <2>3
  <2>4. CASE /\ e.enabled = TRUE /\ e.valid = TRUE /\ Containing(e) = {c} /\ SkillBindings(c, e.name) # {}
             /\ job' = [entry |-> e, candidate |-> c, bindings |-> SkillBindings(c, e.name)]
    <3>1. c \in Candidates
      BY <2>1, <2>4
    <3>2. job' \in MatchJobs
      BY <1>2, <2>2, <2>4, <3>1 DEF MatchJobs
    <3> QED BY <2>4, <3>2
  <2> QED BY <1>4, <2>3, <2>4
<1>6. Containing(e) = {c} => [entry |-> e, candidate |-> c, bindings |-> SkillBindings(c, e.name)] # None
  <2>1. SkillBindings(c, e.name) \subseteq Bindings
    BY DEF SkillBindings, BindingsOf
  <2>2. c \in Containing(e) => c \in Candidates
    BY DEF Containing, TypeOK
  <2>3. Containing(e) = {c} => [entry |-> e, candidate |-> c, bindings |-> SkillBindings(c, e.name)] \in MatchJobs
    BY <1>2, <2>1, <2>2 DEF MatchJobs
  <2> QED BY <2>3, NoneAssumption
<1>7. TypeOK' /\ PhaseInv' /\ ReportInv' /\ HistoryInv' /\ IssuedInv'
  BY <1>1, <1>2, <1>5, MatchingKeeps
<1>8. Containing(e)' = Containing(e) /\ SkillBindings(c, e.name)' = SkillBindings(c, e.name) /\ UNCHANGED <<report, answer, lately, throughout>>
  BY <1>1 DEF Containing, SkillBindings, BindingsOf, Matches, history
<1>9. JobInv'
  <2>1. ASSUME job' # None PROVE /\ Containing(job.entry)' = {job'.candidate}
                                 /\ SkillBindings(job.candidate, job.entry.name)' = job'.bindings /\ job'.bindings # {}
    <3>1. job'.entry = e /\ job'.candidate = c
      BY <1>5, <2>1
    <3>2. Containing(job.entry)' = Containing(e) /\ SkillBindings(job.candidate, job.entry.name)' = SkillBindings(c, e.name)
      BY <1>8, <3>1 DEF Containing, SkillBindings, BindingsOf
    <3> QED BY <1>5, <2>1, <3>1, <3>2
  <2>2. reading' = NotReading
    BY <1>1, <1>2
  <2> QED BY <1>5, <2>1, <2>2 DEF JobInv
<1>10. ReadingInv'
  BY <1>1, <1>2 DEF ReadingInv
<1>11. InventoryInv'
  BY <1>1, <1>8 DEF InventoryInv, Wholly, BindingsOf
<1>12. SeenInv'
  <2>1. CASE answer.cwd # "ours"
    BY <1>1, <1>8, <2>1, EmptySeq DEF SeenInv, Matchable, Matches
  <2>2. CASE answer.cwd = "ours"
    <3>0. ASSUME NEW x, NEW d, NEW b, Clear(x, d, b)' PROVE Clear(x, d, b)
      BY <1>8, <3>0 DEF Clear, Containing, SkillBindings, BindingsOf, Wholly
    <3>1. ASSUME NEW x \in ListedSkills, NEW d \in report, NEW b \in Bindings, Clear(x, d, b)
          PROVE  Waiting(x)' \/ Pending(x, b)' \/ Matched(d, b)'
      <4>1. Waiting(x) \/ Matched(d, b)
        BY <1>1, <2>2, <3>1 DEF SeenInv, Matchable, Matches, Pending
      <4>2. Matched(d, b) => Matched(d, b)'
        BY <1>1 DEF Matched
      <4>3. Waiting(x) => x = e \/ Waiting(x)'
        BY <1>2, <1>8 DEF Waiting
      <4>4. CASE x = e
        <5>1. Clear(e, d, b)
          BY <3>1, <4>4
        <5>2. Cardinality(Containing(e)) = 1 /\ Containing(e) # {} /\ d = c /\ b \in SkillBindings(c, e.name)
          BY <1>3, <5>1, FS_Singleton DEF Clear
        <5>3. Physical(e)
          <6>1. /\ b.kind = "skill" /\ e.file = SkillFile(b.root) /\ e.location = d.location
                /\ Wholly(d.location, b.root, throughout) /\ SkillFile(b.root) \in Files /\ Expected[SkillFile(b.root)] # "absent"
            BY <5>1, CatalogAssumption DEF Clear, SkillBindings
          <6>2. SkillFile(b.root)[1] = b.root /\ SkillFile(b.root)[2] = "SKILL.md"
            BY DEF SkillFile
          <6>3. <<d.location, SkillFile(b.root)>> \in RightNow
            BY <6>1, <6>2 DEF Wholly, Under, HistoryInv
          <6>4. tree[d.location][SkillFile(b.root)] = Expected[SkillFile(b.root)]
            BY <6>3 DEF RightNow, Right
          <6> QED BY <6>1, <6>2, <6>4 DEF Physical
        <5>4. job' = [entry |-> e, candidate |-> c, bindings |-> SkillBindings(c, e.name)]
          <6>1. ~(Cardinality(Containing(e)) > 1)
            BY <5>2
          <6>2. e.enabled /\ e.valid /\ SkillBindings(c, e.name) # {}
            BY <5>1, <5>2 DEF Clear
          <6> QED BY <1>1, <5>2, <5>3, <6>1, <6>2, Zenon DEF Taken
        <5>5. job' # None
          BY <1>3, <1>6, <5>2, <5>4
        <5> QED BY <1>8, <4>4, <5>2, <5>4, <5>5 DEF Pending
      <4> QED BY <4>1, <4>2, <4>3, <4>4
    <3>2. ListedSkills' = ListedSkills
      BY <1>8 DEF ListedSkills
    <3> QED BY <1>8, <2>2, <3>0, <3>1, <3>2 DEF SeenInv
  <2> QED BY <2>1, <2>2
<1>13. AnsweredInv'
  <2>1. \A d \in diagnostics' : Known(d.key)
    <3>1. \A d \in diagnostics : Known(d.key)
      BY DEF AnsweredInv, Known
    <3>2. \/ UNCHANGED diagnostics
          \/ \E key, providers : Known(key) /\ Diagnose(key, providers)
      BY <1>1, KeyFacts DEF Taken
    <3> QED BY <3>1, <3>2 DEF Diagnose
  <2>2. ASSUME answer.cwd = "ours", NEW x \in ListedSkills, x.enabled = TRUE, x.valid = TRUE
        PROVE  Waiting(x)' \/ (job' # None /\ job'.entry = x) \/ Answered(x)'
    <3>1. Waiting(x) \/ Answered(x)
      BY <1>1, <2>2 DEF AnsweredInv, Matchable, Matches
    <3>2. Answered(x) => Answered(x)'
      <4>1. diagnostics \subseteq diagnostics'
        BY <1>1 DEF Taken, Diagnose
      <4>2. \A d, b : Matched(d, b) => Matched(d, b)'
        BY <1>1 DEF Matched
      <4> QED BY <1>1, <1>8, <4>1, <4>2, AnswersStay
    <3>3. Waiting(x) => x = e \/ Waiting(x)'
      BY <1>2, <1>8 DEF Waiting
    <3>4. ASSUME x = e PROVE (job' # None /\ job'.entry = e) \/ Answered(e)'
      <4>1. e.enabled /\ e.valid
        BY <2>2, <3>4
      <4>2. ASSUME NEW key, NEW providers, Diagnose(key, providers) PROVE providers \subseteq Affected'
        <5>1. [key |-> key, providers |-> providers] \in diagnostics'
          BY <4>2 DEF Diagnose
        <5> QED BY <5>1 DEF Affected
      <4>3. ProvidersFor(e.name)' = ProvidersFor(e.name)
        BY DEF ProvidersFor
      <4>4. CASE Containing(e) = {c} /\ job' = [entry |-> e, candidate |-> c, bindings |-> SkillBindings(c, e.name)]
        BY <1>6, <4>4
      <4>5. CASE ProvidersFor(e.name) \subseteq Affected'
        BY <4>3, <4>5 DEF Answered
      <4>6. CASE Containing(e) # {} /\ {d.provider : d \in Containing(e)} \subseteq Affected'
        BY <1>8, <4>6 DEF Answered
      <4>7. CASE Cardinality(Containing(e)) > 1 /\ Diagnose(<<"HOST_SKILL_INSTALLATION_AMBIGUOUS">>, {d.provider : d \in Containing(e)})
        <5>1. Containing(e) # {}
          BY <4>7, FS_EmptySet
        <5> QED BY <4>2, <4>6, <4>7, <5>1
      <4>8. CASE Cardinality(Containing(e)) = 1 /\ Diagnose(<<"HOST_BINDING_EVIDENCE_REQUIRED">>, {c.provider})
        <5>1. {d.provider : d \in Containing(e)} = {c.provider} /\ Containing(e) # {}
          BY <1>3, <4>8
        <5> QED BY <4>2, <4>6, <4>8, <5>1
      <4>9. \/ /\ Cardinality(Containing(e)) = 1
               /\ job' = [entry |-> e, candidate |-> c, bindings |-> SkillBindings(c, e.name)]
            \/ ProvidersFor(e.name) \subseteq Affected'
            \/ Cardinality(Containing(e)) > 1 /\ Diagnose(<<"HOST_SKILL_INSTALLATION_AMBIGUOUS">>, {d.provider : d \in Containing(e)})
            \/ Cardinality(Containing(e)) = 1 /\ Diagnose(<<"HOST_BINDING_EVIDENCE_REQUIRED">>, {c.provider})
        BY <1>1, <4>1, <4>2, Zenon DEF Taken
      <4> QED BY <1>3, <4>4, <4>5, <4>7, <4>8, <4>9
    <3> QED BY <1>8, <3>1, <3>2, <3>3, <3>4
  <2>3. ListedSkills' = ListedSkills
    BY <1>8 DEF ListedSkills
  <2> QED BY <1>8, <2>1, <2>2, <2>3 DEF AnsweredInv, Known
<1> QED BY <1>7, <1>9, <1>10, <1>11, <1>12, <1>13

(* A Skill whose tree was right all the time is there.                      *)
LEMMA RightFacts ==
    ASSUME HistoryInv, NEW l \in Locations, NEW b \in Bindings, Wholly(l, b.root, throughout)
    PROVE  /\ Present(l, Under(b.root)) = Declared(Under(b.root))
           /\ b.kind = "skill" => SkillFile(b.root) \in Present(l, Under(b.root))
<1>1. \A p \in Under(b.root) : tree[l][p] = Expected[p]
  BY DEF Wholly, HistoryInv, RightNow, Right, Under
<1>2. Present(l, Under(b.root)) = Declared(Under(b.root))
  BY <1>1 DEF Present, Declared
<1>3. SkillFile(b.root)[1] = b.root
  BY DEF SkillFile
<1>4. ASSUME b.kind = "skill" PROVE SkillFile(b.root) \in Declared(Under(b.root))
  BY <1>3, <1>4, CatalogAssumption DEF Declared, Under
<1> QED BY <1>2, <1>4

(* The job with one Binding less                                            *)
LEMMA DoneFacts ==
    ASSUME job \in MatchJobs, job.bindings # {}
    PROVE  /\ NextBinding \in job.bindings
           /\ \/ BindingDone = None /\ job.bindings = {NextBinding}
              \/ /\ BindingDone \in MatchJobs /\ BindingDone # None /\ BindingDone.bindings # {}
                 /\ BindingDone.entry = job.entry /\ BindingDone.candidate = job.candidate
                 /\ BindingDone.bindings = job.bindings \ {NextBinding}
<1>1. NextBinding \in job.bindings
  BY NextFacts
<1>2. CASE job.bindings = {NextBinding}
  BY <1>1, <1>2 DEF BindingDone
<1>3. CASE job.bindings # {NextBinding}
  <2>1. BindingDone = [job EXCEPT !.bindings = job.bindings \ {NextBinding}]
    BY <1>3 DEF BindingDone
  <2>2. job.bindings \ {NextBinding} # {}
    BY <1>1, <1>3
  <2>3. /\ BindingDone \in MatchJobs /\ BindingDone.bindings = job.bindings \ {NextBinding}
        /\ BindingDone.entry = job.entry /\ BindingDone.candidate = job.candidate
    BY <2>1 DEF MatchJobs
  <2> QED BY <1>1, <2>2, <2>3, NoneAssumption
<1> QED BY <1>2, <1>3

(* A Binding that is done with is observed, or diagnosed and not right.     *)
LEMMA BindingKeeps ==
    ASSUME ObservationInv, Matches, job # None, job' = BindingDone, reading' = NotReading, UNCHANGED skills,
           \/ /\ UNCHANGED inventory /\ \E key : Known(key) /\ Diagnose(key, {job.candidate.provider})
              /\ ~Clear(job.entry, job.candidate, NextBinding)
           \/ /\ UNCHANGED diagnostics /\ inventory' = Append(inventory, ObservationOf(job.candidate, NextBinding))
              /\ job.entry.file = SkillFile(NextBinding.root)
              /\ Wholly(job.candidate.location, NextBinding.root, lately)
    PROVE  ObservationInv'
<1> USE DEF ObservationInv
<1> PICK e : e = job.entry
  OBVIOUS
<1> PICK c : c = job.candidate
  OBVIOUS
<1> PICK b : b = NextBinding
  OBVIOUS
<1>1. /\ job \in MatchJobs /\ skills \in Seq(Entries) /\ Containing(e) = {c} /\ job.bindings # {}
      /\ job.bindings \subseteq SkillBindings(c, e.name) /\ e.enabled = TRUE /\ e.valid = TRUE
  BY DEF PhaseInv, JobInv, Matches
<1>2. /\ b \in job.bindings
      /\ \/ job' = None /\ job.bindings = {b}
         \/ /\ job' \in MatchJobs /\ job' # None /\ job'.entry = e /\ job'.candidate = c /\ job'.bindings = job.bindings \ {b}
            /\ job'.bindings # {}
  BY <1>1, DoneFacts
<1>3. /\ c \in report /\ c \in Candidates /\ b \in SkillBindings(c, e.name) /\ b \in BindingsOf(c) /\ b \in Bindings
  BY <1>1, <1>2 DEF Containing, TypeOK, SkillBindings, BindingsOf
<1>4. UNCHANGED <<report, answer, lately, throughout>>
  BY DEF Matches, history
<1>5. \/ /\ UNCHANGED inventory /\ \E key : Known(key) /\ Diagnose(key, {c.provider})
         /\ ~Clear(e, c, b)
      \/ /\ UNCHANGED diagnostics /\ inventory' = Append(inventory, ObservationOf(c, b))
         /\ e.file = SkillFile(b.root) /\ Wholly(c.location, b.root, lately)
  OBVIOUS
<1>6. TypeOK' /\ PhaseInv' /\ ReportInv' /\ HistoryInv' /\ IssuedInv'
  BY <1>1, <1>2, MatchingKeeps
<1>7. \A x, n : Containing(x)' = Containing(x) /\ SkillBindings(c, n)' = SkillBindings(c, n)
  BY <1>4 DEF Containing, SkillBindings, BindingsOf
<1>8. JobInv'
  <2>1. ASSUME job' # None PROVE /\ Containing(job.entry)' = {job'.candidate}
                                 /\ job'.bindings \subseteq SkillBindings(job.candidate, job.entry.name)' /\ job'.bindings # {}
    <3>1. job'.entry = e /\ job'.candidate = c /\ job'.bindings \subseteq job.bindings /\ job'.bindings # {}
      BY <1>2, <2>1
    <3>2. Containing(job.entry)' = Containing(e) /\ SkillBindings(job.candidate, job.entry.name)' = SkillBindings(c, e.name)
      BY <1>4, <3>1 DEF Containing, SkillBindings, BindingsOf
    <3> QED BY <1>1, <3>1, <3>2
  <2>2. job' # None => job'.entry = e
    BY <1>2
  <2> QED BY <1>1, <2>1, <2>2 DEF JobInv
<1>9. ReadingInv'
  BY DEF ReadingInv, Readings, NotReading
<1>10. /\ inventory' \in Seq([installation : {InstallationKey(x) : x \in Candidates}, binding : {x.id : x \in Bindings}])
       /\ \A k \in DOMAIN inventory' : \/ k \in DOMAIN inventory /\ inventory'[k] = inventory[k]
                                       \/ inventory'[k] = ObservationOf(c, b) /\ Wholly(c.location, b.root, lately)
       /\ \A k \in DOMAIN inventory : k \in DOMAIN inventory' /\ inventory'[k] = inventory[k]
       /\ inventory' = Append(inventory, ObservationOf(c, b)) => \E k \in DOMAIN inventory' : inventory'[k] = ObservationOf(c, b)
  <2> PICK S : S = [installation : {InstallationKey(x) : x \in Candidates}, binding : {x.id : x \in Bindings}]
    OBVIOUS
  <2>1. inventory \in Seq(S)
    BY DEF InventoryInv
  <2>2. ObservationOf(c, b) \in S
    BY <1>3 DEF ObservationOf
  <2>3. inventory' = Append(inventory, ObservationOf(c, b)) =>
          /\ inventory' \in Seq(S) /\ Len(inventory') = Len(inventory) + 1 /\ Len(inventory) \in Nat
          /\ DOMAIN inventory = 1..Len(inventory) /\ DOMAIN inventory' = 1..Len(inventory) + 1
          /\ \A k \in 1..Len(inventory) : inventory'[k] = inventory[k]
          /\ inventory'[Len(inventory) + 1] = ObservationOf(c, b)
    BY <2>1, <2>2, AppendProperties, LenProperties
  <2>4. ASSUME inventory' = Append(inventory, ObservationOf(c, b))
        PROVE  /\ \E k \in DOMAIN inventory' : inventory'[k] = ObservationOf(c, b)
               /\ \A k \in DOMAIN inventory' : k \in DOMAIN inventory \/ k = Len(inventory) + 1
               /\ \A k \in DOMAIN inventory : k \in DOMAIN inventory'
    <3> PICK n \in Nat : n = Len(inventory)
      BY <2>3, <2>4
    <3>1. DOMAIN inventory = 1..n /\ DOMAIN inventory' = 1..n + 1 /\ inventory'[n + 1] = ObservationOf(c, b)
      BY <2>3, <2>4
    <3>2. n + 1 \in 1..n + 1
      OBVIOUS
    <3>3. /\ \A k \in 1..n + 1 : k \in 1..n \/ k = n + 1
          /\ \A k \in 1..n : k \in 1..n + 1
      OBVIOUS
    <3> QED BY <3>1, <3>2, <3>3
  <2>5. CASE UNCHANGED inventory
    BY <2>1, <2>4, <2>5
  <2>6. CASE inventory' = Append(inventory, ObservationOf(c, b)) /\ Wholly(c.location, b.root, lately)
    BY <2>3, <2>4, <2>6
  <2> QED BY <1>5, <2>5, <2>6
<1>11. InventoryInv'
  <2>1. ASSUME NEW k \in DOMAIN inventory'
        PROVE  \E d \in report, x \in Bindings : x \in BindingsOf(d) /\ inventory'[k] = ObservationOf(d, x) /\ Wholly(d.location, x.root, lately)
    BY <1>3, <1>10, <2>1 DEF InventoryInv
  <2> QED BY <1>4, <1>10, <2>1 DEF InventoryInv, BindingsOf, ObservationOf, Wholly, InstallationKey
<1>12. \A d, x : Matched(d, x) => Matched(d, x)'
  BY <1>10 DEF Matched, ObservationOf
<1>13. SeenInv'
  <2>1. answer.cwd = "ours"
    BY DEF SeenInv, Matchable, Matches
  <2>2. ASSUME NEW x, NEW d, NEW y, Clear(x, d, y)' PROVE Clear(x, d, y)
    BY <1>4, <2>2 DEF Clear, Containing, SkillBindings, BindingsOf, Wholly
  <2>3. ASSUME NEW x \in ListedSkills, NEW d \in report, NEW y \in Bindings, Clear(x, d, y)
        PROVE  Waiting(x)' \/ Pending(x, y)' \/ Matched(d, y)'
    <3>1. Waiting(x) \/ Pending(x, y) \/ Matched(d, y)
      BY <2>1, <2>3 DEF SeenInv, Matchable, Matches
    <3>2. Waiting(x) => Waiting(x)'
      BY DEF Waiting
    <3>3. CASE Pending(x, y) /\ y # b
      BY <1>2, <3>3 DEF Pending
    <3>4. CASE Pending(x, y) /\ y = b
      <4>1. x = e /\ d = c
        BY <1>1, <2>3, <3>4 DEF Pending, Clear
      <4>2. inventory' = Append(inventory, ObservationOf(c, b))
        BY <1>5, <2>3, <3>4, <4>1
      <4> QED BY <1>10, <3>4, <4>1, <4>2 DEF Matched
    <3> QED BY <1>12, <3>1, <3>2, <3>3, <3>4
  <2>4. ListedSkills' = ListedSkills
    BY <1>4 DEF ListedSkills
  <2> QED BY <1>4, <2>1, <2>2, <2>3, <2>4 DEF SeenInv
<1>14. AnsweredInv'
  <2>1. diagnostics \subseteq diagnostics' /\ \A d \in diagnostics' : Known(d.key)
    BY <1>5 DEF AnsweredInv, Known, Diagnose
  <2>2. ASSUME answer.cwd = "ours", NEW x \in ListedSkills, x.enabled = TRUE, x.valid = TRUE
        PROVE  Waiting(x)' \/ Answered(x)'
    <3>1. Waiting(x) \/ x = e \/ Answered(x)
      BY <2>2 DEF AnsweredInv, Matchable, Matches
    <3>2. Answered(x) => Answered(x)'
      BY <1>4, <1>12, <2>1, AnswersStay
    <3>3. Waiting(x) => Waiting(x)'
      BY DEF Waiting
    <3>4. Answered(e)'
      <4>1. CASE \E key : Known(key) /\ Diagnose(key, {c.provider})
        <5>1. c.provider \in Affected'
          <6>1. PICK key : [key |-> key, providers |-> {c.provider}] \in diagnostics'
            BY <4>1 DEF Diagnose
          <6> QED BY <6>1 DEF Affected
        <5>2. Containing(e)' = {c}
          BY <1>1, <1>7
        <5> QED BY <5>1, <5>2 DEF Answered
      <4>2. CASE inventory' = Append(inventory, ObservationOf(c, b)) /\ e.file = SkillFile(b.root)
        <5>1. Matched(c, b)'
          BY <1>10, <4>2 DEF Matched
        <5>2. c \in Containing(e)' /\ b \in SkillBindings(c, e.name)'
          BY <1>1, <1>3, <1>7
        <5>3. Observable(e)'
          BY <1>3, <4>2, <5>1, <5>2 DEF Observable
        <5> QED BY <5>3 DEF Answered
      <4> QED BY <1>5, <4>1, <4>2
    <3> QED BY <3>1, <3>2, <3>3, <3>4
  <2>3. ListedSkills' = ListedSkills
    BY <1>4 DEF ListedSkills
  <2> QED BY <1>4, <2>1, <2>2, <2>3 DEF AnsweredInv, Known
<1> QED BY <1>6, <1>8, <1>9, <1>11, <1>13, <1>14

(* A Binding that does not match cannot have been right all the time.       *)
LEMMA MatchBindingKeeps == ASSUME ObservationInv, MatchBinding PROVE ObservationInv'
<1> USE DEF ObservationInv
<1> PICK e : e = job.entry
  OBVIOUS
<1> PICK c : c = job.candidate
  OBVIOUS
<1> PICK b : b = NextBinding
  OBVIOUS
<1> DEFINE Mismatch(key) == job' = BindingDone /\ UNCHANGED reading /\ Diagnose(key, {c.provider})
<1>1. /\ Matches /\ job # None /\ reading = NotReading /\ UNCHANGED <<skills, inventory>>
      /\ \/ b.id \notin c.roots /\ Mismatch(<<"PROVIDER_BINDING_CONTENT_MISMATCH", "discovery">>)
         \/ Present(c.location, Under(b.root)) = {} /\ Mismatch(<<"PROVIDER_BINDING_CONTENT_MISMATCH", "declared">>)
         \/ e.file # SkillFile(b.root) /\ Mismatch(<<"HOST_BINDING_INSTALL_ROOT_MISMATCH">>)
         \/ e.file = SkillFile(b.root) /\ reading' = StartDigest(c.location, Under(b.root)) /\ UNCHANGED <<job, diagnostics>>
  BY DEF MatchBinding, Matches
<1>2. /\ job \in MatchJobs /\ skills \in Seq(Entries) /\ Containing(e) = {c} /\ job.bindings # {}
      /\ job.bindings \subseteq SkillBindings(c, e.name) /\ e.enabled = TRUE /\ e.valid = TRUE
  BY <1>1 DEF PhaseInv, JobInv, Matches
<1>3. b \in SkillBindings(c, e.name) /\ b \in BindingsOf(c) /\ b \in Bindings /\ b.kind = "skill" /\ c.location \in Locations
  BY <1>2, NextFacts DEF MatchJobs, Candidates, SkillBindings, BindingsOf
<1>4. CASE \E key : Known(key) /\ Mismatch(key) /\ ~Clear(e, c, b)
  BY <1>1, <1>4, BindingKeeps
<1>5. CASE \/ b.id \notin c.roots /\ Mismatch(<<"PROVIDER_BINDING_CONTENT_MISMATCH", "discovery">>)
           \/ Present(c.location, Under(b.root)) = {} /\ Mismatch(<<"PROVIDER_BINDING_CONTENT_MISMATCH", "declared">>)
           \/ e.file # SkillFile(b.root) /\ Mismatch(<<"HOST_BINDING_INSTALL_ROOT_MISMATCH">>)
  <2>1. Clear(e, c, b) => b.id \in c.roots
    BY <1>3 DEF Clear, ReportInv
  <2>2. Clear(e, c, b) => Present(c.location, Under(b.root)) # {}
    BY <1>3, RightFacts DEF Clear
  <2>3. Clear(e, c, b) => e.file = SkillFile(b.root)
    BY DEF Clear
  <2> HIDE DEF Mismatch
  <2>4. \E key : Known(key) /\ Mismatch(key) /\ ~Clear(e, c, b)
    BY <1>5, <2>1, <2>2, <2>3, KeyFacts
  <2> QED BY <1>4, <2>4
<1>6. CASE e.file = SkillFile(b.root) /\ reading' = StartDigest(c.location, Under(b.root)) /\ UNCHANGED <<job, diagnostics>>
  <2>1. TypeOK' /\ PhaseInv' /\ ReportInv' /\ HistoryInv' /\ IssuedInv'
    BY <1>1, <1>2, <1>6, MatchingKeeps
  <2>2. InventoryInv' /\ SeenInv' /\ AnsweredInv'
    BY <1>1, <1>6, DigestingKeeps
  <2>3. UNCHANGED <<report, lately, throughout>> /\ NextBinding' = NextBinding
    BY <1>1, <1>6 DEF Matches, history, NextBinding
  <2>4. JobInv'
    BY <1>1, <1>2, <1>6, <2>3 DEF JobInv, Containing, SkillBindings, BindingsOf
  <2>5. ReadingInv'
    <3> PICK under : under = Under(b.root)
      OBVIOUS
    <3>1. under \in SUBSET Files
      BY DEF Under
    <3>2. reading' \in Readings
      BY <1>3, <1>6, <3>1, StartFacts
    <3>3. /\ reading'.location = c.location /\ reading'.files = Present(c.location, under)
          /\ reading'.names = Present(c.location, under)
          /\ reading'.right = (Present(c.location, under) = Declared(under))
      BY <1>6 DEF StartDigest, Declared
    <3>4. reading'.files \subseteq under
      BY <3>3 DEF Present
    <3>5. ASSUME reading'.right = TRUE
          PROVE  reading'.names = Declared(under) /\ \A p \in under \ reading'.files : <<c.location, p>> \in lately
      <4>1. Present(c.location, under) = Declared(under)
        BY <3>3, <3>5
      <4>2. ASSUME NEW p \in under \ reading'.files PROVE <<c.location, p>> \in RightNow
        <5>1. tree[c.location][p] = Expected[p]
          BY <3>3, <4>1, <4>2 DEF Present, Declared
        <5> QED BY <1>3, <3>1, <5>1 DEF RightNow, Right
      <4> QED BY <1>1, <3>3, <4>1, <4>2 DEF HistoryInv, Matches
    <3>6. Wholly(c.location, b.root, throughout) => reading'.right = TRUE
      BY <1>3, <3>3, RightFacts
    <3>7. Wholly(c.location, b.root, throughout)' = Wholly(c.location, b.root, throughout)
      BY <2>3 DEF Wholly
    <3> QED BY <1>6, <2>3, <3>2, <3>3, <3>4, <3>5, <3>6, <3>7 DEF ReadingInv, Wholly
  <2> QED BY <2>1, <2>2, <2>4, <2>5
<1> QED BY <1>1, <1>5, <1>6

(* A digest that is right vouches for each file; one that is not was        *)
(* disturbed.                                                               *)
LEMMA ConfirmBindingKeeps == ASSUME ObservationInv, ConfirmBinding PROVE ObservationInv'
<1> USE DEF ObservationInv
<1> PICK e : e = job.entry
  OBVIOUS
<1> PICK c : c = job.candidate
  OBVIOUS
<1> PICK b : b = NextBinding
  OBVIOUS
<1>1. /\ Matches /\ reading # NotReading /\ reading.files = {} /\ UNCHANGED skills
      /\ job' = BindingDone /\ reading' = NotReading
      /\ \/ LiveTreeMatches(b) /\ inventory' = Append(inventory, ObservationOf(c, b)) /\ UNCHANGED diagnostics
         \/ ~LiveTreeMatches(b) /\ Diagnose(<<"PROVIDER_BINDING_CONTENT_MISMATCH", "live">>, {c.provider}) /\ UNCHANGED inventory
  BY DEF ConfirmBinding, Matches, ObservationOf
<1>2. /\ job # None /\ job \in MatchJobs /\ job.bindings # {} /\ job.bindings \subseteq SkillBindings(c, e.name)
      /\ e.file = SkillFile(b.root)
  BY <1>1 DEF PhaseInv, JobInv, Matches
<1>3. b \in Bindings /\ c.location \in Locations
  BY <1>2, NextFacts DEF MatchJobs, Candidates, SkillBindings, BindingsOf
<1>4. /\ reading \in Readings /\ reading.location = c.location
      /\ reading.right = TRUE => /\ reading.names = Declared(Under(b.root))
                                 /\ \A p \in Under(b.root) : <<c.location, p>> \in lately
      /\ Wholly(c.location, b.root, throughout) => reading.right = TRUE
  BY <1>1 DEF ReadingInv, Matches
<1>5. LiveTreeMatches(b) <=> reading.right = TRUE /\ reading.names = Present(c.location, Under(b.root))
  BY <1>4 DEF LiveTreeMatches, DigestRight, Readings
<1>6. CASE LiveTreeMatches(b) /\ inventory' = Append(inventory, ObservationOf(c, b)) /\ UNCHANGED diagnostics
  <2>1. Wholly(c.location, b.root, lately)
    BY <1>4, <1>5, <1>6 DEF Wholly
  <2> QED BY <1>1, <1>2, <1>6, <2>1, BindingKeeps
<1>7. CASE ~LiveTreeMatches(b) /\ Diagnose(<<"PROVIDER_BINDING_CONTENT_MISMATCH", "live">>, {c.provider}) /\ UNCHANGED inventory
  <2>1. ~Clear(e, c, b)
    BY <1>3, <1>4, <1>5, <1>7, RightFacts DEF Clear
  <2> QED BY <1>1, <1>2, <1>7, <2>1, KeyFacts, BindingKeeps
<1> QED BY <1>1, <1>6, <1>7

-----------------------------------------------------------------------------
(* Each diagnosed key has its place among the diagnosed.                    *)
Rank(k) == Cardinality({j \in Diagnosed : j < k})

(* Places are in range, and different for different keys.                   *)
LEMMA RankFacts ==
    /\ Cardinality(Diagnosed) \in Nat /\ Diagnosed \subseteq Nat
    /\ \A k \in Diagnosed : Rank(k) \in Nat /\ Rank(k) < Cardinality(Diagnosed)
    /\ \A k, l \in Diagnosed : k < l => Rank(k) < Rank(l)
<1>1. IsFiniteSet(Diagnosed) /\ Cardinality(Diagnosed) \in Nat /\ Diagnosed \subseteq Nat
  <2>1. DOMAIN Keys = 1..10
    BY DEF Keys
  <2>2. Diagnosed \in SUBSET (1..10)
    BY <2>1 DEF Diagnosed
  <2>3. Diagnosed \in SUBSET Nat /\ 10 \in Nat /\ \A k \in Diagnosed : k <= 10
    BY <2>2
  <2>4. IsFiniteSet(Diagnosed)
    BY <2>3, FS_BoundedSetOfNaturals
  <2> QED BY <2>2, <2>4, FS_CardinalityType
<1>2. ASSUME NEW S \in SUBSET Diagnosed, NEW T \in SUBSET S, T # S
      PROVE  Cardinality(T) \in Nat /\ Cardinality(S) \in Nat /\ Cardinality(T) < Cardinality(S)
  <2>1. IsFiniteSet(S)
    BY <1>1, FS_Subset
  <2>2. IsFiniteSet(T) /\ Cardinality(T) <= Cardinality(S) /\ Cardinality(S) # Cardinality(T)
    BY <1>2, <2>1, FS_Subset
  <2>3. Cardinality(T) \in Nat /\ Cardinality(S) \in Nat
    BY <2>1, <2>2, FS_CardinalityType
  <2> QED BY <2>2, <2>3
<1>3. ASSUME NEW k \in Diagnosed PROVE Rank(k) \in Nat /\ Rank(k) < Cardinality(Diagnosed)
  <2>1. {j \in Diagnosed : j < k} \subseteq Diagnosed /\ k \notin {j \in Diagnosed : j < k}
    BY <1>1
  <2> QED BY <1>2, <2>1 DEF Rank
<1>4. ASSUME NEW k \in Diagnosed, NEW l \in Diagnosed, k < l PROVE Rank(k) < Rank(l)
  <2>1. ASSUME NEW j \in Diagnosed, j < k PROVE j < l
    <3>1. j \in Nat /\ k \in Nat /\ l \in Nat
      BY <1>1
    <3> QED BY <1>4, <2>1, <3>1
  <2>2. k \in {j \in Diagnosed : j < l} /\ k \notin {j \in Diagnosed : j < k}
    BY <1>1, <1>4
  <2>3. {j \in Diagnosed : j < l} \in SUBSET Diagnosed
    OBVIOUS
  <2> QED BY <1>2, <2>1, <2>2, <2>3 DEF Rank
<1> QED BY <1>1, <1>3, <1>4

(* Merging names everybody a diagnostic names.                              *)
LEMMA AggregateFacts ==
    ASSUME \A d \in diagnostics : Known(d.key)
    PROVE  /\ AggregateDiagnostics = [n \in 1..Cardinality(Diagnosed) |-> AggregateDiagnostics[n]]
           /\ Cardinality(Diagnosed) \in Nat
           /\ \A d \in diagnostics : \E n \in 1..Cardinality(Diagnosed) : d.providers \subseteq AggregateDiagnostics[n].providers
<1> DEFINE nth(n) == Keys[CHOOSE k \in Diagnosed : Cardinality({j \in Diagnosed : j < k}) = n - 1]
           merged(n) == [key |-> nth(n), providers |-> UNION {d.providers : d \in {x \in diagnostics : x.key = nth(n)}}]
<1>1. AggregateDiagnostics = [n \in 1..Cardinality(Diagnosed) |-> merged(n)]
  BY DEF AggregateDiagnostics
<1>2. ASSUME NEW d \in diagnostics
      PROVE  \E n \in 1..Cardinality(Diagnosed) : d.providers \subseteq merged(n).providers
  <2>1. PICK k \in Diagnosed : d.key = Keys[k]
    BY DEF Known, Diagnosed
  <2>2. /\ Rank(k) \in Nat /\ Rank(k) + 1 \in 1..Cardinality(Diagnosed) /\ (Rank(k) + 1) - 1 = Rank(k)
    BY RankFacts
  <2>3. \A l \in Diagnosed : Rank(l) = Rank(k) => l = k
    BY RankFacts
  <2>4. (CHOOSE l \in Diagnosed : Cardinality({j \in Diagnosed : j < l}) = (Rank(k) + 1) - 1) = k
    BY <2>2, <2>3 DEF Rank
  <2>5. nth(Rank(k) + 1) = d.key
    BY <2>1, <2>4
  <2> HIDE DEF nth
  <2>6. d.providers \subseteq merged(Rank(k) + 1).providers
    BY <2>5
  <2> QED BY <2>2, <2>6
<1> HIDE DEF merged
<1> QED BY <1>1, <1>2, RankFacts

(* The budget is kept, and what is cut is summed up.                        *)
LEMMA NormalizeFacts ==
    ASSUME \A d \in diagnostics : Known(d.key)
    PROVE  /\ Len(NormalizeDiagnostics) <= MaxDiagnostics
           /\ \A d \in diagnostics : \E n \in DOMAIN NormalizeDiagnostics : d.providers \subseteq NormalizeDiagnostics[n].providers
<1> PICK all : all = AggregateDiagnostics
  OBVIOUS
<1> PICK count : count = Cardinality(Diagnosed)
  OBVIOUS
<1>1. /\ all = [n \in 1..count |-> all[n]] /\ count \in Nat
      /\ \A d \in diagnostics : \E n \in 1..count : d.providers \subseteq all[n].providers
  BY AggregateFacts
<1> PICK cut : cut = SubSeq(all, Retained + 1, Len(all))
  OBVIOUS
<1> PICK S : S = {all[n] : n \in 1..count} \union {Summary(cut)}
  OBVIOUS
<1>2. all \in Seq(S) /\ Len(all) = count /\ DOMAIN all = 1..count /\ \A n \in 1..count : all[n] \in S
  <2>1. \A n \in 1..count : all[n] \in S
    OBVIOUS
  <2>2. all \in Seq(S)
    BY <1>1, <2>1, IsASeq
  <2> QED BY <1>1, <2>1, <2>2, LenProperties
<1>3. Retained \in Nat /\ MaxDiagnostics = Retained + 1 /\ MaxDiagnostics \in Nat
  BY CatalogAssumption DEF Retained
<1>4. NormalizeDiagnostics = IF count <= MaxDiagnostics THEN all ELSE Append(SubSeq(all, 1, Retained), Summary(cut))
  BY <1>2 DEF NormalizeDiagnostics
<1>5. CASE count <= MaxDiagnostics
  BY <1>1, <1>2, <1>4, <1>5
<1>6. CASE count > MaxDiagnostics
  <2> PICK kept : kept = SubSeq(all, 1, Retained)
    OBVIOUS
  <2>1. kept \in Seq(S) /\ Len(kept) = Retained /\ \A n \in 1..Retained : kept[n] = all[n]
    <3>1. \A n \in 1..Retained : all[n] \in S
      BY <1>1, <1>2, <1>3, <1>6
    <3> QED BY <1>3, <3>1, SubSeqProperties
  <2>2. Len(cut) = count - Retained /\ DOMAIN cut = 1..count - Retained /\ \A n \in 1..count - Retained : cut[n] = all[Retained + n]
    <3>1. \A n \in Retained + 1..count : all[n] \in S
      BY <1>1, <1>2, <1>3
    <3>2. cut = SubSeq(all, Retained + 1, count) /\ Retained + 1 \in Int /\ count \in Int
      BY <1>1, <1>2, <1>3
    <3>4. /\ cut \in Seq(S) /\ Len(cut) = IF Retained + 1 <= count THEN count - (Retained + 1) + 1 ELSE 0
          /\ \A n \in 1..count - (Retained + 1) + 1 : cut[n] = all[Retained + 1 + n - 1]
      BY <3>1, <3>2, SubSeqProperties
    <3>3. count - (Retained + 1) + 1 = count - Retained /\ Retained + 1 <= count /\ \A n \in 1..count - Retained : Retained + 1 + n - 1 = Retained + n
      BY <1>1, <1>3, <1>6
    <3> QED BY <3>3, <3>4, LenProperties
  <2>3. /\ Len(NormalizeDiagnostics) = MaxDiagnostics /\ DOMAIN NormalizeDiagnostics = 1..MaxDiagnostics
        /\ \A n \in 1..Retained : NormalizeDiagnostics[n] = all[n]
        /\ NormalizeDiagnostics[MaxDiagnostics] = Summary(cut)
    <3>1. NormalizeDiagnostics = Append(kept, Summary(cut)) /\ Summary(cut) \in S
      <4>1. ~(count <= MaxDiagnostics)
        BY <1>1, <1>3, <1>6
      <4> QED BY <1>4, <4>1
    <3>2. /\ Append(kept, Summary(cut)) \in Seq(S) /\ Len(Append(kept, Summary(cut))) = Retained + 1
          /\ \A n \in 1..Retained : Append(kept, Summary(cut))[n] = kept[n]
          /\ Append(kept, Summary(cut))[Retained + 1] = Summary(cut)
      BY <2>1, <3>1, AppendProperties
    <3> QED BY <1>3, <2>1, <3>1, <3>2, LenProperties
  <2>4. ASSUME NEW n \in 1..count
        PROVE  \E m \in DOMAIN NormalizeDiagnostics : all[n].providers \subseteq NormalizeDiagnostics[m].providers
    <3>1. n \in Nat /\ 1 <= n /\ n <= count /\ count \in Nat /\ Retained \in Nat /\ MaxDiagnostics = Retained + 1
      BY <1>1, <1>3
    <3>2. CASE n <= Retained
      <4>1. n \in 1..Retained /\ n \in 1..MaxDiagnostics
        BY <3>1, <3>2
      <4> QED BY <2>3, <4>1
    <3>3. CASE n > Retained
      <4> PICK m : m = n - Retained
        OBVIOUS
      <4>1. m \in 1..count - Retained /\ Retained + m = n
        BY <3>1, <3>3
      <4>2. m \in DOMAIN cut /\ cut[m] = all[n]
        BY <2>2, <4>1
      <4>3. all[n].providers \subseteq Summary(cut).providers
        BY <4>2 DEF Summary
      <4>4. MaxDiagnostics \in 1..MaxDiagnostics
        BY <1>3
      <4>5. MaxDiagnostics \in DOMAIN NormalizeDiagnostics /\ NormalizeDiagnostics[MaxDiagnostics] = Summary(cut)
        BY <2>3, <4>4, Zenon
      <4> QED BY <4>3, <4>5, Zenon
    <3>4. n <= Retained \/ n > Retained
      BY <3>1
    <3> QED BY <3>2, <3>3, <3>4, Zenon
  <2>5. Len(NormalizeDiagnostics) <= MaxDiagnostics
    BY <1>3, <2>3
  <2>6. ASSUME NEW d \in diagnostics
        PROVE  \E m \in DOMAIN NormalizeDiagnostics : d.providers \subseteq NormalizeDiagnostics[m].providers
    <3>1. PICK n \in 1..count : d.providers \subseteq all[n].providers
      BY <1>1
    <3>2. PICK m \in DOMAIN NormalizeDiagnostics : all[n].providers \subseteq NormalizeDiagnostics[m].providers
      BY <2>4, Zenon
    <3> QED BY <3>1, <3>2
  <2> QED BY <2>5, <2>6, Zenon
<1>7. count <= MaxDiagnostics \/ count > MaxDiagnostics
  BY <1>1, <1>3
<1> QED BY <1>5, <1>6, <1>7, Zenon

(* One verified Binding is the one that is claimed.                         *)
LEMMA ClaimFacts ==
    ASSUME IsFiniteSet(report), NEW ref, Claimable(ref)
    PROVE  \E c \in report, b \in Bindings : Verified(ref) = {<<c, b>>} /\ (CHOOSE m \in Verified(ref) : TRUE) = <<c, b>>
<1>1. Verified(ref) \in SUBSET (report \X Bindings)
  BY DEF Verified
<1>2. IsFiniteSet(Verified(ref))
  <2>1. IsFiniteSet(report \X Bindings)
    BY FiniteAssumption, FS_Product
  <2> QED BY <1>1, <2>1, FS_Subset
<1>3. PICK m : Verified(ref) = {m}
  BY <1>2, FS_Singleton DEF Claimable
<1>4. PICK c \in report, b \in Bindings : m = <<c, b>>
  BY <1>1, <1>3
<1>5. (CHOOSE x \in Verified(ref) : TRUE) = <<c, b>>
  BY <1>3, <1>4
<1> QED BY <1>3, <1>4, <1>5

(* What is issued claims the one verified Binding of each reference.        *)
LEMMA ReturnKeeps == ASSUME ObservationInv, Return PROVE ObservationInv'
<1> USE DEF ObservationInv
<1> PICK overlay : overlay = [profile |-> ReferenceOf(profile), claims |-> ClaimsForProfile]
  OBVIOUS
<1>1. /\ phase = "matching" /\ phase' = "done" /\ job = None /\ skills = <<>>
      /\ UNCHANGED <<disk, profile, answer, todo, report, job, skills, reading, inventory, diagnostics, verdict, history>>
      /\ \/ \E code : result' = [status |-> "failed", code |-> code]
         \/ /\ ~DuplicateObservation
            /\ \A i \in DOMAIN Inspect(profile) : Claimable(Inspect(profile)[i].reference)
            /\ result' = [status |-> "issued", code |-> None, overlay |-> overlay, diagnostics |-> NormalizeDiagnostics]
  BY DEF Return, Fail
<1>2. /\ verdict = None /\ reading = NotReading /\ answer \in Answers /\ todo = {}
      /\ \A d \in diagnostics : Known(d.key)
  BY <1>1 DEF PhaseInv, AnsweredInv, Known
<1>3. result'.status \in {"issued", "failed"} /\ (result'.status = "issued" => result'.diagnostics = NormalizeDiagnostics)
  BY <1>1
<1>4. TypeOK'
  BY <1>1, <1>2, <1>3, NormalizeFacts DEF TypeOK, disk
<1>5. PhaseInv'
  BY <1>1, <1>2 DEF PhaseInv, Ended
<1>6. ReportInv'
  BY <1>1 DEF ReportInv, BindingsOf
<1>7. RightNow' = RightNow
  BY <1>1 DEF RightNow, Right, disk
<1>8. JobInv' /\ HistoryInv' /\ ReadingInv'
  BY <1>1, <1>7 DEF JobInv, HistoryInv, ReadingInv, history
<1>9. InventoryInv'
  BY <1>1 DEF InventoryInv, Wholly, BindingsOf, history
<1>10. SeenInv'
  BY <1>1 DEF SeenInv, ListedSkills, Clear, Waiting, Pending, Matched, Matchable, Containing, SkillBindings, BindingsOf, Wholly, history
<1>11. AnsweredInv'
  <2>1. ListedSkills' = ListedSkills /\ \A x : Answered(x)' = Answered(x) /\ Waiting(x)' = Waiting(x)
    BY <1>1 DEF ListedSkills, Answered, Observable, Affected, Waiting, Matched, Containing, SkillBindings, BindingsOf, ProvidersFor
  <2>2. Matchable
    BY <1>1 DEF Matchable
  <2> QED BY <1>1, <2>1, <2>2 DEF AnsweredInv
<1>12. IssuedInv'
  <2>1. SUFFICES ASSUME result'.status = "issued" PROVE IssuedInv'
    BY DEF IssuedInv
  <2>2. /\ ~DuplicateObservation /\ \A i \in DOMAIN Inspect(profile) : Claimable(Inspect(profile)[i].reference)
        /\ result'.overlay = overlay /\ result'.diagnostics = NormalizeDiagnostics
    BY <1>1, <2>1
  <2>3. /\ overlay.profile = ReferenceOf(profile) /\ DOMAIN overlay.claims = DOMAIN Inspect(profile)
    BY DEF ClaimsForProfile
  <2>4. ASSUME NEW i \in DOMAIN Inspect(profile)
        PROVE  \E ref \in {Inspect(profile)[i].reference}, c \in report, b \in Bindings :
                  Verified(ref) = {<<c, b>>} /\ overlay.claims[i].binding = b /\ overlay.claims[i].location = c.location
    <3> PICK ref : ref = Inspect(profile)[i].reference
      OBVIOUS
    <3>1. PICK c \in report, b \in Bindings : Verified(ref) = {<<c, b>>} /\ (CHOOSE m \in Verified(ref) : TRUE) = <<c, b>>
      BY <2>2, ClaimFacts DEF ReportInv
    <3>2. /\ overlay.claims[i].binding = (CHOOSE m \in Verified(Inspect(profile)[i].reference) : TRUE)[2]
          /\ overlay.claims[i].location = (CHOOSE m \in Verified(Inspect(profile)[i].reference) : TRUE)[1].location
      BY DEF ClaimsForProfile
    <3>3. overlay.claims[i].binding = b /\ overlay.claims[i].location = c.location
      BY <3>1, <3>2
    <3> QED BY <3>1, <3>3
  <2>5. \A ref : Verified(ref)' = Verified(ref)
    BY <1>1 DEF Verified, BindingsOf, Observed
  <2>6. \A d \in diagnostics : \E n \in DOMAIN NormalizeDiagnostics : d.providers \subseteq NormalizeDiagnostics[n].providers
    BY <1>2, NormalizeFacts
  <2>7. Cardinality(ToSet(inventory)) = Len(inventory)
    BY <2>2 DEF DuplicateObservation
  <2> QED BY <1>1, <1>2, <2>2, <2>3, <2>4, <2>5, <2>6, <2>7 DEF IssuedInv
<1> QED BY <1>4, <1>5, <1>6, <1>8, <1>9, <1>10, <1>11, <1>12

(* A verified Overlay or an edited Profile leaves the observation alone.    *)
LEMMA LaterKeeps ==
    ASSUME ObservationInv, (phase = "idle" /\ phase' = "idle") \/ (phase = "done" /\ phase' \in Ended), edits' \in 0..MaxEdits,
           verdict' # None => /\ phase' = "verified" /\ result.status = "issued" /\ verdict'.valid \in BOOLEAN
                              /\ verdict'.valid = TRUE => ReferenceOf(verdict'.profile) = ReferenceOf(profile),
           UNCHANGED <<tree, profile, answer, todo, report, job, skills, reading, inventory, diagnostics, result, history>>
    PROVE  ObservationInv'
<1> USE DEF ObservationInv
<1>1. phase # "matching" /\ phase' # "matching"
  BY DEF Ended
<1>2. TypeOK' /\ PhaseInv'
  BY DEF TypeOK, PhaseInv, Ended
<1>3. ReportInv'
  BY DEF ReportInv, BindingsOf, Ended
<1>4. RightNow' = RightNow
  BY DEF RightNow, Right
<1>5. JobInv' /\ HistoryInv' /\ ReadingInv'
  BY <1>1, <1>4 DEF JobInv, HistoryInv, ReadingInv, history
<1>6. InventoryInv'
  BY DEF InventoryInv, Wholly, BindingsOf, history
<1>7. SeenInv'
  BY <1>1 DEF SeenInv, ListedSkills, Clear, Waiting, Pending, Matched, Matchable, Containing, SkillBindings, BindingsOf, Wholly, history
<1>8. AnsweredInv'
  BY <1>1 DEF AnsweredInv, ListedSkills, Answered, Observable, Affected, Waiting, Matched, Matchable, Containing, SkillBindings,
     BindingsOf, ProvidersFor
<1>9. IssuedInv'
  <2>1. \A ref : Verified(ref)' = Verified(ref)
    BY DEF Verified, BindingsOf, Observed
  <2> QED BY <2>1 DEF IssuedInv
<1> QED BY <1>2, <1>3, <1>5, <1>6, <1>7, <1>8, <1>9

(* An Overlay that verifies is of the Profile that was observed.            *)
LEMMA VerifyOverlayKeeps == ASSUME ObservationInv, NEW selector, VerifyOverlay(selector) PROVE ObservationInv'
<1> PICK p : p = Resolve(selector).profile
  OBVIOUS
<1>1. /\ phase = "done" /\ phase' = "verified" /\ result.status = "issued"
      /\ verdict' = [valid |-> Verify(p, result.overlay), profile |-> p]
      /\ UNCHANGED <<disk, profile, answer, todo, report, job, skills, reading, inventory, diagnostics, result, history>>
  BY DEF VerifyOverlay
<1>2. result.overlay.profile = ReferenceOf(profile) /\ edits \in 0..MaxEdits
  BY <1>1 DEF ObservationInv, IssuedInv, TypeOK
<1>3. verdict'.valid = Verify(p, result.overlay) /\ verdict'.profile = p
  BY <1>1
<1>4. Verify(p, result.overlay) \in BOOLEAN /\ (Verify(p, result.overlay) => result.overlay.profile = ReferenceOf(p))
  BY DEF Verify
<1>5. verdict'.valid \in BOOLEAN /\ (verdict'.valid = TRUE => ReferenceOf(p) = ReferenceOf(profile))
  BY <1>2, <1>3, <1>4, Zenon
<1> QED BY <1>1, <1>2, <1>3, <1>5, LaterKeeps DEF disk, Ended

(* No observation looks at a Profile file once it has its Profile.          *)
LEMMA EditProfileKeeps ==
    ASSUME ObservationInv, NEW f \in ProfileFiles, NEW text, EditProfile(f, text) PROVE ObservationInv'
<1>1. /\ edits < MaxEdits /\ edits' = edits + 1 /\ phase \in {"idle", "done"}
      /\ UNCHANGED <<tree, phase, profile, answer, todo, report, job, skills, reading, inventory, diagnostics, result, verdict,
                     history>>
  BY DEF EditProfile
<1>2. edits' \in 0..MaxEdits
  BY <1>1, CatalogAssumption DEF ObservationInv, TypeOK
<1>3. verdict = None
  BY <1>1 DEF ObservationInv, PhaseInv
<1>4. (phase = "idle" /\ phase' = "idle") \/ (phase = "done" /\ phase' \in Ended)
  BY <1>1 DEF Ended
<1>5. verdict' = None
  BY <1>1, <1>3
<1> QED BY <1>1, <1>2, <1>4, <1>5, LaterKeeps

(* A change to an installation disturbs the digest under way only where it  *)
(* cannot be right all the time any more.                                   *)
LEMMA DisturbKeeps ==
    ASSUME ObservationInv, phase \notin Ended, tree' \in [Locations -> [Files -> Contents]], edits' \in 0..MaxEdits,
           lately' = (IF phase = "matching" THEN lately \union RightNow' ELSE lately),
           throughout' \subseteq throughout, throughout' \subseteq RightNow',
           \/ UNCHANGED reading
           \/ /\ reading' = [reading EXCEPT !.right = FALSE]
              /\ reading # NotReading /\ phase = "matching" => ~Wholly(reading.location, NextBinding.root, throughout'),
           UNCHANGED <<profiles, phase, profile, answer, todo, report, job, skills, inventory, diagnostics, result, verdict>>
    PROVE  ObservationInv'
<1> USE DEF ObservationInv
<1>1. result.status # "issued" /\ verdict = None
  BY DEF PhaseInv, Ended
<1>2. /\ reading \in Readings /\ reading' \in Readings /\ reading'.location = reading.location
      /\ reading'.files = reading.files /\ reading'.names = reading.names
      /\ reading'.right = TRUE => reading.right = TRUE
      /\ reading = NotReading => reading' = NotReading
  <2>1. reading \in Readings
    BY DEF ReadingInv
  <2>2. CASE UNCHANGED reading
    BY <2>1, <2>2
  <2>3. CASE reading' = [reading EXCEPT !.right = FALSE]
    <3>1. \A r \in Readings : r.right = FALSE => [r EXCEPT !.right = FALSE] = r
      BY DEF Readings
    <3>2. NotReading \in Readings /\ NotReading.right = FALSE
      BY DEF Readings, NotReading
    <3> QED BY <2>1, <2>3, <3>1, <3>2 DEF Readings
  <2> QED BY <2>2, <2>3
<1>3. lately \subseteq lately'
  OBVIOUS
<1>4. TypeOK' /\ PhaseInv'
  BY <1>1, <1>2 DEF TypeOK, PhaseInv, Ended
<1>5. ReportInv'
  BY DEF ReportInv, BindingsOf
<1>6. HistoryInv'
  BY DEF HistoryInv
<1>7. NextBinding' = NextBinding
  BY DEF NextBinding
<1>8. JobInv'
  BY <1>2, <1>7 DEF JobInv, Containing, SkillBindings, BindingsOf
<1>9. ReadingInv'
  <2>1. SUFFICES ASSUME phase = "matching", reading' # NotReading
                 PROVE  LET root == NextBinding.root IN
                        /\ reading.location = job.candidate.location /\ reading.files \subseteq Under(root)
                        /\ reading'.right = TRUE => /\ reading.names = Declared(Under(root))
                                                    /\ \A p \in Under(root) \ reading.files : <<reading.location, p>> \in lately'
                        /\ Wholly(reading.location, root, throughout') => reading'.right = TRUE
    BY <1>2, <1>7 DEF ReadingInv, Wholly
  <2> PICK root : root = NextBinding.root
    OBVIOUS
  <2>2. /\ reading # NotReading /\ reading.location = job.candidate.location /\ reading.files \subseteq Under(root)
        /\ reading.right = TRUE => /\ reading.names = Declared(Under(root))
                                   /\ \A p \in Under(root) \ reading.files : <<reading.location, p>> \in lately
        /\ Wholly(reading.location, root, throughout) => reading.right = TRUE
    BY <1>2, <2>1 DEF ReadingInv
  <2>3. Wholly(reading.location, root, throughout') => Wholly(reading.location, root, throughout)
    BY DEF Wholly
  <2>4. Wholly(reading.location, root, throughout') => reading' = reading
    BY <2>1, <2>2
  <2> QED BY <1>2, <1>3, <2>2, <2>3, <2>4
<1>10. InventoryInv'
  BY <1>3 DEF InventoryInv, Wholly, BindingsOf
<1>11. SeenInv'
  <2>1. ASSUME NEW e, NEW c, NEW b, Clear(e, c, b)' PROVE Clear(e, c, b)
    BY <2>1 DEF Clear, Containing, SkillBindings, BindingsOf, Wholly
  <2>2. /\ ListedSkills' = ListedSkills /\ \A e : Waiting(e)' = Waiting(e) /\ \A b : Pending(e, b)' = Pending(e, b)
        /\ \A c, b : Matched(c, b)' = Matched(c, b)
    BY DEF ListedSkills, Waiting, Pending, Matched
  <2> QED BY <2>1, <2>2 DEF SeenInv, Matchable
<1>12. AnsweredInv'
  <2>1. ListedSkills' = ListedSkills /\ \A x : Answered(x)' = Answered(x) /\ Waiting(x)' = Waiting(x)
    BY DEF ListedSkills, Answered, Observable, Affected, Waiting, Matched, Containing, SkillBindings, BindingsOf, ProvidersFor
  <2> QED BY <2>1 DEF AnsweredInv, Matchable
<1>13. IssuedInv'
  BY <1>1 DEF IssuedInv
<1> QED BY <1>4, <1>5, <1>6, <1>8, <1>9, <1>10, <1>11, <1>12, <1>13

(* An edited file under digest was not right all the time.                  *)
LEMMA EditKeeps ==
    ASSUME ObservationInv, NEW l \in Locations, NEW p \in Files, NEW content \in Contents, Edit(l, p, content)
    PROVE  ObservationInv'
<1> USE DEF ObservationInv
<1>1. /\ edits < MaxEdits /\ edits' = edits + 1 /\ phase \notin Ended /\ tree' = [tree EXCEPT ![l][p] = content]
      /\ lately' = (IF phase = "matching" THEN lately \union RightNow' ELSE lately)
      /\ throughout' = (throughout \ ({l} \X {p})) \intersect RightNow'
      /\ UNCHANGED <<profiles, phase, profile, answer, todo, report, job, skills, inventory, diagnostics, result, verdict>>
      /\ \/ UNCHANGED reading
         \/ /\ reading.location = l /\ reading.files # {} /\ NextFile = p
            /\ reading' = [reading EXCEPT !.right = FALSE]
  BY DEF Edit, Remember, Ended
<1>2. edits' \in 0..MaxEdits /\ tree' \in [Locations -> [Files -> Contents]]
  BY <1>1, CatalogAssumption DEF TypeOK
<1>3. ASSUME reading.location = l, reading.files # {}, NextFile = p, reading # NotReading, phase = "matching"
      PROVE  ~Wholly(reading.location, NextBinding.root, throughout')
  <2>1. p \in Under(NextBinding.root)
    BY <1>3, NextFacts DEF ReadingInv
  <2>2. <<l, p>> \notin throughout'
    BY <1>1
  <2> QED BY <1>3, <2>1, <2>2 DEF Wholly
<1> QED BY <1>1, <1>2, <1>3, DisturbKeeps

(* A replaced installation has no file that was right all the time.         *)
LEMMA ReplaceKeeps ==
    ASSUME ObservationInv, NEW l \in Locations, NEW content \in {Expected, Removed}, Replace(l, content)
    PROVE  ObservationInv'
<1> USE DEF ObservationInv
<1>1. /\ edits < MaxEdits /\ edits' = edits + 1 /\ phase \notin Ended /\ tree' = [tree EXCEPT ![l] = content]
      /\ lately' = (IF phase = "matching" THEN lately \union RightNow' ELSE lately)
      /\ throughout' = (throughout \ ({l} \X Files)) \intersect RightNow'
      /\ UNCHANGED <<profiles, phase, profile, answer, todo, report, job, skills, inventory, diagnostics, result, verdict>>
      /\ \/ UNCHANGED reading
         \/ reading.location = l /\ reading' = [reading EXCEPT !.right = FALSE]
  BY DEF Replace, Remember, Ended
<1>2. edits' \in 0..MaxEdits
  BY <1>1, CatalogAssumption DEF TypeOK
<1>3. tree' \in [Locations -> [Files -> Contents]]
  <2>1. content \in [Files -> Contents]
    BY DisksAssumption DEF Removed, Contents
  <2> QED BY <1>1, <2>1 DEF TypeOK
<1>4. ASSUME reading.location = l, reading # NotReading, phase = "matching"
      PROVE  ~Wholly(reading.location, NextBinding.root, throughout')
  <2> PICK b : b = NextBinding
    OBVIOUS
  <2>1. job # None /\ job \in MatchJobs /\ job.bindings # {} /\ job.bindings \subseteq SkillBindings(job.candidate, job.entry.name)
    BY <1>4 DEF PhaseInv, JobInv
  <2>2. b \in Bindings /\ b.kind = "skill"
    BY <2>1, NextFacts DEF SkillBindings, BindingsOf
  <2>3. SkillFile(b.root) \in Files /\ SkillFile(b.root)[1] = b.root
    BY <2>2, CatalogAssumption DEF SkillFile
  <2>4. SkillFile(b.root) \in Under(b.root) /\ <<l, SkillFile(b.root)>> \notin throughout'
    BY <1>1, <2>3 DEF Under
  <2> QED BY <1>4, <2>4 DEF Wholly
<1> QED BY <1>1, <1>2, <1>3, <1>4, DisturbKeeps

(* The invariant holds at the start.                                        *)
LEMMA InitKeeps == Init => ObservationInv
<1> SUFFICES ASSUME Init PROVE ObservationInv
  OBVIOUS
<1>1. /\ edits = 0 /\ phase = "idle" /\ todo = {} /\ report = {} /\ job = None /\ skills = <<>> /\ reading = NotReading
      /\ inventory = <<>> /\ diagnostics = {} /\ result.status # "issued" /\ verdict = None /\ throughout = {}
  BY NoneAssumption DEF Init
<1>2. TypeOK
  <2>1. tree \in [Locations -> [Files -> Contents]]
    BY DisksAssumption DEF Init
  <2> QED BY <1>1, <2>1, CatalogAssumption DEF TypeOK
<1>3. PhaseInv
  BY <1>1 DEF PhaseInv, Ended
<1>4. ReportInv
  BY <1>1, FS_EmptySet DEF ReportInv
<1>5. JobInv /\ HistoryInv /\ SeenInv /\ AnsweredInv /\ IssuedInv
  BY <1>1 DEF JobInv, HistoryInv, SeenInv, AnsweredInv, IssuedInv, Matchable
<1>6. ReadingInv
  BY <1>1 DEF ReadingInv, Readings, NotReading
<1>7. InventoryInv
  BY <1>1, EmptySeq DEF InventoryInv
<1> QED BY <1>2, <1>3, <1>4, <1>5, <1>6, <1>7 DEF ObservationInv

(* The invariant holds while nothing happens.                               *)
LEMMA StillKeeps == ASSUME ObservationInv, UNCHANGED vars PROVE ObservationInv'
<1> USE DEF ObservationInv, vars, disk, history
<1>1. TypeOK' /\ PhaseInv'
  BY DEF TypeOK, PhaseInv
<1>2. ReportInv' /\ JobInv'
  BY DEF ReportInv, JobInv, BindingsOf, Containing, SkillBindings, NextBinding
<1>3. HistoryInv' /\ ReadingInv'
  BY DEF HistoryInv, RightNow, Right, ReadingInv, Wholly, NextBinding
<1>4. InventoryInv'
  BY DEF InventoryInv, Wholly, BindingsOf
<1>5. SeenInv'
  BY DEF SeenInv, ListedSkills, Clear, Waiting, Pending, Matched, Matchable, Containing, SkillBindings, BindingsOf, Wholly
<1>6. AnsweredInv'
  <2>1. ListedSkills' = ListedSkills /\ \A x : Answered(x)' = Answered(x) /\ Waiting(x)' = Waiting(x)
    BY DEF ListedSkills, Answered, Observable, Affected, Waiting, Matched, Containing, SkillBindings, BindingsOf, ProvidersFor
  <2> QED BY <2>1 DEF AnsweredInv, Matchable
<1>7. IssuedInv'
  <2>1. \A ref : Verified(ref)' = Verified(ref)
    BY DEF Verified, BindingsOf, Observed
  <2> QED BY <2>1 DEF IssuedInv
<1> QED BY <1>1, <1>2, <1>3, <1>4, <1>5, <1>6, <1>7

(* Every step, of the observation and of everybody else, keeps the          *)
(* invariant.                                                               *)
LEMMA StepKeeps == ObservationInv /\ [Next]_vars => ObservationInv'
<1> SUFFICES ASSUME ObservationInv, [Next]_vars PROVE ObservationInv'
  OBVIOUS
<1>1. CASE UNCHANGED vars
  BY <1>1, StillKeeps
<1>2. CASE \E request \in Requests : SelectProfile(request)
  BY <1>2, SelectKeeps
<1>3. CASE AskCodex
  BY <1>3, AskKeeps
<1>4. CASE DiscoverProviders
  BY <1>4, DiscoverKeeps
<1>5. CASE Attest
  BY <1>5, AttestKeeps
<1>6. CASE ReadFile
  BY <1>6, ReadFileKeeps
<1>7. CASE AttestBinding
  BY <1>7, AttestBindingKeeps
<1>8. CASE AttestDistribution
  BY <1>8, AttestDistributionKeeps
<1>9. CASE TakeSkills
  BY <1>9, TakeSkillsKeeps
<1>10. CASE MatchSkill
  BY <1>10, MatchSkillKeeps
<1>11. CASE MatchBinding
  BY <1>11, MatchBindingKeeps
<1>12. CASE ConfirmBinding
  BY <1>12, ConfirmBindingKeeps
<1>13. CASE Return
  BY <1>13, ReturnKeeps
<1>14. CASE \E request \in Requests : VerifyOverlay(request.selector)
  BY <1>14, VerifyOverlayKeeps
<1>15. CASE \E l \in Locations, p \in Files, content \in Contents : Edit(l, p, content)
  BY <1>15, EditKeeps
<1>16. CASE \E l \in Locations, content \in {Expected, Removed} : Replace(l, content)
  BY <1>16, ReplaceKeeps
<1>17. CASE \E f \in ProfileFiles, text \in ProfileTexts \union {None} : EditProfile(f, text)
  BY <1>17, EditProfileKeeps
<1> QED BY <1>1, <1>2, <1>3, <1>4, <1>5, <1>6, <1>7, <1>8, <1>9, <1>10, <1>11, <1>12, <1>13, <1>14, <1>15, <1>16, <1>17
  DEF Next, Observe, Others

(* The invariant of an observation, from the choice of the Profile to the   *)
(* verification of the Overlay, whatever everybody else edits meanwhile.    *)
THEOREM ObservationInvariant == Spec => []ObservationInv
<1>1. Init => ObservationInv
  BY InitKeeps
<1>2. ObservationInv /\ [Next]_vars => ObservationInv'
  BY StepKeeps
<1> QED BY <1>1, <1>2, PTL DEF Spec

(* The state is well typed, a candidate attested completely or not at all,  *)
(* and an answer within its budget of diagnostics (diagnostics.go).         *)
THEOREM ObservationTypes == Spec => []TypeOK
<1>1. ObservationInv => TypeOK
  BY DEF ObservationInv
<1> QED BY <1>1, ObservationInvariant, PTL

(* Exactly one observation of a verified Binding, and what it says          *)
LEMMA VerifiedFacts ==
    ASSUME ObservationInv, NEW ref, NEW c \in report, NEW b \in Bindings, <<c, b>> \in Verified(ref)
    PROVE  b \in BindingsOf(c) /\ b.reference = ref /\ Wholly(c.location, b.root, lately)
<1>1. b \in BindingsOf(c) /\ b.reference = ref /\ Cardinality(Observed(c, b)) = 1
  BY DEF Verified
<1>2. PICK k \in DOMAIN inventory : inventory[k] = ObservationOf(c, b)
  <2>1. Observed(c, b) # {}
    BY <1>1, FS_EmptySet
  <2> QED BY <2>1 DEF Observed, ObservationOf
<1>3. PICK d \in report, x \in Bindings : x \in BindingsOf(d) /\ inventory[k] = ObservationOf(d, x) /\ Wholly(d.location, x.root, lately)
  BY DEF ObservationInv, InventoryInv
<1>4. InstallationKey(c) = InstallationKey(d) /\ b.id = x.id
  BY <1>2, <1>3 DEF ObservationOf
<1>5. c.provider = d.provider /\ c.location = d.location
  BY <1>4 DEF InstallationKey
<1>6. b.provider = x.provider
  BY <1>1, <1>3, <1>5 DEF BindingsOf
<1>7. b = x
  BY <1>4, <1>6, CatalogAssumption
<1> QED BY <1>1, <1>3, <1>5, <1>7

(* Each file a claim vouches for was as the catalog knows it at some moment *)
(* after the discovery had ended (bindings.go, attest.go).                  *)
THEOREM ClaimedFilesWereLive == Spec => []ClaimsAreLive
<1>1. ObservationInv => ClaimsAreLive
  <2> SUFFICES ASSUME ObservationInv, result.status = "issued", NEW i \in DOMAIN result.overlay.claims
               PROVE  \A p \in Under(result.overlay.claims[i].binding.root) : <<result.overlay.claims[i].location, p>> \in lately
    BY DEF ClaimsAreLive
  <2>1. PICK ref, c, b : /\ c \in report /\ b \in Bindings /\ Verified(ref) = {<<c, b>>}
                         /\ result.overlay.claims[i].binding = b /\ result.overlay.claims[i].location = c.location
    BY DEF ObservationInv, IssuedInv
  <2>2. Wholly(c.location, b.root, lately)
    BY <2>1, VerifiedFacts
  <2> QED BY <2>1, <2>2 DEF Wholly
<1> QED BY <1>1, ObservationInvariant, PTL

(* What is observed once in an inventory without repetitions                *)
LEMMA OnceFacts ==
    ASSUME InventoryInv, Cardinality(ToSet(inventory)) = Len(inventory), NEW c, NEW b, Matched(c, b)
    PROVE  Cardinality(Observed(c, b)) = 1
<1>1. PICK n \in Nat : DOMAIN inventory = 1..n /\ n = Len(inventory) /\ inventory = [k \in 1..n |-> inventory[k]]
  BY LenProperties DEF InventoryInv
<1>2. inventory \in Surjection(DOMAIN inventory, ToSet(inventory))
  BY <1>1 DEF Surjection, ToSet
<1>3. IsFiniteSet(DOMAIN inventory) /\ Cardinality(DOMAIN inventory) = Len(inventory)
  <2>1. 1 \in Int /\ n \in Int
    OBVIOUS
  <2>2. IsFiniteSet(1..n) /\ Cardinality(1..n) = IF 1 > n THEN 0 ELSE n - 1 + 1
    BY <2>1, FS_Interval
  <2>3. (IF 1 > n THEN 0 ELSE n - 1 + 1) = n
    OBVIOUS
  <2> QED BY <1>1, <2>2, <2>3
<1>4. inventory \in Injection(DOMAIN inventory, ToSet(inventory))
  BY <1>2, <1>3, FS_SurjSameCardinalityImpliesInj
<1>5. \A k, l \in DOMAIN inventory : inventory[k] = inventory[l] => k = l
  BY <1>4 DEF Injection, IsInjective
<1>6. PICK k \in DOMAIN inventory : inventory[k] = ObservationOf(c, b)
  BY DEF Matched
<1>7. Observed(c, b) = {k}
  BY <1>5, <1>6 DEF Observed, ObservationOf
<1> QED BY <1>7, FS_Singleton

(* Two installations that were right all the time and offer the same        *)
(* enabled Skill are never chosen between (service.go).                     *)
THEOREM NoChoiceOfInstallation == Spec => []OneInstallation
<1>1. ObservationInv => OneInstallation
  <2> SUFFICES ASSUME ObservationInv, result.status = "issued", NEW i \in DOMAIN result.overlay.claims, NEW d \in report,
                      Eligible(d, result.overlay.claims[i].binding.reference)
               PROVE  d.location = result.overlay.claims[i].location
    BY DEF OneInstallation
  <2>1. PICK ref, c, b : /\ c \in report /\ b \in Bindings /\ Verified(ref) = {<<c, b>>}
                         /\ result.overlay.claims[i].binding = b /\ result.overlay.claims[i].location = c.location
    BY DEF ObservationInv, IssuedInv
  <2>2. b.reference = ref
    BY <2>1, VerifiedFacts
  <2>3. Eligible(d, ref)
    BY <2>1, <2>2
  <2>4. PICK x \in SkillBindings(d, ref), k \in DOMAIN answer.skills :
           /\ answer.skills[k].enabled /\ answer.skills[k].valid /\ answer.skills[k].name = ref
           /\ answer.skills[k].location = d.location /\ answer.skills[k].file = SkillFile(x.root)
    BY <2>3 DEF Eligible
  <2> PICK e : e = answer.skills[k]
    OBVIOUS
  <2>5. e \in ListedSkills /\ e \in Entries /\ e.enabled = TRUE /\ e.valid = TRUE
    <3>1. answer.skills \in Seq(Entries)
      BY AnswersAssumption DEF ObservationInv, PhaseInv
    <3>2. e \in Entries
      BY <3>1, LenProperties
    <3> QED BY <2>4, <3>2 DEF ListedSkills, Entries
  <2>6. x \in Bindings /\ x \in BindingsOf(d) /\ x.reference = ref
    BY DEF SkillBindings, BindingsOf
  <2>7. Containing(e) = {d}
    BY <2>3, <2>4 DEF Containing, Eligible
  <2>8. Clear(e, d, x)
    BY <2>3, <2>4, <2>5, <2>6, <2>7 DEF Clear, Eligible, Wholly
  <2>9. Matched(d, x)
    <3>1. job = None /\ skills = <<>>
      BY DEF ObservationInv, IssuedInv
    <3>2. ~Waiting(e) /\ ~Pending(e, x)
      BY <3>1 DEF Waiting, Pending
    <3>3. answer.cwd = "ours"
      <4>1. Cardinality(Observed(c, b)) = 1
        <5>1. <<c, b>> \in Verified(ref)
          BY <2>1
        <5> QED BY <5>1 DEF Verified
      <4>2. Observed(c, b) # {}
        BY <4>1, FS_EmptySet
      <4>3. inventory # <<>>
        BY <4>2 DEF Observed
      <4> QED BY <4>3 DEF ObservationInv, SeenInv, Matchable
    <3> QED BY <2>5, <2>6, <2>8, <3>2, <3>3 DEF ObservationInv, SeenInv, Matchable
  <2>10. Cardinality(Observed(d, x)) = 1
    BY <2>9, OnceFacts DEF ObservationInv, IssuedInv, InventoryInv
  <2>11. d.provenance # None /\ x.id \in d.roots
    BY <2>3, <2>6 DEF Eligible, ObservationInv, ReportInv
  <2>12. <<d, x>> \in Verified(ref)
    BY <2>6, <2>10, <2>11 DEF Verified
  <2> QED BY <2>1, <2>12
<1> QED BY <1>1, ObservationInvariant, PTL

(* An Overlay that verifies claims each occurrence of the Profile it is     *)
(* verified against, in order, under its name (overlay.go, profile.go).     *)
THEOREM VerifiedFitsProfile == Spec => []VerifiedOverlayFits
<1>1. ObservationInv => VerifiedOverlayFits
  <2> SUFFICES ASSUME ObservationInv, verdict # None, verdict.valid
               PROVE  /\ DOMAIN result.overlay.claims = DOMAIN Occurrences(verdict.profile.text)
                      /\ \A i \in DOMAIN result.overlay.claims :
                            result.overlay.claims[i].binding.reference = Occurrences(verdict.profile.text)[i].reference
    BY DEF VerifiedOverlayFits
  <2>1. result.status = "issued"
    BY DEF ObservationInv, PhaseInv
  <2>2. ReferenceOf(verdict.profile) = ReferenceOf(profile)
    <3>1. verdict.valid \in BOOLEAN
      BY <2>1 DEF ObservationInv, IssuedInv
    <3>2. verdict.valid = TRUE
      BY <3>1
    <3> QED BY <2>1, <3>2 DEF ObservationInv, IssuedInv
  <2>3. verdict.profile.text = profile.text
    BY <2>2 DEF ReferenceOf
  <2>4. /\ DOMAIN Inspect(profile) = DOMAIN Occurrences(profile.text)
        /\ \A i \in DOMAIN Occurrences(profile.text) : Inspect(profile)[i].reference = Occurrences(profile.text)[i].reference
    BY DEF Inspect
  <2>5. DOMAIN result.overlay.claims = DOMAIN Inspect(profile)
    BY <2>1 DEF ObservationInv, IssuedInv
  <2>6. ASSUME NEW i \in DOMAIN result.overlay.claims
        PROVE  result.overlay.claims[i].binding.reference = Inspect(profile)[i].reference
    <3>1. PICK ref, c, b : /\ c \in report /\ b \in Bindings /\ Verified(ref) = {<<c, b>>}
                           /\ result.overlay.claims[i].binding = b /\ ref = Inspect(profile)[i].reference
      BY <2>1 DEF ObservationInv, IssuedInv
    <3>2. b.reference = ref
      BY <3>1, VerifiedFacts
    <3> QED BY <3>1, <3>2
  <2> QED BY <2>3, <2>4, <2>5, <2>6
<1> QED BY <1>1, ObservationInvariant, PTL

(* A well-named enabled Skill without an observation has its Providers, or  *)
(* those it lies in, named in the diagnostics, merged and cut as they are   *)
(* (bindings.go, diagnostics.go).                                           *)
THEOREM EveryoneIsNamed == Spec => []NobodyForgotten
<1>1. ObservationInv => NobodyForgotten
  <2>1. ASSUME ObservationInv, result.status = "issued", answer.cwd = "ours", NEW i \in DOMAIN answer.skills,
               NEW e, e = answer.skills[i], e.enabled, e.valid
        PROVE  \/ Observable(e)
               \/ ProvidersFor(e.name) \subseteq Named
               \/ Containing(e) # {} /\ {c.provider : c \in Containing(e)} \subseteq Named
    <3>1. e \in ListedSkills /\ e.enabled = TRUE /\ e.valid = TRUE
      <4>1. answer.skills \in Seq(Entries)
        BY <2>1, AnswersAssumption DEF ObservationInv, PhaseInv
      <4>2. e \in Entries
        BY <2>1, <4>1, LenProperties
      <4> QED BY <2>1, <4>2 DEF ListedSkills, Entries
    <3>2. job = None /\ ~Waiting(e)
      BY <2>1 DEF ObservationInv, IssuedInv, Waiting
    <3>3. Answered(e)
      BY <2>1, <3>1, <3>2 DEF ObservationInv, AnsweredInv, Matchable
    <3>4. Affected \subseteq Named
      BY <2>1 DEF ObservationInv, IssuedInv, Affected, Named
    <3> QED BY <3>3, <3>4 DEF Answered
  <2> QED BY <2>1 DEF NobodyForgotten, Observable, Matched, Observed, ObservationOf
<1> QED BY <1>1, ObservationInvariant, PTL
=============================================================================
