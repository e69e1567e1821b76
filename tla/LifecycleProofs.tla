--------------------------- MODULE LifecycleProofs ---------------------------
(***************************************************************************)
(* Proofs about what is never lost: whatever sequence of installs, updates *)
(* and uninstalls, complete, stale or killed, wrote it, every state record *)
(* can be read again, no directory is owned by two installations, and no   *)
(* command loses what users wrote; for any installations, targets,         *)
(* releases, requests, users' edits and number of processes.  The          *)
(* operators over data are recursive functions, so what they compute is    *)
(* shown by induction over the naturals, stated for sets (SetInduction).   *)
(***************************************************************************)
EXTENDS Lifecycle, FiniteSetTheorems, SequenceTheorems, WellFoundedInduction, TLAPS

(* Induction: a set with 0 that is closed under + 1 holds every natural.   *)
LEMMA SetInduction ==
    ASSUME NEW S, 0 \in S, \A n \in Nat : n \in S => n + 1 \in S
    PROVE  \A n \in Nat : n \in S
<1> DEFINE R == OpToRel(<, Nat)
           T == Nat \ S
<1>1. IsWellFoundedOn(R, Nat)
  BY NatLessThanWellFounded
<1>2. \A x \in Nat : x + 1 \in Nat /\ <<x, x + 1>> \in R
  BY DEF OpToRel
<1> HIDE DEF R
<1>3. SUFFICES ASSUME T # {} PROVE FALSE
  OBVIOUS
<1>4. PICK x \in T : \A y \in T : <<y, x>> \notin R
  BY <1>1, <1>3, WFMin
<1>5. x \in Nat /\ x # 0 /\ x - 1 \in Nat
  BY <1>4
<1>6. x - 1 \in T
  BY <1>5
<1>7. <<x - 1, x>> \in R
  BY <1>2, <1>5
<1> QED BY <1>4, <1>6, <1>7

(* A set that is not empty has a member of least rank.                     *)
LEMMA LeastOfSet ==
    ASSUME NEW T, T # {}, NEW rank, \A x \in T : rank[x] \in Nat
    PROVE  \E x \in T : \A y \in T : rank[x] <= rank[y]
<1> DEFINE S == {n \in Nat : \A x \in T : n <= rank[x]}
<1>1. SUFFICES ASSUME ~\E x \in T : \A y \in T : rank[x] <= rank[y] PROVE FALSE
  OBVIOUS
<1>2. 0 \in S
  OBVIOUS
<1>3. \A n \in Nat : n \in S => n + 1 \in S
  BY <1>1
<1>4. \A n \in Nat : n \in S
  <2> HIDE DEF S
  <2> QED BY <1>2, <1>3, SetInduction
<1>5. PICK x \in T : rank[x] \in Nat
  OBVIOUS
<1>6. rank[x] + 1 \in S
  BY <1>4, <1>5
<1> QED BY <1>5, <1>6

(* The trees a run of steps goes through.                                  *)
Trail(t, steps) == CHOOSE g : g = [n \in 0..Len(steps) |-> IF n = 0 THEN t ELSE Do(g[n - 1], steps[n])]

(* Run does the steps one after the other, from t.                         *)
LEMMA RunTrail ==
    ASSUME NEW t, NEW steps, Len(steps) \in Nat
    PROVE  /\ Run(t, steps) = Trail(t, steps)[Len(steps)]
           /\ Trail(t, steps)[0] = t
           /\ \A n \in 1..Len(steps) : Trail(t, steps)[n] = Do(Trail(t, steps)[n - 1], steps[n])
<1> DEFINE S == {k \in Nat : \E g : g = [n \in 0..k |-> IF n = 0 THEN t ELSE Do(g[n - 1], steps[n])]}
<1>1. 0 \in S
  <2> DEFINE g == [n \in 0..0 |-> t]
  <2>1. g = [n \in 0..0 |-> IF n = 0 THEN t ELSE Do(g[n - 1], steps[n])]
    OBVIOUS
  <2> QED BY <2>1
<1>2. ASSUME NEW k \in Nat, k \in S PROVE k + 1 \in S
  <2>1. PICK g : g = [n \in 0..k |-> IF n = 0 THEN t ELSE Do(g[n - 1], steps[n])]
    BY <1>2
  <2> DEFINE h == [n \in 0..(k + 1) |-> IF n = k + 1 THEN Do(g[k], steps[k + 1]) ELSE g[n]]
  <2>2. ASSUME NEW n \in 0..(k + 1) PROVE h[n] = IF n = 0 THEN t ELSE Do(h[n - 1], steps[n])
    <3>1. CASE n = 0 BY <2>1, <3>1
    <3>2. CASE n = k + 1 BY <3>2
    <3>3. CASE n \in 1..k
      <4>1. n \in 0..k /\ n - 1 \in 0..(k + 1) /\ n - 1 # k + 1 /\ n # k + 1 /\ n # 0 BY <3>3
      <4>2. h[n] = g[n] /\ h[n - 1] = g[n - 1] BY <4>1
      <4>3. g[n] = Do(g[n - 1], steps[n]) BY <2>1, <4>1
      <4> QED BY <4>1, <4>2, <4>3
    <3> QED BY <3>1, <3>2, <3>3
  <2>3. h = [n \in 0..(k + 1) |-> IF n = 0 THEN t ELSE Do(h[n - 1], steps[n])]
    BY <2>2
  <2> HIDE DEF h
  <2> QED BY <2>3
<1>3. Len(steps) \in S
  <2> HIDE DEF S
  <2> QED BY <1>1, <1>2, SetInduction
<1>4. Trail(t, steps) = [n \in 0..Len(steps) |-> IF n = 0 THEN t ELSE Do(Trail(t, steps)[n - 1], steps[n])]
  BY <1>3 DEF Trail
<1>5. Run(t, steps) = Trail(t, steps)[Len(steps)]
  BY DEF Run, Trail
<1>6. Trail(t, steps)[0] = t
  BY <1>4
<1>7. \A n \in 1..Len(steps) : Trail(t, steps)[n] = Do(Trail(t, steps)[n - 1], steps[n])
  BY <1>4
<1> QED BY <1>5, <1>6, <1>7

(* What Ordered has listed after n members.                                *)
Listing(S, rank) == CHOOSE l : l = [n \in 0..Cardinality(S) |->
    IF n = 0 THEN <<>>
    ELSE Append(l[n - 1], CHOOSE x \in S \ ToSet(l[n - 1]) : \A y \in S \ ToSet(l[n - 1]) : rank[x] <= rank[y])]

(* Appending adds the appended element, and nothing else.                  *)
LEMMA AppendedSet ==
    ASSUME NEW S, NEW s \in Seq(S), NEW x \in S
    PROVE  ToSet(Append(s, x)) = ToSet(s) \union {x}
<1>1. DOMAIN s = 1..Len(s) /\ Len(s) \in Nat
  OBVIOUS
<1>2. DOMAIN Append(s, x) = 1..(Len(s) + 1)
  OBVIOUS
<1>3. \A n \in 1..Len(s) : Append(s, x)[n] = s[n]
  OBVIOUS
<1>4. Append(s, x)[Len(s) + 1] = x
  OBVIOUS
<1>5. Len(s) + 1 \in 1..(Len(s) + 1) /\ \A n \in 1..(Len(s) + 1) : n \in 1..Len(s) \/ n = Len(s) + 1
  BY <1>1
<1>6. ASSUME NEW y \in ToSet(Append(s, x)) PROVE y \in ToSet(s) \union {x}
  BY <1>1, <1>2, <1>3, <1>4, <1>5 DEF ToSet
<1>7. ASSUME NEW y \in ToSet(s) \union {x} PROVE y \in ToSet(Append(s, x))
  <2>1. CASE y = x BY <2>1, <1>2, <1>4, <1>5 DEF ToSet
  <2>2. CASE y \in ToSet(s)
    <3>1. PICK n \in 1..Len(s) : y = s[n] BY <2>2, <1>1 DEF ToSet
    <3>2. n \in DOMAIN Append(s, x) /\ Append(s, x)[n] = y BY <3>1, <1>1, <1>2, <1>3
    <3> QED BY <3>2 DEF ToSet
  <2> QED BY <2>1, <2>2
<1> QED BY <1>6, <1>7

(* Ordered appends the least member that is left, as often as there are    *)
(* members.                                                                *)
LEMMA ListingSteps ==
    ASSUME NEW S, IsFiniteSet(S), NEW rank
    PROVE  /\ Ordered(S, rank) = Listing(S, rank)[Cardinality(S)]
           /\ Listing(S, rank)[0] = <<>>
           /\ \A n \in 1..Cardinality(S) :
                 LET done == Listing(S, rank)[n - 1]
                 IN Listing(S, rank)[n] =
                       Append(done, CHOOSE x \in S \ ToSet(done) : \A y \in S \ ToSet(done) : rank[x] <= rank[y])
<1> DEFINE Least(l) == CHOOSE x \in S \ ToSet(l) : \A y \in S \ ToSet(l) : rank[x] <= rank[y]
           N == Cardinality(S)
           G == {k \in Nat : \E g : g = [n \in 0..k |-> IF n = 0 THEN <<>> ELSE Append(g[n - 1], Least(g[n - 1]))]}
<1> HIDE DEF Least
<1>1. 0 \in G
  <2> DEFINE g == [n \in 0..0 |-> <<>>]
  <2>1. g = [n \in 0..0 |-> IF n = 0 THEN <<>> ELSE Append(g[n - 1], Least(g[n - 1]))]
    OBVIOUS
  <2> QED BY <2>1
<1>2. ASSUME NEW k \in Nat, k \in G PROVE k + 1 \in G
  <2>1. PICK g : g = [n \in 0..k |-> IF n = 0 THEN <<>> ELSE Append(g[n - 1], Least(g[n - 1]))]
    BY <1>2
  <2> DEFINE h == [n \in 0..(k + 1) |-> IF n = k + 1 THEN Append(g[k], Least(g[k])) ELSE g[n]]
  <2>2. ASSUME NEW n \in 0..(k + 1)
        PROVE  h[n] = IF n = 0 THEN <<>> ELSE Append(h[n - 1], Least(h[n - 1]))
    <3>1. CASE n = 0 BY <2>1, <3>1
    <3>2. CASE n = k + 1 BY <3>2
    <3>3. CASE n \in 1..k
      <4>1. n \in 0..k /\ n - 1 \in 0..(k + 1) /\ n - 1 # k + 1 /\ n # k + 1 /\ n # 0 BY <3>3
      <4>2. h[n] = g[n] /\ h[n - 1] = g[n - 1] BY <4>1
      <4>3. g[n] = Append(g[n - 1], Least(g[n - 1])) BY <2>1, <4>1
      <4> QED BY <4>1, <4>2, <4>3
    <3> QED BY <3>1, <3>2, <3>3
  <2>3. \E f : f = [n \in 0..(k + 1) |-> IF n = 0 THEN <<>> ELSE Append(f[n - 1], Least(f[n - 1]))]
    <3>1. h = [n \in 0..(k + 1) |-> IF n = 0 THEN <<>> ELSE Append(h[n - 1], Least(h[n - 1]))]
      BY <2>2
    <3> HIDE DEF h
    <3> WITNESS h
    <3> QED BY <3>1
  <2>4. k + 1 \in Nat
    OBVIOUS
  <2> QED BY <2>3, <2>4, Zenon
<1>3. N \in Nat
  BY FS_CardinalityType
<1>4. N \in G
  <2> HIDE DEF G, N
  <2> QED BY <1>1, <1>2, <1>3, SetInduction
<1>5. Listing(S, rank) = CHOOSE g : g = [n \in 0..N |-> IF n = 0 THEN <<>> ELSE Append(g[n - 1], Least(g[n - 1]))]
  BY DEF Listing, Least
<1>6. Listing(S, rank) = [n \in 0..N |-> IF n = 0 THEN <<>> ELSE Append(Listing(S, rank)[n - 1], Least(Listing(S, rank)[n - 1]))]
  BY <1>4, <1>5
<1>7. Ordered(S, rank) = Listing(S, rank)[N]
  BY DEF Ordered, Listing
<1>8. Listing(S, rank)[0] = <<>>
  BY <1>3, <1>6
<1>9. ASSUME NEW n \in 1..N
      PROVE  Listing(S, rank)[n] = Append(Listing(S, rank)[n - 1], Least(Listing(S, rank)[n - 1]))
  <2>1. n \in 0..N /\ n # 0
    BY <1>3
  <2> DEFINE L == Listing(S, rank)
  <2>2. L = [m \in 0..N |-> IF m = 0 THEN <<>> ELSE Append(L[m - 1], Least(L[m - 1]))]
    BY <1>6
  <2> HIDE DEF L
  <2>3. L[n] = Append(L[n - 1], Least(L[n - 1]))
    BY <2>1, <2>2
  <2> QED BY <2>3 DEF L
<1> QED BY <1>7, <1>8, <1>9 DEF Least

(* Ordered lists the members of the set, all of them and no others.        *)
LEMMA OrderedMembers ==
    ASSUME NEW S, IsFiniteSet(S), NEW rank, \A x \in S : rank[x] \in Nat
    PROVE  Ordered(S, rank) \in Seq(S) /\ ToSet(Ordered(S, rank)) = S
<1> DEFINE l == Listing(S, rank)
           N == Cardinality(S)
           G == {n \in Nat : n <= N => /\ l[n] \in Seq(S) /\ ToSet(l[n]) \subseteq S
                                       /\ IsFiniteSet(ToSet(l[n])) /\ Cardinality(ToSet(l[n])) = n}
<1>1. N \in Nat
  BY FS_CardinalityType
<1>2. 0 \in G
  <2>1. l[0] = <<>> BY ListingSteps
  <2>2. ToSet(<<>>) = {} BY DEF ToSet
  <2>3. <<>> \in Seq(S) /\ IsFiniteSet({}) /\ Cardinality({}) = 0 BY FS_EmptySet
  <2> HIDE DEF l
  <2> QED BY <2>1, <2>2, <2>3 DEF l
<1>3. ASSUME NEW n \in Nat, n \in G PROVE n + 1 \in G
  <2>1. SUFFICES ASSUME n + 1 <= N PROVE /\ l[n + 1] \in Seq(S) /\ ToSet(l[n + 1]) \subseteq S
                                         /\ IsFiniteSet(ToSet(l[n + 1])) /\ Cardinality(ToSet(l[n + 1])) = n + 1
    OBVIOUS
  <2> DEFINE done == l[n]
             rest == S \ ToSet(done)
             x == CHOOSE z \in rest : \A y \in rest : rank[z] <= rank[y]
  <2>2. /\ done \in Seq(S) /\ ToSet(done) \subseteq S /\ IsFiniteSet(ToSet(done)) /\ Cardinality(ToSet(done)) = n
    BY <1>1, <1>3, <2>1
  <2>3. n + 1 \in 1..N /\ n + 1 - 1 = n
    BY <1>1, <2>1
  <2>4. l[n + 1] = Append(done, x)
    <3> HIDE DEF N, l
    <3>1. l[n + 1] = Append(l[n + 1 - 1], CHOOSE z \in S \ ToSet(l[n + 1 - 1]) :
                                                \A y \in S \ ToSet(l[n + 1 - 1]) : rank[z] <= rank[y])
      <4>1. \A m \in 1..N : l[m] = Append(l[m - 1], CHOOSE z \in S \ ToSet(l[m - 1]) :
                                                \A y \in S \ ToSet(l[m - 1]) : rank[z] <= rank[y])
        BY ListingSteps DEF l, N
      <4> QED BY <2>3, <4>1
    <3> QED BY <2>3, <3>1
  <2>5. rest # {}
    <3>1. SUFFICES ASSUME ToSet(done) = S PROVE FALSE
      BY <2>2
    <3> QED BY <1>1, <2>1, <2>2, <3>1
  <2>6. x \in rest
    <3>1. \E y \in rest : \A z \in rest : rank[y] <= rank[z]
      <4> HIDE DEF l
      <4> QED BY <2>5, LeastOfSet
    <3> QED BY <3>1
  <2> HIDE DEF x, l
  <2>7. ToSet(l[n + 1]) = ToSet(done) \union {x}
    BY <2>2, <2>4, <2>6, AppendedSet
  <2>8. IsFiniteSet(ToSet(done) \union {x}) /\ Cardinality(ToSet(done) \union {x}) = n + 1
    BY <2>2, <2>6, FS_AddElement
  <2> QED BY <2>2, <2>4, <2>6, <2>7, <2>8
<1>4. N \in G
  <2> HIDE DEF G, N
  <2> QED BY <1>1, <1>2, <1>3, SetInduction
<1>5. l[N] \in Seq(S) /\ ToSet(l[N]) = S
  BY <1>1, <1>4, FS_Subset
<1> QED BY <1>5, ListingSteps

-----------------------------------------------------------------------------
(* AtPositions gives the elements at these positions, all of them and no   *)
(* others.                                                                 *)
LEMMA AtPositionsOf ==
    ASSUME NEW N, IsFiniteSet(N), N \subseteq Nat, NEW s, NEW X, \A n \in N : s[n] \in X
    PROVE  /\ AtPositions(s, N) \in Seq(X)
           /\ ToSet(AtPositions(s, N)) = {s[n] : n \in N}
<1> DEFINE rank == [n \in N |-> n]
           at == Ordered(N, rank)
<1>1. \A n \in N : rank[n] \in Nat
  OBVIOUS
<1> HIDE DEF rank
<1>2. at \in Seq(N) /\ ToSet(at) = N
  BY <1>1, OrderedMembers
<1>3. AtPositions(s, N) = [k \in DOMAIN at |-> s[at[k]]]
  BY DEF AtPositions, rank
<1> HIDE DEF at
<1>4. DOMAIN at = 1..Len(at) /\ Len(at) \in Nat /\ \A k \in 1..Len(at) : at[k] \in N
  BY <1>2
<1>5. AtPositions(s, N) \in Seq(X)
  <2> DEFINE Element(k) == s[at[k]]
  <2>1. AtPositions(s, N) = [k \in 1..Len(at) |-> Element(k)]
    BY <1>3, <1>4
  <2>2. \A k \in 1..Len(at) : Element(k) \in X
    BY <1>4
  <2> HIDE DEF Element
  <2> QED BY <1>4, <2>1, <2>2
<1>6. ToSet(AtPositions(s, N)) = {s[at[k]] : k \in DOMAIN at}
  BY <1>3 DEF ToSet
<1>7. {s[at[k]] : k \in DOMAIN at} = {s[n] : n \in N}
  BY <1>2 DEF ToSet
<1> QED BY <1>5, <1>6, <1>7

(* Names of files and directories, those of the code among them, and paths *)
(* made of them.                                                           *)
Name == STRING \union
    {"home", "skills", "oaw", "SKILL.md", "AGENTS.md", ".claude", "CLAUDE.md",
     ".codex", ".agents", "agents", "openai.yaml", ".gemini", "GEMINI.md", "commands",
     "oaw.toml", "opencode", "config", "oaw.md", ".opencode", ".cursor", "rules",
     "open-agent-workflow.mdc", ".devin", "open-agent-workflow.md", ".windsurf",
     "workflows", ".clinerules", ".cline", ".roo", ".github", "instructions",
     "open-agent-workflow.instructions.md", "user", "none", "state", "installations",
     "projects", "backups", ".oaw", "policy", "profiles", "builtin", "POLICY.md"}
Path == Seq(Name)

(* Directories in the order of their depth are the same directories.       *)
LEMMA ByDepthOf ==
    ASSUME NEW D, IsFiniteSet(D), D \subseteq Path
    PROVE  ByDepth(D) \in Seq(D) /\ ToSet(ByDepth(D)) = D
<1> DEFINE rank == [d \in D |-> Len(d)]
<1>1. \A d \in D : rank[d] \in Nat
  BY DEF Path
<1>2. ByDepth(D) = Ordered(D, rank)
  BY DEF ByDepth
<1> HIDE DEF rank
<1> QED BY <1>1, <1>2, OrderedMembers

(* So they are in the opposite order.                                      *)
LEMMA DeepestFirstOf ==
    ASSUME NEW D, IsFiniteSet(D), D \subseteq Path
    PROVE  DeepestFirst(D) \in Seq(D)
<1>1. ByDepth(D) \in Seq(D)
  BY ByDepthOf
<1> QED BY <1>1 DEF DeepestFirst, Reverse

(* Listed lists the members of a finite set.                               *)
LEMMA ListedOf ==
    ASSUME NEW S, IsFiniteSet(S)
    PROVE  Listed(S) \in Seq(S) /\ ToSet(Listed(S)) = S
<1> DEFINE rank == [x \in S |-> 0]
<1>1. \A x \in S : rank[x] \in Nat
  OBVIOUS
<1>2. Listed(S) = Ordered(S, rank)
  BY DEF Listed
<1> HIDE DEF rank
<1> QED BY <1>1, <1>2, OrderedMembers

(* When duplicates go, the same actions are left.                          *)
LEMMA DistinctActionsOf ==
    ASSUME NEW X, NEW steps \in Seq(X)
    PROVE  DistinctActions(steps) \in Seq(X) /\ ToSet(DistinctActions(steps)) = ToSet(steps)
<1> DEFINE N == {n \in DOMAIN steps : \A m \in 1..(n - 1) : steps[m] # steps[n]}
<1>1. DOMAIN steps = 1..Len(steps) /\ Len(steps) \in Nat
  OBVIOUS
<1>2. IsFiniteSet(1..Len(steps))
  BY <1>1, FS_Interval
<1>3. N \subseteq 1..Len(steps)
  BY <1>1
<1>4. DistinctActions(steps) = AtPositions(steps, N)
  BY DEF DistinctActions
<1>7. ASSUME NEW k \in 1..Len(steps) PROVE \E n \in N : steps[n] = steps[k]
  <2> DEFINE K == {n \in 1..Len(steps) : steps[n] = steps[k]}
             place == [n \in K |-> n]
  <2>1. \A n \in K : place[n] \in Nat /\ place[n] = n
    BY <1>1
  <2>2. K # {}
    OBVIOUS
  <2>3. PICK n \in K : \A m \in K : place[n] <= place[m]
    <3> HIDE DEF K, place
    <3> QED BY <2>1, <2>2, LeastOfSet
  <2>4. \A m \in 1..(n - 1) : steps[m] # steps[n]
    <3>1. SUFFICES ASSUME NEW m \in 1..(n - 1), steps[m] = steps[n] PROVE FALSE
      OBVIOUS
    <3>2. m \in K
      BY <1>1, <3>1
    <3> QED BY <2>1, <2>3, <3>1, <3>2
  <2> QED BY <1>1, <2>4
<1> HIDE DEF N
<1>5. IsFiniteSet(N) /\ N \subseteq Nat
  <2>1. N \in SUBSET (1..Len(steps)) /\ N \subseteq Nat
    BY <1>1, <1>3
  <2> QED BY <1>2, <2>1, FS_Subset
<1>6. \A n \in N : steps[n] \in X
  BY <1>1, <1>3
<1>8. DistinctActions(steps) \in Seq(X) /\ ToSet(DistinctActions(steps)) = {steps[n] : n \in N}
  BY <1>4, <1>5, <1>6, AtPositionsOf
<1>9. {steps[n] : n \in N} = ToSet(steps)
  BY <1>1, <1>3, <1>7 DEF ToSet
<1> QED BY <1>8, <1>9

(* What an entry of the target registry holds.                             *)
IsEntry(e) == /\ e.root \in {"none", "home", "config"} /\ e.mode \in {"owned-file", "managed-block"}
              /\ e.user \in Path /\ e.project \in Path /\ e.project # <<>>
RegistryEntry == {e \in ToSet(Registry) : IsEntry(e)}

(* An entry built from such values holds them.                             *)
LEMMA EntryTyped ==
    ASSUME NEW t, NEW a, NEW root \in {"none", "home", "config"},
           NEW user \in Path, NEW project \in Path, project # <<>>,
           NEW mode \in {"owned-file", "managed-block"}
    PROVE  IsEntry(Entry(t, a, root, user, project, mode))
BY DEF Entry, IsEntry

(* So does one with the same path in both scopes,                          *)
LEMMA AnywhereTyped ==
    ASSUME NEW t, NEW a, NEW suffix \in Path \ {<<>>}, NEW mode \in {"owned-file", "managed-block"}
    PROVE  IsEntry(Anywhere(t, a, suffix, mode))
BY DEF Anywhere, Entry, IsEntry

(* and one for projects only.                                              *)
LEMMA ProjectOnlyTyped ==
    ASSUME NEW t, NEW a, NEW suffix \in Path \ {<<>>}
    PROVE  IsEntry(ProjectOnly(t, a, suffix))
BY DEF ProjectOnly, Entry, IsEntry, Path

(* A Skill lies at a path.                                                 *)
LEMMA SkillTyped ==
    ASSUME NEW top \in Name
    PROVE  Skill(top) \in Path \ {<<>>}
BY DEF Skill, Path, Name

(* Every entry of the registry has a mode, a root and paths of names.      *)
LEMMA RegistryTyped == DOMAIN Registry = 1..19 /\ \A n \in 1..19 : IsEntry(Registry[n])
<1>1. DOMAIN Registry = 1..19
  BY DEF Registry
<1>2. AgentsFile \in Path \ {<<>>}
  BY DEF AgentsFile, Path, Name
<1>3. ASSUME NEW n \in 1..19 PROVE IsEntry(Registry[n])
  <2>1. IsEntry(Registry[1])
    <3>1. Registry[1] =
            Anywhere("claude", "router", <<".claude", "CLAUDE.md">>, "managed-block")
      BY DEF Registry
    <3>2. <<".claude", "CLAUDE.md">> \in Path \ {<<>>}
      BY DEF Path, Name
    <3> QED BY <3>1, <3>2, AnywhereTyped
  <2>2. IsEntry(Registry[2])
    <3>1. Registry[2] =
            Anywhere("claude", "native-entrypoint", Skill(".claude"), "owned-file")
      BY DEF Registry
    <3>2. ".claude" \in Name
      BY DEF Name
    <3> QED BY <3>1, <3>2, SkillTyped, AnywhereTyped
  <2>3. IsEntry(Registry[3])
    <3>1. Registry[3] =
            Entry("codex", "router", "home", <<".codex", "AGENTS.md">>, AgentsFile, "managed-block")
      BY DEF Registry
    <3>2. <<".codex", "AGENTS.md">> \in Path \ {<<>>}
      BY DEF Path, Name
    <3> QED BY <3>1, <3>2, <1>2, EntryTyped
  <2>4. IsEntry(Registry[4])
    <3>1. Registry[4] =
            Anywhere("codex", "native-entrypoint", Skill(".agents"), "owned-file")
      BY DEF Registry
    <3>2. ".agents" \in Name
      BY DEF Name
    <3> QED BY <3>1, <3>2, SkillTyped, AnywhereTyped
  <2>5. IsEntry(Registry[5])
    <3>1. Registry[5] =
            Anywhere("codex", "native-policy", <<".agents", "skills", "oaw", "agents", "openai.yaml">>, "owned-file")
      BY DEF Registry
    <3>2. <<".agents", "skills", "oaw", "agents", "openai.yaml">> \in Path \ {<<>>}
      BY DEF Path, Name
    <3> QED BY <3>1, <3>2, AnywhereTyped
  <2>6. IsEntry(Registry[6])
    <3>1. Registry[6] =
            Entry("gemini", "router", "home", <<".gemini", "GEMINI.md">>, <<"GEMINI.md">>, "managed-block")
      BY DEF Registry
    <3>2. <<".gemini", "GEMINI.md">> \in Path \ {<<>>}
      BY DEF Path, Name
    <3>3. <<"GEMINI.md">> \in Path \ {<<>>}
      BY DEF Path, Name
    <3> QED BY <3>1, <3>2, <3>3, EntryTyped
  <2>7. IsEntry(Registry[7])
    <3>1. Registry[7] =
            Anywhere("gemini", "native-entrypoint", <<".gemini", "commands", "oaw.toml">>, "owned-file")
      BY DEF Registry
    <3>2. <<".gemini", "commands", "oaw.toml">> \in Path \ {<<>>}
      BY DEF Path, Name
    <3> QED BY <3>1, <3>2, AnywhereTyped
  <2>8. IsEntry(Registry[8])
    <3>1. Registry[8] =
            Entry("opencode", "router", "config", <<"opencode", "AGENTS.md">>, AgentsFile, "managed-block")
      BY DEF Registry
    <3>2. <<"opencode", "AGENTS.md">> \in Path \ {<<>>}
      BY DEF Path, Name
    <3> QED BY <3>1, <3>2, <1>2, EntryTyped
  <2>9. IsEntry(Registry[9])
    <3>1. Registry[9] =
            Entry("opencode", "native-entrypoint", "config", <<"opencode", "commands", "oaw.md">>, <<".opencode", "commands", "oaw.md">>, "owned-file")
      BY DEF Registry
    <3>2. <<"opencode", "commands", "oaw.md">> \in Path \ {<<>>}
      BY DEF Path, Name
    <3>3. <<".opencode", "commands", "oaw.md">> \in Path \ {<<>>}
      BY DEF Path, Name
    <3> QED BY <3>1, <3>2, <3>3, EntryTyped
  <2>10. IsEntry(Registry[10])
    <3>1. Registry[10] =
            ProjectOnly("cursor", "router", <<".cursor", "rules", "open-agent-workflow.mdc">>)
      BY DEF Registry
    <3>2. <<".cursor", "rules", "open-agent-workflow.mdc">> \in Path \ {<<>>}
      BY DEF Path, Name
    <3> QED BY <3>1, <3>2, ProjectOnlyTyped
  <2>11. IsEntry(Registry[11])
    <3>1. Registry[11] =
            ProjectOnly("cursor", "native-entrypoint", Skill(".cursor"))
      BY DEF Registry
    <3>2. ".cursor" \in Name
      BY DEF Name
    <3> QED BY <3>1, <3>2, SkillTyped, ProjectOnlyTyped
  <2>12. IsEntry(Registry[12])
    <3>1. Registry[12] =
            ProjectOnly("windsurf", "router", <<".devin", "rules", "open-agent-workflow.md">>)
      BY DEF Registry
    <3>2. <<".devin", "rules", "open-agent-workflow.md">> \in Path \ {<<>>}
      BY DEF Path, Name
    <3> QED BY <3>1, <3>2, ProjectOnlyTyped
  <2>13. IsEntry(Registry[13])
    <3>1. Registry[13] =
            ProjectOnly("windsurf", "native-entrypoint", <<".windsurf", "workflows", "oaw.md">>)
      BY DEF Registry
    <3>2. <<".windsurf", "workflows", "oaw.md">> \in Path \ {<<>>}
      BY DEF Path, Name
    <3> QED BY <3>1, <3>2, ProjectOnlyTyped
  <2>14. IsEntry(Registry[14])
    <3>1. Registry[14] =
            ProjectOnly("cline", "router", <<".clinerules", "open-agent-workflow.md">>)
      BY DEF Registry
    <3>2. <<".clinerules", "open-agent-workflow.md">> \in Path \ {<<>>}
      BY DEF Path, Name
    <3> QED BY <3>1, <3>2, ProjectOnlyTyped
  <2>15. IsEntry(Registry[15])
    <3>1. Registry[15] =
            ProjectOnly("cline", "native-entrypoint", Skill(".cline"))
      BY DEF Registry
    <3>2. ".cline" \in Name
      BY DEF Name
    <3> QED BY <3>1, <3>2, SkillTyped, ProjectOnlyTyped
  <2>16. IsEntry(Registry[16])
    <3>1. Registry[16] =
            ProjectOnly("roo", "router", <<".roo", "rules", "open-agent-workflow.md">>)
      BY DEF Registry
    <3>2. <<".roo", "rules", "open-agent-workflow.md">> \in Path \ {<<>>}
      BY DEF Path, Name
    <3> QED BY <3>1, <3>2, ProjectOnlyTyped
  <2>17. IsEntry(Registry[17])
    <3>1. Registry[17] =
            ProjectOnly("roo", "native-entrypoint", <<".roo", "commands", "oaw.md">>)
      BY DEF Registry
    <3>2. <<".roo", "commands", "oaw.md">> \in Path \ {<<>>}
      BY DEF Path, Name
    <3> QED BY <3>1, <3>2, ProjectOnlyTyped
  <2>18. IsEntry(Registry[18])
    <3>1. Registry[18] =
            ProjectOnly("copilot", "router", <<".github", "instructions", "open-agent-workflow.instructions.md">>)
      BY DEF Registry
    <3>2. <<".github", "instructions", "open-agent-workflow.instructions.md">> \in Path \ {<<>>}
      BY DEF Path, Name
    <3> QED BY <3>1, <3>2, ProjectOnlyTyped
  <2>19. IsEntry(Registry[19])
    <3>1. Registry[19] =
            ProjectOnly("copilot", "native-entrypoint", Skill(".github"))
      BY DEF Registry
    <3>2. ".github" \in Name
      BY DEF Name
    <3> QED BY <3>1, <3>2, SkillTyped, ProjectOnlyTyped
  <2> QED BY <2>1, <2>2, <2>3, <2>4, <2>5, <2>6, <2>7, <2>8, <2>9, <2>10, <2>11, <2>12, <2>13, <2>14, <2>15, <2>16, <2>17, <2>18, <2>19
<1> QED BY <1>1, <1>3

(* targetArtifacts gives entries of the registry: those of the targets.    *)
LEMMA ArtifactsTyped ==
    ASSUME NEW i, NEW T
    PROVE  /\ TargetArtifacts(i, T) \in Seq(RegistryEntry)
           /\ ToSet(TargetArtifacts(i, T)) = ArtifactsOf(T)
<1> DEFINE N == {n \in InPlay : Registry[n].target \in T}
<1>1. \A n \in 1..19 : Registry[n] \in RegistryEntry
  BY RegistryTyped DEF RegistryEntry, ToSet
<1>2. IsFiniteSet(1..19)
  <2>1. 1 \in Int /\ 19 \in Int
    OBVIOUS
  <2> QED BY <2>1, FS_Interval
<1>3. N \subseteq 1..19
  BY RegistryTyped DEF InPlay
<1>4. TargetArtifacts(i, T) = AtPositions(Registry, N)
  BY DEF TargetArtifacts
<1> HIDE DEF N
<1>5. IsFiniteSet(N) /\ N \subseteq Nat
  <2>1. N \in SUBSET (1..19) /\ N \subseteq Nat
    BY <1>3
  <2> QED BY <1>2, <2>1, FS_Subset
<1>6. \A n \in N : Registry[n] \in RegistryEntry
  BY <1>1, <1>3
<1>7. TargetArtifacts(i, T) \in Seq(RegistryEntry) /\ ToSet(TargetArtifacts(i, T)) = {Registry[n] : n \in N}
  <2>1. /\ AtPositions(Registry, N) \in Seq(RegistryEntry)
        /\ ToSet(AtPositions(Registry, N)) = {Registry[n] : n \in N}
    BY <1>5, <1>6, AtPositionsOf
  <2> QED BY <1>4, <2>1
<1> QED BY <1>7 DEF N, ArtifactsOf

-----------------------------------------------------------------------------
(* The image of a finite set is finite.                                    *)
LEMMA FiniteImage ==
    ASSUME NEW S, IsFiniteSet(S), NEW f, DOMAIN f = S, f = [x \in S |-> f[x]]
    PROVE  IsFiniteSet({f[x] : x \in S})
<1> DEFINE T == {f[x] : x \in S}
<1>1. f \in Surjection(S, T)
  BY DEF Surjection
<1> HIDE DEF T
<1> QED BY <1>1, FS_Surjection DEF T

(* The directories above a path are finitely many, below its root, and     *)
(* above it.                                                               *)
LEMMA ParentsOf ==
    ASSUME NEW p \in Path
    PROVE  /\ IsFiniteSet(Parents(p)) /\ Parents(p) \subseteq Path
           /\ \A d \in Parents(p) : Len(d) >= 2 /\ d[1] = p[1] /\ Below(d, p)
<1> DEFINE N == 2..(Len(p) - 1)
           f == [n \in N |-> SubSeq(p, 1, n)]
<1>1. Len(p) \in Nat /\ p \in Seq(Name)
  BY DEF Path
<1>2. IsFiniteSet(N)
  <2>1. 2 \in Int /\ Len(p) - 1 \in Int
    BY <1>1
  <2> QED BY <2>1, FS_Interval
<1>3. Parents(p) = {f[n] : n \in N}
  BY DEF Parents
<1>4. IsFiniteSet(Parents(p))
  <2>1. DOMAIN f = N /\ f = [n \in N |-> f[n]]
    OBVIOUS
  <2> HIDE DEF f, N
  <2> QED BY <1>2, <1>3, <2>1, FiniteImage
<1>5. ASSUME NEW n \in N
      PROVE  /\ SubSeq(p, 1, n) \in Path /\ Len(SubSeq(p, 1, n)) = n
             /\ SubSeq(p, 1, n)[1] = p[1] /\ Below(SubSeq(p, 1, n), p)
  <2>1. n \in 1..Len(p) /\ n >= 2 /\ n # Len(p)
    BY <1>1
  <2>2. SubSeq(p, 1, n) \in Seq(Name) /\ Len(SubSeq(p, 1, n)) = n
    BY <1>1, <2>1
  <2>3. SubSeq(SubSeq(p, 1, n), 1, n) = SubSeq(p, 1, n)
    BY <1>1, <2>1, <2>2
  <2>4. SubSeq(p, 1, n)[1] = p[1]
    BY <1>1, <2>1
  <2> QED BY <1>1, <2>1, <2>2, <2>3, <2>4 DEF Path, Below, IsStrictPrefix, IsPrefix
<1>6. \A d \in Parents(p) : \E n \in N : d = SubSeq(p, 1, n)
  BY DEF Parents
<1> HIDE DEF N
<1>7. ASSUME NEW d \in Parents(p) PROVE d \in Path /\ d[1] = p[1] /\ Below(d, p) /\ Len(d) \in N
  <2>1. PICK n \in N : d = SubSeq(p, 1, n)
    BY <1>6
  <2>2. /\ SubSeq(p, 1, n) \in Path /\ Len(SubSeq(p, 1, n)) = n
        /\ SubSeq(p, 1, n)[1] = p[1] /\ Below(SubSeq(p, 1, n), p)
    BY <1>5
  <2> QED BY <2>1, <2>2
<1>8. \A d \in Parents(p) : Len(d) >= 2
  BY <1>1, <1>7 DEF N
<1> QED BY <1>4, <1>7, <1>8

(* Planned directories above p that no step has made; the plan after n     *)
(* steps.                                                                  *)
Unmade(done, p, planned) == {d \in Parents(p) \intersect planned : Mkdir(d) \notin ToSet(done)}
Making(steps, planned) == CHOOSE m : m = [n \in 0..Len(steps) |->
    IF n = 0 THEN <<>> ELSE m[n - 1] \o MakeDirectories(Unmade(m[n - 1], steps[n].path, planned)) \o <<steps[n]>>]

(* MakingDirectories puts before each step the planned directories it      *)
(* needs.                                                                  *)
LEMMA MakingSteps ==
    ASSUME NEW steps, Len(steps) \in Nat, NEW planned
    PROVE  /\ MakingDirectories(steps, planned) = Making(steps, planned)[Len(steps)]
           /\ Making(steps, planned)[0] = <<>>
           /\ \A n \in 1..Len(steps) :
                 LET done == Making(steps, planned)[n - 1]
                 IN Making(steps, planned)[n] =
                       done \o MakeDirectories(Unmade(done, steps[n].path, planned)) \o <<steps[n]>>
<1> DEFINE More(done, n) == done \o MakeDirectories(Unmade(done, steps[n].path, planned)) \o <<steps[n]>>
           N == Len(steps)
           G == {k \in Nat : \E g : g = [n \in 0..k |-> IF n = 0 THEN <<>> ELSE More(g[n - 1], n)]}
<1> HIDE DEF More
<1>1. 0 \in G
  <2> DEFINE g == [n \in 0..0 |-> <<>>]
  <2>1. g = [n \in 0..0 |-> IF n = 0 THEN <<>> ELSE More(g[n - 1], n)]
    OBVIOUS
  <2> QED BY <2>1
<1>2. ASSUME NEW k \in Nat, k \in G PROVE k + 1 \in G
  <2>1. PICK g : g = [n \in 0..k |-> IF n = 0 THEN <<>> ELSE More(g[n - 1], n)]
    BY <1>2
  <2> DEFINE h == [n \in 0..(k + 1) |-> IF n = k + 1 THEN More(g[k], k + 1) ELSE g[n]]
  <2>2. ASSUME NEW n \in 0..(k + 1)
        PROVE  h[n] = IF n = 0 THEN <<>> ELSE More(h[n - 1], n)
    <3>1. CASE n = 0 BY <2>1, <3>1
    <3>2. CASE n = k + 1 BY <3>2
    <3>3. CASE n \in 1..k
      <4>1. n \in 0..k /\ n - 1 \in 0..(k + 1) /\ n - 1 # k + 1 /\ n # k + 1 /\ n # 0 BY <3>3
      <4>2. h[n] = g[n] /\ h[n - 1] = g[n - 1] BY <4>1
      <4>3. g[n] = More(g[n - 1], n) BY <2>1, <4>1
      <4> QED BY <4>1, <4>2, <4>3
    <3> QED BY <3>1, <3>2, <3>3
  <2>3. \E f : f = [n \in 0..(k + 1) |-> IF n = 0 THEN <<>> ELSE More(f[n - 1], n)]
    <3>1. h = [n \in 0..(k + 1) |-> IF n = 0 THEN <<>> ELSE More(h[n - 1], n)]
      BY <2>2
    <3> HIDE DEF h
    <3> WITNESS h
    <3> QED BY <3>1
  <2>4. k + 1 \in Nat
    OBVIOUS
  <2> QED BY <2>3, <2>4, Zenon
<1>4. N \in G
  <2> HIDE DEF G, N
  <2> QED BY <1>1, <1>2, SetInduction DEF N
<1> DEFINE M == Making(steps, planned)
<1>5. M = CHOOSE g : g = [n \in 0..N |-> IF n = 0 THEN <<>> ELSE More(g[n - 1], n)]
  BY DEF Making, More
<1>6. M = [n \in 0..N |-> IF n = 0 THEN <<>> ELSE More(M[n - 1], n)]
  <2> HIDE DEF M
  <2> QED BY <1>4, <1>5
<1>7. MakingDirectories(steps, planned) = M[N]
  BY DEF MakingDirectories, Making, Unmade
<1> HIDE DEF M
<1>8. M[0] = <<>>
  BY <1>6
<1>9. ASSUME NEW n \in 1..N PROVE M[n] = More(M[n - 1], n)
  <2>1. n \in 0..N /\ n # 0
    OBVIOUS
  <2> QED BY <1>6, <2>1
<1> QED BY <1>7, <1>8, <1>9 DEF More, M

(* What is put before a step are planned directories, and all of those     *)
(* above its path.                                                         *)
LEMMA MakeDirectoriesOf ==
    ASSUME NEW p \in Path, NEW done, NEW planned
    PROVE  LET made == MakeDirectories(Unmade(done, p, planned))
           IN /\ made \in Seq({Mkdir(d) : d \in Parents(p) \intersect planned})
              /\ \A d \in Parents(p) \intersect planned : Mkdir(d) \in ToSet(done) \union ToSet(made)
<1> DEFINE D == Unmade(done, p, planned)
           ds == ByDepth(D)
<1>1. D \subseteq Parents(p) /\ D \subseteq planned
  BY DEF Unmade
<1>2. IsFiniteSet(D) /\ D \subseteq Path
  BY <1>1, ParentsOf, FS_Subset
<1>3. ds \in Seq(D) /\ ToSet(ds) = D
  <2> HIDE DEF D
  <2> QED BY <1>2, ByDepthOf
<1>4. MakeDirectories(D) = [n \in DOMAIN ds |-> Mkdir(ds[n])]
  BY DEF MakeDirectories
<1>5. DOMAIN ds = 1..Len(ds) /\ Len(ds) \in Nat /\ \A n \in 1..Len(ds) : ds[n] \in D
  <2> HIDE DEF D, ds
  <2> QED BY <1>3
<1>6. MakeDirectories(D) \in Seq({Mkdir(d) : d \in Parents(p) \intersect planned})
  <2> DEFINE Element(n) == Mkdir(ds[n])
             X == {Mkdir(d) : d \in Parents(p) \intersect planned}
  <2>1. \A n \in 1..Len(ds) : Element(n) \in X
    BY <1>1, <1>5
  <2>2. MakeDirectories(D) = [n \in 1..Len(ds) |-> Element(n)]
    BY <1>4, <1>5
  <2> HIDE DEF Element, X, ds
  <2>3. MakeDirectories(D) \in Seq(X)
    BY <1>5, <2>1, <2>2
  <2> QED BY <2>3 DEF X
<1>7. ASSUME NEW d \in Parents(p) \intersect planned, Mkdir(d) \notin ToSet(done)
      PROVE  Mkdir(d) \in ToSet(MakeDirectories(D))
  <2>1. d \in D
    BY <1>7 DEF Unmade
  <2>2. PICK n \in DOMAIN ds : ds[n] = d
    <3> HIDE DEF D, ds
    <3> QED BY <1>3, <2>1 DEF ToSet
  <2> HIDE DEF D, ds
  <2> QED BY <1>4, <2>2 DEF ToSet
<1> QED BY <1>6, <1>7

(* Sequences can be joined from either end.                                *)
LEMMA JoinedTwice ==
    ASSUME NEW A, NEW a \in Seq(A), NEW b \in Seq(A), NEW c \in Seq(A)
    PROVE  a \o b \in Seq(A) /\ (a \o b) \o c = a \o (b \o c)
OBVIOUS

(* Two sequences, one after the other, have the members of both.           *)
LEMMA JoinedSet ==
    ASSUME NEW A, NEW s \in Seq(A), NEW u \in Seq(A)
    PROVE  s \o u \in Seq(A) /\ ToSet(s \o u) = ToSet(s) \union ToSet(u)
<1>1. /\ s \o u \in Seq(A) /\ Len(s \o u) = Len(s) + Len(u)
      /\ \A n \in 1..Len(s) : (s \o u)[n] = s[n]
      /\ \A n \in 1..Len(u) : (s \o u)[Len(s) + n] = u[n]
  OBVIOUS
<1>2. /\ ToSet(s \o u) = {(s \o u)[n] : n \in 1..Len(s \o u)}
      /\ ToSet(s) = {s[n] : n \in 1..Len(s)} /\ ToSet(u) = {u[n] : n \in 1..Len(u)}
  BY <1>1 DEF ToSet
<1>3. ASSUME NEW n \in 1..(Len(s) + Len(u)) PROVE (s \o u)[n] \in ToSet(s) \union ToSet(u)
  <2>1. CASE n <= Len(s)
    BY <1>1, <1>2, <2>1
  <2>2. CASE n > Len(s)
    <3>1. n - Len(s) \in 1..Len(u) /\ Len(s) + (n - Len(s)) = n
      BY <2>2
    <3> QED BY <1>1, <1>2, <3>1
  <2> QED BY <2>1, <2>2
<1>4. ASSUME NEW n \in 1..Len(s) PROVE s[n] \in ToSet(s \o u)
  BY <1>1, <1>2
<1>5. ASSUME NEW n \in 1..Len(u) PROVE u[n] \in ToSet(s \o u)
  <2>1. Len(s) + n \in 1..Len(s \o u)
    BY <1>1
  <2> QED BY <1>1, <1>2, <2>1
<1>6. ToSet(s \o u) \subseteq ToSet(s) \union ToSet(u)
  BY <1>1, <1>2, <1>3
<1>7. ToSet(s) \subseteq ToSet(s \o u)
  BY <1>2, <1>4
<1>8. ToSet(u) \subseteq ToSet(s \o u)
  BY <1>2, <1>5
<1> QED BY <1>1, <1>6, <1>7, <1>8

(* The plan has its steps and planned directories above them, each step    *)
(* and all those directories; and the last step comes last, after every    *)
(* planned directory above its path.                                       *)
LEMMA MakingDirectoriesOf ==
    ASSUME NEW X, NEW steps \in Seq(X), \A x \in X : x.path \in Path, NEW planned
    PROVE  /\ MakingDirectories(steps, planned) \in Seq(X \union {Mkdir(d) : d \in planned})
           /\ MakingDirectories(steps, planned)
                 \in Seq(X \union {Mkdir(d) : d \in planned \intersect UNION {Parents(x.path) : x \in X}})
           /\ \A n \in DOMAIN steps :
                 /\ steps[n] \in ToSet(MakingDirectories(steps, planned))
                 /\ \A d \in Parents(steps[n].path) \intersect planned :
                       Mkdir(d) \in ToSet(MakingDirectories(steps, planned))
           /\ Len(steps) > 0 =>
                 \E front \in Seq({steps[n] : n \in 1..(Len(steps) - 1)} \union {Mkdir(d) : d \in planned}) :
                    /\ MakingDirectories(steps, planned) = front \o <<steps[Len(steps)]>>
                    /\ \A d \in Parents(steps[Len(steps)].path) \intersect planned : Mkdir(d) \in ToSet(front)
<1> DEFINE M == Making(steps, planned)
           N == Len(steps)
           Above == {Mkdir(d) : d \in planned \intersect UNION {Parents(x.path) : x \in X}}
           Made == {Mkdir(d) : d \in planned}
           Upto(k) == {steps[n] : n \in 1..k}
           Holds(S, n) == /\ steps[n] \in S
                          /\ \A d \in Parents(steps[n].path) \intersect planned : Mkdir(d) \in S
           G == {k \in Nat : k <= N => /\ M[k] \in Seq(Upto(k) \union Above)
                                      /\ \A n \in 1..k : Holds(ToSet(M[k]), n)}
           Between(k) == MakeDirectories(Unmade(M[k - 1], steps[k].path, planned))
<1>1. N \in Nat /\ \A n \in 1..N : steps[n] \in X /\ steps[n].path \in Path
  OBVIOUS
<1>2. /\ MakingDirectories(steps, planned) = M[N]
      /\ M[0] = <<>>
      /\ \A n \in 1..N : M[n] = M[n - 1] \o Between(n) \o <<steps[n]>>
  <2> HIDE DEF N
  <2> QED BY <1>1, MakingSteps DEF N
<1>3. \A k \in 1..N : /\ Between(k) \in Seq(Above)
                      /\ \A d \in Parents(steps[k].path) \intersect planned : Mkdir(d) \in ToSet(M[k - 1]) \union ToSet(Between(k))
  <2>1. SUFFICES ASSUME NEW k \in 1..N
                 PROVE  /\ Between(k) \in Seq(Above)
                        /\ \A d \in Parents(steps[k].path) \intersect planned : Mkdir(d) \in ToSet(M[k - 1]) \union ToSet(Between(k))
    OBVIOUS
  <2>2. /\ Between(k) \in Seq({Mkdir(d) : d \in Parents(steps[k].path) \intersect planned})
        /\ \A d \in Parents(steps[k].path) \intersect planned : Mkdir(d) \in ToSet(M[k - 1]) \union ToSet(Between(k))
    BY <1>1, MakeDirectoriesOf
  <2>3. {Mkdir(d) : d \in Parents(steps[k].path) \intersect planned} \subseteq Above
    BY <1>1
  <2> HIDE DEF Between, Above, M
  <2> QED BY <2>2, <2>3
<1>9. Above \subseteq Made
  OBVIOUS
<1> HIDE DEF M, N, Made, Above, Between, Holds
<1>4. 0 \in G
  <2>1. <<>> \in Seq(Upto(0) \union Above) /\ 1..0 = {}
    OBVIOUS
  <2>2. M[0] \in Seq(Upto(0) \union Above) /\ \A n \in 1..0 : Holds(ToSet(M[0]), n)
    BY <1>2, <2>1
  <2> QED BY <2>2
<1>5. ASSUME NEW k \in Nat, k \in G PROVE k + 1 \in G
  <2>1. SUFFICES ASSUME k + 1 <= N
                 PROVE  M[k + 1] \in Seq(Upto(k + 1) \union Above) /\ \A n \in 1..(k + 1) : Holds(ToSet(M[k + 1]), n)
    OBVIOUS
  <2> DEFINE Y == Upto(k + 1) \union Above
  <2>2. k + 1 \in 1..N /\ k + 1 - 1 = k /\ k <= N
    BY <1>1, <2>1
  <2>3. M[k] \in Seq(Upto(k) \union Above) /\ Upto(k) \subseteq Upto(k + 1) /\ \A n \in 1..k : Holds(ToSet(M[k]), n)
    BY <1>5, <2>2
  <2>4. M[k] \in Seq(Y)
    BY <2>3
  <2>5. Between(k + 1) \in Seq(Y)
    BY <1>3, <2>2
  <2>6. steps[k + 1] \in Y
    OBVIOUS
  <2>7. M[k + 1] = M[k] \o Between(k + 1) \o <<steps[k + 1]>>
    <3>1. PICK n \in 1..N : n = k + 1
      BY <2>2
    <3>2. M[n] = M[n - 1] \o Between(n) \o <<steps[n]>>
      BY <1>2
    <3>3. n - 1 = k
      BY <3>1
    <3> QED BY <3>1, <3>2, <3>3
  <2> HIDE DEF Y
  <2>8. /\ M[k] \o Between(k + 1) \in Seq(Y) /\ <<steps[k + 1]>> \in Seq(Y)
        /\ ToSet(M[k] \o Between(k + 1)) = ToSet(M[k]) \union ToSet(Between(k + 1))
    BY <2>4, <2>5, <2>6, JoinedSet
  <2>9. /\ M[k + 1] \in Seq(Y)
        /\ ToSet(M[k + 1]) = ToSet(M[k]) \union ToSet(Between(k + 1)) \union ToSet(<<steps[k + 1]>>)
    <3> DEFINE a == M[k] \o Between(k + 1)
               b == <<steps[k + 1]>>
    <3>1. a \in Seq(Y) /\ b \in Seq(Y) /\ M[k + 1] = a \o b
      BY <2>7, <2>8
    <3> HIDE DEF a, b
    <3>2. M[k + 1] \in Seq(Y) /\ ToSet(M[k + 1]) = ToSet(a) \union ToSet(b)
      BY <3>1, JoinedSet
    <3> QED BY <2>8, <3>2 DEF a, b
  <2>10. steps[k + 1] \in ToSet(<<steps[k + 1]>>)
    <3>1. 1 \in DOMAIN <<steps[k + 1]>> /\ <<steps[k + 1]>>[1] = steps[k + 1]
      OBVIOUS
    <3> QED BY <3>1 DEF ToSet
  <2>11. Holds(ToSet(M[k + 1]), k + 1)
    <3>1. \A d \in Parents(steps[k + 1].path) \intersect planned : Mkdir(d) \in ToSet(M[k]) \union ToSet(Between(k + 1))
      BY <1>3, <2>2
    <3> QED BY <2>9, <2>10, <3>1 DEF Holds
  <2>12. ASSUME NEW n \in 1..k PROVE Holds(ToSet(M[k + 1]), n)
    BY <2>3, <2>9 DEF Holds
  <2>13. \A n \in 1..(k + 1) : n = k + 1 \/ n \in 1..k
    OBVIOUS
  <2>14. \A n \in 1..(k + 1) : Holds(ToSet(M[k + 1]), n)
    BY <2>11, <2>12, <2>13
  <2> QED BY <2>9, <2>14 DEF Y
<1>6. \A k \in Nat : k \in G
  <2> HIDE DEF G
  <2> QED BY <1>4, <1>5, SetInduction
<1>7. M[N] \in Seq(X \union Above) /\ M[N] \in Seq(X \union Made) /\ \A n \in 1..N : Holds(ToSet(M[N]), n)
  <2>1. M[N] \in Seq(Upto(N) \union Above) /\ \A n \in 1..N : Holds(ToSet(M[N]), n)
    <3>1. N \in G /\ N <= N
      <4> HIDE DEF G
      <4> QED BY <1>1, <1>6
    <3> QED BY <3>1
  <2>2. Upto(N) \subseteq X
    BY <1>1
  <2> QED BY <1>9, <2>1, <2>2
<1>8. ASSUME N > 0
      PROVE  \E front \in Seq(Upto(N - 1) \union Made) :
                /\ M[N] = front \o <<steps[N]>>
                /\ \A d \in Parents(steps[N].path) \intersect planned : Mkdir(d) \in ToSet(front)
  <2> DEFINE Y == Upto(N - 1) \union Made
             front == M[N - 1] \o Between(N)
  <2>1. N \in 1..N /\ N - 1 \in Nat /\ N - 1 <= N
    BY <1>1, <1>8
  <2>2. M[N - 1] \in Seq(Y)
    <3>1. M[N - 1] \in Seq(Upto(N - 1) \union Above)
      <4>1. N - 1 \in G
        <5> HIDE DEF G
        <5> QED BY <1>6, <2>1
      <4> QED BY <2>1, <4>1
    <3> QED BY <1>9, <3>1
  <2>3. Between(N) \in Seq(Y)
    BY <1>3, <1>9, <2>1
  <2> HIDE DEF Y
  <2>4. front \in Seq(Y) /\ ToSet(front) = ToSet(M[N - 1]) \union ToSet(Between(N))
    BY <2>2, <2>3, JoinedSet
  <2>5. M[N] = front \o <<steps[N]>>
    BY <1>2, <2>1
  <2>6. \A d \in Parents(steps[N].path) \intersect planned : Mkdir(d) \in ToSet(front)
    BY <1>3, <2>1, <2>4
  <2> HIDE DEF front
  <2> QED BY <2>4, <2>5, <2>6 DEF Y
<1>10. \A n \in DOMAIN steps : n \in 1..N
  BY DEF N
<1> QED BY <1>2, <1>7, <1>8, <1>10 DEF N, Made, Above, Holds

(* What lies above a directory above a path lies above the path.           *)
LEMMA ParentsNested ==
    ASSUME NEW p \in Path, NEW d \in Parents(p)
    PROVE  /\ Parents(d) \subseteq Parents(p)
           /\ \A e \in Parents(d) : Len(e) < Len(d)
<1>1. PICK n \in 2..(Len(p) - 1) : d = SubSeq(p, 1, n)
  BY DEF Parents
<1>2. Len(d) = n /\ \A k \in 1..n : d[k] = p[k]
  BY <1>1 DEF Path
<1>3. ASSUME NEW e \in Parents(d) PROVE e \in Parents(p) /\ Len(e) < Len(d)
  <2>1. PICK k \in 2..(Len(d) - 1) : e = SubSeq(d, 1, k)
    BY <1>3 DEF Parents
  <2>2. k \in 2..(Len(p) - 1) /\ k < n
    BY <1>2, <2>1 DEF Path
  <2>3. e = SubSeq(p, 1, k)
    BY <1>1, <1>2, <2>1, <2>2 DEF Path
  <2>4. Len(e) = k
    BY <2>2, <2>3 DEF Path
  <2> QED BY <1>2, <2>2, <2>3, <2>4 DEF Parents
<1> QED BY <1>3

(* The one right above a path is among those above it, and the others lie   *)
(* above that one.                                                         *)
LEMMA FrontParent ==
    ASSUME NEW p \in Path, Len(p) > 2
    PROVE  Front(p) \in Parents(p) /\ Parents(p) = Parents(Front(p)) \union {Front(p)}
<1>1. Front(p) = SubSeq(p, 1, Len(p) - 1) /\ Len(p) \in Nat
  BY DEF Front, Path
<1>2. Front(p) \in Parents(p)
  BY <1>1 DEF Parents
<1>3. Len(Front(p)) = Len(p) - 1 /\ \A k \in 1..(Len(p) - 1) : Front(p)[k] = p[k]
  BY <1>1 DEF Path
<1>4. ASSUME NEW d \in Parents(p), d # Front(p) PROVE d \in Parents(Front(p))
  <2>1. PICK n \in 2..(Len(p) - 1) : d = SubSeq(p, 1, n)
    BY <1>4 DEF Parents
  <2>2. n \in 2..(Len(p) - 2)
    BY <1>1, <1>4, <2>1
  <2>3. d = SubSeq(Front(p), 1, n)
    BY <1>1, <1>3, <2>1, <2>2 DEF Path
  <2> QED BY <1>1, <1>3, <2>2, <2>3 DEF Parents
<1> QED BY <1>2, <1>4, ParentsNested

(* Ordered lists no member of a greater rank before one of a lesser.       *)
LEMMA OrderedSorted ==
    ASSUME NEW S, IsFiniteSet(S), NEW rank, \A x \in S : rank[x] \in Nat
    PROVE  LET s == Ordered(S, rank)
           IN \A n \in DOMAIN s : \A m \in 1..n : rank[s[m]] <= rank[s[n]]
<1> DEFINE l == Listing(S, rank)
           N == Cardinality(S)
           Sorted(s) == \A n \in 1..Len(s) : \A m \in 1..n : rank[s[m]] <= rank[s[n]]
           G == {n \in Nat : n <= N =>
                    /\ l[n] \in Seq(S) /\ Sorted(l[n])
                    /\ IsFiniteSet(ToSet(l[n])) /\ Cardinality(ToSet(l[n])) = n
                    /\ \A k \in 1..Len(l[n]) : \A y \in S \ ToSet(l[n]) : rank[l[n][k]] <= rank[y]}
<1>1. N \in Nat
  BY FS_CardinalityType
<1>2. 0 \in G
  <2>1. l[0] = <<>> BY ListingSteps
  <2>2. ToSet(<<>>) = {} BY DEF ToSet
  <2>3. <<>> \in Seq(S) /\ IsFiniteSet({}) /\ Cardinality({}) = 0 /\ Len(<<>>) = 0 BY FS_EmptySet
  <2>4. 1..0 = {}
    OBVIOUS
  <2> HIDE DEF l
  <2>5. Sorted(l[0]) /\ Len(l[0]) = 0
    BY <2>1, <2>3, <2>4
  <2> HIDE DEF Sorted
  <2> QED BY <2>1, <2>2, <2>3, <2>4, <2>5
<1>3. ASSUME NEW n \in Nat, n \in G PROVE n + 1 \in G
  <2> DEFINE done == l[n]
             rest == S \ ToSet(done)
             x == CHOOSE z \in rest : \A y \in rest : rank[z] <= rank[y]
             new == Append(done, x)
  <2>1. SUFFICES ASSUME n + 1 <= N
        PROVE  /\ l[n + 1] \in Seq(S) /\ Sorted(l[n + 1])
               /\ IsFiniteSet(ToSet(l[n + 1])) /\ Cardinality(ToSet(l[n + 1])) = n + 1
               /\ \A k \in 1..Len(l[n + 1]) : \A y \in S \ ToSet(l[n + 1]) : rank[l[n + 1][k]] <= rank[y]
    OBVIOUS
  <2>2. /\ done \in Seq(S) /\ Sorted(done) /\ IsFiniteSet(ToSet(done)) /\ Cardinality(ToSet(done)) = n
        /\ \A k \in 1..Len(done) : \A y \in rest : rank[done[k]] <= rank[y]
    BY <1>1, <1>3, <2>1
  <2>3. n + 1 \in 1..N /\ n + 1 - 1 = n
    BY <1>1, <2>1
  <2>4. l[n + 1] = new
    <3> HIDE DEF N, l
    <3>1. l[n + 1] = Append(l[n + 1 - 1], CHOOSE z \in S \ ToSet(l[n + 1 - 1]) :
                                                \A y \in S \ ToSet(l[n + 1 - 1]) : rank[z] <= rank[y])
      <4>1. \A m \in 1..N : l[m] = Append(l[m - 1], CHOOSE z \in S \ ToSet(l[m - 1]) :
                                                \A y \in S \ ToSet(l[m - 1]) : rank[z] <= rank[y])
        BY ListingSteps DEF l, N
      <4> QED BY <2>3, <4>1
    <3> QED BY <2>3, <3>1
  <2>5. rest # {}
    <3>1. SUFFICES ASSUME rest = {} PROVE FALSE
      OBVIOUS
    <3>2. ToSet(done) \subseteq S
      BY <2>2 DEF ToSet
    <3>3. ToSet(done) = S
      BY <3>1, <3>2
    <3>4. N = n
      BY <2>2, <3>3
    <3> QED BY <1>1, <2>1, <3>4
  <2>6. x \in rest /\ \A y \in rest : rank[x] <= rank[y]
    <3>1. \E y \in rest : \A z \in rest : rank[y] <= rank[z]
      <4> HIDE DEF l
      <4> QED BY <2>5, LeastOfSet
    <3> QED BY <3>1
  <2> HIDE DEF x, l
  <2>7. ToSet(new) = ToSet(done) \union {x} /\ new \in Seq(S)
    BY <2>2, <2>6, AppendedSet
  <2>8. /\ Len(new) = Len(done) + 1 /\ Len(done) \in Nat /\ new[Len(done) + 1] = x
        /\ \A k \in 1..Len(done) : new[k] = done[k]
    BY <2>2
  <2>9. IsFiniteSet(ToSet(new)) /\ Cardinality(ToSet(new)) = n + 1
    BY <2>2, <2>6, <2>7, FS_AddElement
  <2>10. ASSUME NEW k \in 1..Len(new), NEW y \in S \ ToSet(new) PROVE rank[new[k]] <= rank[y]
    <3>1. y \in rest
      BY <2>7
    <3>2. CASE k = Len(done) + 1
      BY <2>6, <2>8, <3>1, <3>2
    <3>3. CASE k \in 1..Len(done)
      BY <2>2, <2>8, <3>1, <3>3
    <3> QED BY <2>8, <3>2, <3>3
  <2>11. ASSUME NEW k \in 1..Len(new), NEW m \in 1..k PROVE rank[new[m]] <= rank[new[k]]
    <3>1. CASE k \in 1..Len(done)
      BY <2>2, <2>8, <3>1
    <3>2. CASE k = Len(done) + 1 /\ m \in 1..Len(done)
      BY <2>2, <2>6, <2>8, <3>2
    <3>3. CASE k = Len(done) + 1 /\ m = k
      <4>1. rank[x] \in Nat
        BY <2>6
      <4> QED BY <2>8, <3>3, <4>1
    <3> QED BY <2>8, <3>1, <3>2, <3>3
  <2> HIDE DEF new
  <2> QED BY <2>4, <2>7, <2>9, <2>10, <2>11
<1>4. N \in G
  <2> HIDE DEF G, N
  <2> QED BY <1>1, <1>2, <1>3, SetInduction
<1>5. l[N] \in Seq(S) /\ Sorted(l[N])
  BY <1>1, <1>4
<1>6. Ordered(S, rank) = l[N]
  BY ListingSteps
<1> HIDE DEF l, N
<1> QED BY <1>5, <1>6

(* In a plan that makes the planned directories, each step has before it   *)
(* the steps that make those above its path.                               *)
Led(s, planned) ==
    \A n \in DOMAIN s : \A d \in Parents(s[n].path) \intersect planned : \E m \in 1..(n - 1) : s[m] = Mkdir(d)
LedAfter(done, s, planned) ==
    \A n \in DOMAIN s : \A d \in Parents(s[n].path) \intersect planned :
        Mkdir(d) \in ToSet(done) \/ \E m \in 1..(n - 1) : s[m] = Mkdir(d)

(* What is led when done is led after it.                                  *)
LEMMA LedJoined ==
    ASSUME NEW A, NEW done \in Seq(A), NEW s \in Seq(A), NEW planned, Led(done, planned), LedAfter(done, s, planned)
    PROVE  Led(done \o s, planned)
<1> DEFINE j == done \o s
<1>1. /\ Len(j) = Len(done) + Len(s) /\ Len(done) \in Nat /\ Len(s) \in Nat /\ j \in Seq(A)
      /\ \A n \in 1..Len(done) : j[n] = done[n]
      /\ \A n \in 1..Len(s) : j[Len(done) + n] = s[n]
  OBVIOUS
<1>2. ASSUME NEW n \in DOMAIN j, NEW d \in Parents(j[n].path) \intersect planned
      PROVE  \E m \in 1..(n - 1) : j[m] = Mkdir(d)
  <2>1. n \in 1..(Len(done) + Len(s))
    BY <1>1
  <2>2. CASE n <= Len(done)
    <3>1. n \in DOMAIN done /\ j[n] = done[n]
      BY <1>1, <2>1, <2>2
    <3>2. PICK m \in 1..(n - 1) : done[m] = Mkdir(d)
      BY <1>2, <3>1 DEF Led
    <3>3. m \in 1..Len(done)
      BY <1>1, <2>1, <2>2
    <3> QED BY <1>1, <3>2, <3>3
  <2>3. CASE n > Len(done)
    <3>1. PICK k \in 1..Len(s) : n = Len(done) + k
      <4>1. n - Len(done) \in 1..Len(s) /\ n = Len(done) + (n - Len(done))
        BY <1>1, <2>1, <2>3
      <4> QED BY <4>1
    <3>2. k \in DOMAIN s /\ j[n] = s[k]
      BY <1>1, <3>1
    <3>3. CASE Mkdir(d) \in ToSet(done)
      <4>1. PICK m \in 1..Len(done) : done[m] = Mkdir(d)
        BY <3>3 DEF ToSet
      <4>2. m \in 1..(n - 1)
        BY <1>1, <2>1, <2>3
      <4> QED BY <1>1, <4>1, <4>2
    <3>4. CASE \E m \in 1..(k - 1) : s[m] = Mkdir(d)
      <4>1. PICK m \in 1..(k - 1) : s[m] = Mkdir(d)
        BY <3>4
      <4>2. m \in 1..Len(s) /\ Len(done) + m \in 1..(n - 1)
        BY <1>1, <3>1
      <4> QED BY <1>1, <4>1, <4>2
    <3> QED BY <1>2, <3>2, <3>3, <3>4 DEF LedAfter
  <2> QED BY <1>1, <2>1, <2>2, <2>3
<1> HIDE DEF j
<1>3. Led(j, planned)
  BY <1>2 DEF Led
<1> QED BY <1>3 DEF j

(* The directories a step needs are made from the top.                     *)
LEMMA MadeLed ==
    ASSUME NEW p \in Path, NEW done, NEW planned
    PROVE  LedAfter(done, MakeDirectories(Unmade(done, p, planned)), planned)
<1> DEFINE D == Unmade(done, p, planned)
           ds == ByDepth(D)
           rank == [d \in D |-> Len(d)]
<1>1. D \subseteq Parents(p) /\ Parents(p) \subseteq Path /\ IsFiniteSet(Parents(p))
  BY ParentsOf DEF Unmade
<1>2. IsFiniteSet(D) /\ D \subseteq Path
  BY <1>1, FS_Subset
<1>3. \A d \in D : rank[d] = Len(d) /\ Len(d) \in Nat
  BY <1>2 DEF Path
<1> HIDE DEF D
<1>4. ds \in Seq(D) /\ ToSet(ds) = D
  BY <1>2, ByDepthOf
<1>5. \A n \in DOMAIN ds : \A m \in 1..n : rank[ds[m]] <= rank[ds[n]]
  BY <1>2, <1>3, OrderedSorted DEF ByDepth
<1>6. MakeDirectories(D) = [n \in DOMAIN ds |-> Mkdir(ds[n])]
  BY DEF MakeDirectories
<1> DEFINE s == MakeDirectories(D)
<1>7. ASSUME NEW n \in DOMAIN s, NEW d \in Parents(s[n].path) \intersect planned
      PROVE  Mkdir(d) \in ToSet(done) \/ \E m \in 1..(n - 1) : s[m] = Mkdir(d)
  <2>1. n \in DOMAIN ds /\ s[n] = Mkdir(ds[n])
    BY <1>6, <1>7
  <2> DEFINE e == ds[n]
  <2>2. s[n].path = e /\ e \in D
    BY <1>4, <2>1 DEF Mkdir
  <2>3. d \in Parents(e) /\ e \in Parents(p)
    BY <1>1, <1>7, <2>2
  <2>4. d \in Parents(p) /\ Len(d) < Len(e)
    BY <2>3, ParentsNested
  <2>5. SUFFICES ASSUME Mkdir(d) \notin ToSet(done) PROVE \E m \in 1..(n - 1) : s[m] = Mkdir(d)
    OBVIOUS
  <2>6. d \in D
    BY <1>7, <2>4, <2>5 DEF D, Unmade
  <2>7. PICK m \in DOMAIN ds : ds[m] = d
    BY <1>4, <2>6 DEF ToSet
  <2>8. s[m] = Mkdir(d)
    BY <1>6, <2>7
  <2>9. m < n
    <3>1. DOMAIN ds = 1..Len(ds) /\ Len(ds) \in Nat
      BY <1>4
    <3>2. SUFFICES ASSUME n <= m PROVE FALSE
      BY <2>1, <3>1
    <3>3. n \in 1..m
      BY <2>1, <3>1, <3>2
    <3>4. rank[ds[n]] <= rank[ds[m]]
      BY <1>5, <2>7, <3>3
    <3>5. rank[ds[n]] = Len(e) /\ rank[ds[m]] = Len(d) /\ Len(e) \in Nat /\ Len(d) \in Nat
      BY <1>3, <2>2, <2>6, <2>7
    <3> QED BY <2>4, <3>4, <3>5
  <2>10. m \in 1..(n - 1)
    <3>1. DOMAIN ds = 1..Len(ds) /\ Len(ds) \in Nat
      BY <1>4
    <3> QED BY <2>1, <2>7, <2>9, <3>1
  <2> QED BY <2>8, <2>10
<1> HIDE DEF s
<1> QED BY <1>7 DEF LedAfter, s, D

(* In a plan that makes directories each comes before what lies below it.  *)
LEMMA MakingLed ==
    ASSUME NEW X, NEW steps \in Seq(X), \A x \in X : x.path \in Path, NEW planned
    PROVE  Led(MakingDirectories(steps, planned), planned)
<1> DEFINE M == Making(steps, planned)
           N == Len(steps)
           Between(k) == MakeDirectories(Unmade(M[k - 1], steps[k].path, planned))
           A == X \union {Mkdir(d) : d \in planned}
           G == {k \in Nat : k <= N => M[k] \in Seq(A) /\ Led(M[k], planned)}
<1>1. N \in Nat /\ \A n \in 1..N : steps[n] \in X /\ steps[n].path \in Path
  OBVIOUS
<1>2. /\ MakingDirectories(steps, planned) = M[N]
      /\ M[0] = <<>>
      /\ \A n \in 1..N : M[n] = M[n - 1] \o Between(n) \o <<steps[n]>>
  <2> HIDE DEF N
  <2> QED BY <1>1, MakingSteps DEF N
<1>3. \A k \in 1..N : /\ Between(k) \in Seq(A) /\ LedAfter(M[k - 1], Between(k), planned)
                      /\ \A d \in Parents(steps[k].path) \intersect planned :
                            Mkdir(d) \in ToSet(M[k - 1]) \union ToSet(Between(k))
  <2>1. SUFFICES ASSUME NEW k \in 1..N
                 PROVE  /\ Between(k) \in Seq(A) /\ LedAfter(M[k - 1], Between(k), planned)
                        /\ \A d \in Parents(steps[k].path) \intersect planned :
                              Mkdir(d) \in ToSet(M[k - 1]) \union ToSet(Between(k))
    OBVIOUS
  <2>2. /\ Between(k) \in Seq({Mkdir(d) : d \in Parents(steps[k].path) \intersect planned})
        /\ \A d \in Parents(steps[k].path) \intersect planned : Mkdir(d) \in ToSet(M[k - 1]) \union ToSet(Between(k))
    BY <1>1, MakeDirectoriesOf
  <2>3. {Mkdir(d) : d \in Parents(steps[k].path) \intersect planned} \subseteq A
    OBVIOUS
  <2>4. LedAfter(M[k - 1], Between(k), planned)
    BY <1>1, MadeLed
  <2> HIDE DEF Between, A, M
  <2> QED BY <2>2, <2>3, <2>4
<1> HIDE DEF M, N, A, Between
<1>4. 0 \in G
  <2>1. <<>> \in Seq(A) /\ DOMAIN <<>> = {}
    OBVIOUS
  <2>2. Led(<<>>, planned)
    BY <2>1 DEF Led
  <2> QED BY <1>2, <2>1, <2>2
<1>5. ASSUME NEW k \in Nat, k \in G PROVE k + 1 \in G
  <2>1. SUFFICES ASSUME k + 1 <= N PROVE M[k + 1] \in Seq(A) /\ Led(M[k + 1], planned)
    OBVIOUS
  <2>2. PICK n \in 1..N : n = k + 1 /\ n - 1 = k
    BY <1>1, <2>1
  <2> DEFINE b == Between(n)
             e == <<steps[n]>>
  <2>3. M[k] \in Seq(A) /\ Led(M[k], planned)
    BY <1>1, <1>5, <2>1
  <2>4. /\ b \in Seq(A) /\ LedAfter(M[k], b, planned)
        /\ \A d \in Parents(steps[n].path) \intersect planned : Mkdir(d) \in ToSet(M[k]) \union ToSet(b)
    BY <1>3, <2>2
  <2>5. M[n] = M[k] \o b \o e
    BY <1>2, <2>2
  <2>6. e \in Seq(A) /\ DOMAIN e = {1} /\ e[1] = steps[n]
    BY <1>1 DEF A
  <2> HIDE DEF b, e
  <2>7. /\ M[k] \o b \in Seq(A) /\ ToSet(M[k] \o b) = ToSet(M[k]) \union ToSet(b)
        /\ Led(M[k] \o b, planned)
    BY <2>3, <2>4, JoinedSet, LedJoined
  <2>8. LedAfter(M[k] \o b, e, planned)
    BY <2>4, <2>6, <2>7 DEF LedAfter
  <2> DEFINE a == M[k] \o b
  <2>9. a \in Seq(A) /\ Led(a, planned) /\ LedAfter(a, e, planned) /\ M[n] = a \o e
    BY <2>5, <2>7, <2>8
  <2> HIDE DEF a
  <2>10. a \o e \in Seq(A) /\ Led(a \o e, planned)
    BY <2>6, <2>9, JoinedSet, LedJoined
  <2> QED BY <2>2, <2>9, <2>10
<1>6. N \in G
  <2> HIDE DEF G
  <2> QED BY <1>1, <1>4, <1>5, SetInduction
<1>7. N <= N
  BY <1>1
<1> QED BY <1>2, <1>6, <1>7

(* In a plan that makes directories the first step that is not one of those *)
(* comes before, or is, every other.                                       *)
LeadsOff(s, x) == \A n \in DOMAIN s : s[n].op # "mkdir" => \E m \in 1..n : s[m] = x

(* The first step of a plan leads it off, whatever directories are made.    *)
LEMMA MakingLeadsOff ==
    ASSUME NEW X, NEW steps \in Seq(X), \A x \in X : x.path \in Path, NEW planned, Len(steps) > 0
    PROVE  LeadsOff(MakingDirectories(steps, planned), steps[1])
<1> DEFINE M == Making(steps, planned)
           N == Len(steps)
           Between(k) == MakeDirectories(Unmade(M[k - 1], steps[k].path, planned))
           A == X \union {Mkdir(d) : d \in planned}
           first == steps[1]
           Holds(k) == /\ M[k] \in Seq(A) /\ LeadsOff(M[k], first)
                       /\ k = 0 \/ \E m \in DOMAIN M[k] : M[k][m] = first
           G == {k \in Nat : k <= N => Holds(k)}
<1>1. N \in Nat /\ \A n \in 1..N : steps[n] \in X /\ steps[n].path \in Path
  OBVIOUS
<1>2. /\ MakingDirectories(steps, planned) = M[N]
      /\ M[0] = <<>>
      /\ \A n \in 1..N : M[n] = M[n - 1] \o Between(n) \o <<steps[n]>>
  <2> HIDE DEF N
  <2> QED BY <1>1, MakingSteps DEF N
<1>3. \A k \in 1..N : Between(k) \in Seq(A) /\ \A n \in DOMAIN Between(k) : Between(k)[n].op = "mkdir"
  <2>1. SUFFICES ASSUME NEW k \in 1..N
                 PROVE  Between(k) \in Seq(A) /\ \A n \in DOMAIN Between(k) : Between(k)[n].op = "mkdir"
    OBVIOUS
  <2> DEFINE Y == {Mkdir(d) : d \in Parents(steps[k].path) \intersect planned}
  <2>2. Between(k) \in Seq(Y)
    BY <1>1, MakeDirectoriesOf
  <2>3. Y \subseteq A /\ \A y \in Y : y.op = "mkdir"
    BY DEF Mkdir
  <2> HIDE DEF Between, A, M, Y
  <2> QED BY <2>2, <2>3
<1> HIDE DEF M, N, A, Between
<1>4. 0 \in G
  <2>1. <<>> \in Seq(A) /\ DOMAIN <<>> = {}
    OBVIOUS
  <2>2. LeadsOff(<<>>, first)
    BY <2>1 DEF LeadsOff
  <2> QED BY <1>2, <2>1, <2>2
<1>5. ASSUME NEW k \in Nat, k \in G PROVE k + 1 \in G
  <2>1. SUFFICES ASSUME k + 1 <= N
                 PROVE  Holds(k + 1)
    <3> HIDE DEF Holds
    <3> QED OBVIOUS
  <2>2. PICK n \in 1..N : n = k + 1 /\ n - 1 = k
    BY <1>1, <2>1
  <2> DEFINE b == Between(n)
             e == <<steps[n]>>
             a == M[k] \o b
             u == a \o e
  <2>3. M[k] \in Seq(A) /\ LeadsOff(M[k], first) /\ (k = 0 \/ \E m \in DOMAIN M[k] : M[k][m] = first)
    <3>1. Holds(k)
      <4> HIDE DEF Holds
      <4> QED BY <1>1, <1>5, <2>1
    <3> QED BY <3>1
  <2>4. b \in Seq(A) /\ \A m \in DOMAIN b : b[m].op = "mkdir"
    BY <1>3, <2>2
  <2>5. M[n] = u
    BY <1>2, <2>2
  <2>6. e \in Seq(A) /\ Len(e) = 1 /\ e[1] = steps[n]
    BY <1>1 DEF A
  <2>7. k = 0 => M[k] = <<>> /\ steps[n] = first
    BY <1>2, <2>2
  <2> HIDE DEF b, e, G, first
  <2> DEFINE x == Len(M[k])
             y == Len(b)
  <2>8. /\ a \in Seq(A) /\ Len(a) = x + y /\ x \in Nat /\ y \in Nat /\ DOMAIN M[k] = 1..x /\ DOMAIN b = 1..y
        /\ \A m \in 1..x : a[m] = M[k][m]
        /\ \A m \in 1..y : a[x + m] = b[m]
    BY <2>3, <2>4
  <2> HIDE DEF a, x, y
  <2>9. /\ u \in Seq(A) /\ Len(u) = x + y + 1 /\ DOMAIN u = 1..(x + y + 1)
        /\ \A m \in 1..(x + y) : u[m] = a[m]
        /\ u[x + y + 1] = steps[n]
    <3>5. a \in Seq(A) /\ e \in Seq(A)
      BY <2>6, <2>8
    <3>1. u \in Seq(A) /\ Len(u) = Len(a) + Len(e) /\ \A m \in 1..Len(a) : u[m] = a[m]
      BY <3>5
    <3>2. \A m \in 1..Len(e) : u[Len(a) + m] = e[m]
      BY <3>5
    <3>3. 1 \in 1..Len(e)
      BY <2>6
    <3>4. DOMAIN u = 1..Len(u)
      BY <3>1
    <3> QED BY <2>6, <2>8, <3>1, <3>2, <3>3, <3>4
  <2> HIDE DEF u
  <2>10. ASSUME NEW j \in DOMAIN u, u[j].op # "mkdir" PROVE \E m \in 1..j : u[m] = first
    <3>1. j \in 1..(x + y + 1)
      BY <2>9
    <3>2. CASE j \in 1..x
      <4>1. j \in 1..(x + y)
        BY <2>8, <3>2
      <4>2. j \in DOMAIN M[k] /\ u[j] = M[k][j]
        BY <2>8, <2>9, <3>2, <4>1
      <4>3. PICK m \in 1..j : M[k][m] = first
        BY <2>3, <2>10, <4>2 DEF LeadsOff
      <4>4. m \in 1..x /\ m \in 1..(x + y)
        BY <2>8, <3>2
      <4> QED BY <2>8, <2>9, <4>3, <4>4
    <3>3. CASE j - x \in 1..y
      <4>1. j = x + (j - x) /\ j \in 1..(x + y)
        BY <2>8, <3>1, <3>3
      <4>2. u[j] = b[j - x]
        BY <2>8, <2>9, <3>3, <4>1
      <4>3. u[j].op = "mkdir"
        BY <2>4, <2>8, <3>3, <4>2
      <4> QED BY <2>10, <4>3
    <3>4. CASE j = x + y + 1
      <4>1. CASE k = 0
        <5>1. u[j] = first /\ j \in 1..j
          BY <2>7, <2>8, <2>9, <3>1, <3>4, <4>1
        <5> QED BY <5>1
      <4>2. CASE k # 0
        <5>1. PICK m \in DOMAIN M[k] : M[k][m] = first
          BY <2>3, <4>2
        <5>2. m \in 1..x /\ m \in 1..(x + y) /\ m \in 1..j
          BY <2>8, <3>4, <5>1
        <5> QED BY <2>8, <2>9, <5>1, <5>2
      <4> QED BY <4>1, <4>2
    <3>5. j \in 1..x \/ j - x \in 1..y \/ j = x + y + 1
      BY <2>8, <3>1
    <3> QED BY <3>2, <3>3, <3>4, <3>5
  <2>11. k = 0 \/ \E m \in DOMAIN u : u[m] = first
    <3>1. SUFFICES ASSUME k # 0 PROVE \E m \in DOMAIN u : u[m] = first
      OBVIOUS
    <3>2. PICK m \in DOMAIN M[k] : M[k][m] = first
      BY <2>3, <3>1
    <3>3. m \in 1..x /\ m \in 1..(x + y) /\ m \in DOMAIN u
      BY <2>8, <2>9, <3>2
    <3> QED BY <2>8, <2>9, <3>2, <3>3
  <2>13. \E m \in DOMAIN u : u[m] = first
    <3>1. k = 0 => u[x + y + 1] = first
      BY <2>7, <2>9
    <3>2. x + y + 1 \in DOMAIN u
      BY <2>8, <2>9
    <3> QED BY <2>11, <3>1, <3>2
  <2>12. LeadsOff(u, first)
    BY <2>10 DEF LeadsOff
  <2>14. M[k + 1] = u
    BY <2>2, <2>5
  <2> QED BY <2>9, <2>12, <2>13, <2>14
<1>6. N \in G
  <2> HIDE DEF G
  <2> QED BY <1>1, <1>4, <1>5, SetInduction
<1>7. Holds(N)
  <2> HIDE DEF Holds
  <2> QED BY <1>1, <1>6
<1> QED BY <1>2, <1>7

-----------------------------------------------------------------------------
(* The directories that hold state records; an installation counts on      *)
(* them.                                                                   *)
Namespaces(i) == {StateDir, InstallationsDir} \union (IF i = "user" THEN {} ELSE {ProjectsDir})

(* Joining a name to a path of two, three and four.                        *)
LEMMA Joined2 ==
    ASSUME NEW a \in Name, NEW b \in Name, NEW c \in Name
    PROVE  <<a, b>> \o <<c>> = <<a, b, c>>
<1>1. <<a, b>> \o <<c>> \in Seq(Name) /\ <<a, b, c>> \in Seq(Name)
  OBVIOUS
<1>2. Len(<<a, b>> \o <<c>>) = 3 /\ Len(<<a, b, c>>) = 3
  OBVIOUS
<1>3. \A n \in 1..3 : (<<a, b>> \o <<c>>)[n] = <<a, b, c>>[n]
  OBVIOUS
<1> QED BY <1>1, <1>2, <1>3, SeqEqual

(* The same, for three.                                                    *)
LEMMA Joined3 ==
    ASSUME NEW a \in Name, NEW b \in Name, NEW c \in Name, NEW d \in Name
    PROVE  <<a, b, c>> \o <<d>> = <<a, b, c, d>>
<1>1. <<a, b, c>> \o <<d>> \in Seq(Name) /\ <<a, b, c, d>> \in Seq(Name)
  OBVIOUS
<1>2. Len(<<a, b, c>> \o <<d>>) = 4 /\ Len(<<a, b, c, d>>) = 4
  OBVIOUS
<1>3. \A n \in 1..4 : (<<a, b, c>> \o <<d>>)[n] = <<a, b, c, d>>[n]
  OBVIOUS
<1> QED BY <1>1, <1>2, <1>3, SeqEqual

(* The same, for four.                                                     *)
LEMMA Joined4 ==
    ASSUME NEW a \in Name, NEW b \in Name, NEW c \in Name, NEW d \in Name, NEW e \in Name
    PROVE  <<a, b, c, d>> \o <<e>> = <<a, b, c, d, e>>
<1>1. <<a, b, c, d>> \o <<e>> \in Seq(Name) /\ <<a, b, c, d, e>> \in Seq(Name)
  OBVIOUS
<1>2. Len(<<a, b, c, d>> \o <<e>>) = 5 /\ Len(<<a, b, c, d, e>>) = 5
  OBVIOUS
<1>3. \A n \in 1..5 : (<<a, b, c, d>> \o <<e>>)[n] = <<a, b, c, d, e>>[n]
  OBVIOUS
<1> QED BY <1>1, <1>2, <1>3, SeqEqual

(* The namespaces of an installation are the directories above its state   *)
(* record.                                                                 *)
LEMMA NamespacesOf ==
    ASSUME NEW i \in Installations
    PROVE  /\ StateFile(i) \in Path
           /\ Namespaces(i) \subseteq Parents(StateFile(i))
           /\ \A d \in Namespaces(i) : d \in Path /\ d[1] = "state" /\ Below(d, StateFile(i)) /\ InstallNamespaceDirectory(i, d)
<1>1. i \in Name
  BY InstallationsAssumption DEF Name
<1>2. StateDir = <<"state", "oaw">>
  BY DEF StateDir
<1> "state" \in Name /\ "oaw" \in Name /\ "installations" \in Name /\ "projects" \in Name
  BY DEF Name
<1>3. InstallationsDir = <<"state", "oaw", "installations">>
  BY <1>2, Joined2 DEF InstallationsDir
<1>4. ProjectsDir = <<"state", "oaw", "installations", "projects">>
  BY <1>3, Joined3 DEF ProjectsDir
<1>5. StateFile(i) = IF i = "user" THEN <<"state", "oaw", "installations", i>>
                     ELSE <<"state", "oaw", "installations", "projects", i>>
  <2>1. <<"state", "oaw", "installations">> \o <<i>> = <<"state", "oaw", "installations", i>>
    BY <1>1, Joined3
  <2>2. <<"state", "oaw", "installations", "projects">> \o <<i>> = <<"state", "oaw", "installations", "projects", i>>
    BY <1>1, Joined4
  <2>3. CASE i = "user"
    BY <1>3, <2>1, <2>3 DEF StateFile
  <2>4. CASE i # "user"
    BY <1>4, <2>2, <2>4 DEF StateFile
  <2> QED BY <2>3, <2>4
<1>6. StateFile(i) \in Path
  BY <1>1, <1>5 DEF Path
<1>7. Len(StateFile(i)) = IF i = "user" THEN 4 ELSE 5
  BY <1>5
<1>8. \A s \in Seq(Name), n \in Nat, d \in Seq(Name) :
          n <= Len(s) /\ Len(d) = n /\ (\A k \in 1..n : d[k] = s[k]) => d = SubSeq(s, 1, n)
  <2>1. SUFFICES ASSUME NEW s \in Seq(Name), NEW n \in Nat, NEW d \in Seq(Name),
                        n <= Len(s), Len(d) = n, \A k \in 1..n : d[k] = s[k]
                 PROVE  d = SubSeq(s, 1, n)
    OBVIOUS
  <2>2. SubSeq(s, 1, n) \in Seq(Name) /\ Len(SubSeq(s, 1, n)) = n /\ \A k \in 1..n : SubSeq(s, 1, n)[k] = s[k]
    BY <2>1
  <2> QED BY <2>1, <2>2, SeqEqual
<1>9. /\ StateDir \in Seq(Name) /\ Len(StateDir) = 2
      /\ InstallationsDir \in Seq(Name) /\ Len(InstallationsDir) = 3
      /\ ProjectsDir \in Seq(Name) /\ Len(ProjectsDir) = 4
  BY <1>2, <1>3, <1>4
<1>10. Namespaces(i) \subseteq Parents(StateFile(i))
  <2>1. StateFile(i) \in Seq(Name)
    BY <1>6 DEF Path
  <2>2. /\ \A k \in 1..2 : StateDir[k] = StateFile(i)[k]
        /\ \A k \in 1..3 : InstallationsDir[k] = StateFile(i)[k]
        /\ i # "user" => \A k \in 1..4 : ProjectsDir[k] = StateFile(i)[k]
    BY <1>2, <1>3, <1>4, <1>5
  <2>3. StateDir = SubSeq(StateFile(i), 1, 2)
    BY <1>7, <1>8, <1>9, <2>1, <2>2
  <2>4. InstallationsDir = SubSeq(StateFile(i), 1, 3)
    BY <1>7, <1>8, <1>9, <2>1, <2>2
  <2>5. i # "user" => ProjectsDir = SubSeq(StateFile(i), 1, 4)
    BY <1>7, <1>8, <1>9, <2>1, <2>2
  <2> DEFINE N == 2..(Len(StateFile(i)) - 1)
  <2>6. 2 \in N /\ 3 \in N /\ (i # "user" => 4 \in N)
    BY <1>7
  <2>7. Parents(StateFile(i)) = {SubSeq(StateFile(i), 1, n) : n \in N}
    BY DEF Parents
  <2> HIDE DEF N
  <2>8. StateDir \in Parents(StateFile(i)) /\ InstallationsDir \in Parents(StateFile(i))
    BY <2>3, <2>4, <2>6, <2>7
  <2>9. i # "user" => ProjectsDir \in Parents(StateFile(i))
    BY <2>5, <2>6, <2>7
  <2> QED BY <2>8, <2>9 DEF Namespaces
<1>11. \A d \in Namespaces(i) : d[1] = "state" /\ InstallNamespaceDirectory(i, d)
  BY <1>2, <1>3, <1>4 DEF Namespaces, InstallNamespaceDirectory
<1> QED BY <1>6, <1>10, <1>11, ParentsOf

(* The Policy Set directory of an installation lies in its scope.          *)
LEMMA PolicyDirOf ==
    ASSUME NEW i \in Installations
    PROVE  PolicyDir(i) \in Path /\ Len(PolicyDir(i)) >= 2 /\ PolicyDir(i)[1] \in Scope(i)
<1>1. i \in Name
  BY InstallationsAssumption DEF Name
<1>2. PolicyDir(i) = IF i = "user" THEN <<"config", "oaw">> ELSE <<i, ".oaw", "policy">>
  BY DEF PolicyDir, ConfigDir
<1>3. CASE i = "user"
  BY <1>2, <1>3 DEF Path, Name, Scope
<1>4. CASE i # "user"
  BY <1>1, <1>2, <1>4 DEF Path, Name, Scope
<1> QED BY <1>3, <1>4

(* So does every file of the Policy Set.                                   *)
LEMMA PolicySetDestinationOf ==
    ASSUME NEW i \in Installations, NEW f \in Path, f # <<>>
    PROVE  PolicySetDestination(i, f) \in Path /\ PolicySetDestination(i, f)[1] \in Scope(i)
<1>1. PolicyDir(i) \in Seq(Name) /\ Len(PolicyDir(i)) >= 2 /\ PolicyDir(i)[1] \in Scope(i) /\ f \in Seq(Name)
  BY PolicyDirOf DEF Path
<1>2. <<"profiles", "builtin">> \in Seq(Name) /\ Tail(f) \in Seq(Name)
  BY <1>1 DEF Name
<1>3. \A g \in Seq(Name) : PolicyDir(i) \o g \in Seq(Name) /\ (PolicyDir(i) \o g)[1] = PolicyDir(i)[1]
  BY <1>1
<1>4. <<"profiles", "builtin">> \o Tail(f) \in Seq(Name)
  BY <1>2
<1> DEFINE g == IF i = "user" /\ f[1] = "profiles" THEN <<"profiles", "builtin">> \o Tail(f) ELSE f
<1>5. g \in Seq(Name)
  BY <1>1, <1>4
<1>6. PolicySetDestination(i, f) = PolicyDir(i) \o g
  BY DEF PolicySetDestination
<1> HIDE DEF g
<1> QED BY <1>1, <1>3, <1>5, <1>6 DEF Path

(* So does every artifact of a target that supports the scope.             *)
LEMMA ArtifactDestinationOf ==
    ASSUME NEW i \in Installations, NEW e \in RegistryEntry
    PROVE  /\ ArtifactDestination(i, e) \in Path
           /\ TargetSupportsScope(i, e) => ArtifactDestination(i, e)[1] \in Scope(i)
<1>1. /\ e.root \in {"none", "home", "config"} /\ e.user \in Seq(Name) /\ e.project \in Seq(Name)
  BY DEF RegistryEntry, IsEntry, Path
<1>2. i \in Name /\ e.root \in Name \union {"none"}
  BY <1>1, InstallationsAssumption DEF Name
<1>3. "none" \in Name
  BY DEF Name
<1>4. \A n \in Name, g \in Seq(Name) : <<n>> \o g \in Seq(Name) /\ (<<n>> \o g)[1] = n
  OBVIOUS
<1>5. CASE i = "user"
  <2>1. ArtifactDestination(i, e) = <<e.root>> \o e.user
    BY <1>5 DEF ArtifactDestination
  <2>2. ArtifactDestination(i, e) \in Seq(Name) /\ ArtifactDestination(i, e)[1] = e.root
    BY <1>1, <1>2, <1>3, <1>4, <2>1
  <2>3. TargetSupportsScope(i, e) => e.root \in {"home", "config"}
    BY <1>1, <1>5 DEF TargetSupportsScope
  <2> QED BY <1>5, <2>2, <2>3 DEF Path, Scope
<1>6. CASE i # "user"
  <2>1. ArtifactDestination(i, e) = <<i>> \o e.project
    BY <1>6 DEF ArtifactDestination
  <2> QED BY <1>1, <1>2, <1>4, <1>6, <2>1 DEF Path, TargetSupportsScope, Scope
<1> QED BY <1>5, <1>6

-----------------------------------------------------------------------------
(* What a record holds: finitely much, of its own scope, and readable      *)
(* again.                                                                  *)
Sized(r) == IsFiniteSet(r.dirs) /\ IsFiniteSet(r.targets) /\ IsFiniteSet(DOMAIN r.policy)
DirectoryInScope(i, d) == d \in Path /\ (d \in Namespaces(i) \/ d[1] \in Scope(i))
TargetInScope(i, x) == "path" \in DOMAIN x /\ x.path \in Path /\ x.path[1] \in Scope(i)
InScope(i, r) == /\ \A d \in r.dirs : DirectoryInScope(i, d)
                 /\ \A x \in r.targets : TargetInScope(i, x)
                 /\ DOMAIN r.policy \subseteq Path
                 /\ DOMAIN r = {"legacy", "version", "policy", "dirs", "targets"}
Readable(i, r) == r # NoRecord => ParseInstallationState(i, r) /\ ValidateOwnedDirectories(i, r)

(* The artifacts of some targets are finitely many.                        *)
LEMMA ArtifactsFinite ==
    ASSUME NEW T
    PROVE  IsFiniteSet(ArtifactsOf(T)) /\ ArtifactsOf(T) \subseteq RegistryEntry
<1> DEFINE N == {n \in InPlay : Registry[n].target \in T}
           f == [n \in N |-> Registry[n]]
<1>1. IsFiniteSet(1..19)
  <2>1. 1 \in Int /\ 19 \in Int
    OBVIOUS
  <2> QED BY <2>1, FS_Interval
<1>2. N \in SUBSET (1..19)
  BY RegistryTyped DEF InPlay
<1>3. IsFiniteSet(N)
  <2> HIDE DEF N
  <2> QED BY <1>1, <1>2, FS_Subset
<1>4. DOMAIN f = N /\ f = [n \in N |-> f[n]]
  OBVIOUS
<1>5. ArtifactsOf(T) = {f[n] : n \in N}
  <2>1. ArtifactsOf(T) = {Registry[n] : n \in N}
    BY DEF ArtifactsOf
  <2>2. {Registry[n] : n \in N} = {f[n] : n \in N}
    OBVIOUS
  <2> QED BY <2>1, <2>2
<1>6. ArtifactsOf(T) \subseteq RegistryEntry
  BY RegistryTyped DEF ArtifactsOf, RegistryEntry, ToSet, InPlay
<1> HIDE DEF N, f
<1>7. IsFiniteSet({f[n] : n \in N})
  BY <1>3, <1>4, FiniteImage
<1> QED BY <1>5, <1>6, <1>7

(* The directories above finitely many paths are finitely many.            *)
LEMMA ParentsOfAll ==
    ASSUME NEW P, IsFiniteSet(P), P \subseteq Path
    PROVE  IsFiniteSet(UNION {Parents(p) : p \in P})
<1> DEFINE f == [p \in P |-> Parents(p)]
<1>1. DOMAIN f = P /\ f = [p \in P |-> f[p]]
  OBVIOUS
<1>2. {Parents(p) : p \in P} = {f[p] : p \in P}
  OBVIOUS
<1>3. \A D \in {Parents(p) : p \in P} : IsFiniteSet(D)
  BY ParentsOf
<1> HIDE DEF f
<1>4. IsFiniteSet({Parents(p) : p \in P})
  BY <1>1, <1>2, FiniteImage
<1> QED BY <1>3, <1>4, FS_UNION

(* The directories a command plans to make are missing, of the scope or    *)
(* its namespaces, and leave no namespace unmade.                          *)
LEMMA MissingOf ==
    ASSUME NEW i \in Installations, NEW t,
           NEW P, IsFiniteSet(P), P \subseteq Path, \A p \in P : p[1] \in Scope(i)
    PROVE  /\ IsFiniteSet(MissingParents(t, P)) /\ IsFiniteSet(MissingNamespaces(t, i))
           /\ \A d \in MissingParents(t, P) : d \in Path /\ d[1] \in Scope(i) /\ d \notin t.dirs
           /\ \A d \in MissingNamespaces(t, i) : DirectoryInScope(i, d) /\ d \notin t.dirs
           /\ Namespaces(i) \subseteq t.dirs \union MissingNamespaces(t, i)
<1> DEFINE U == UNION {Parents(p) : p \in P}
           V == {PolicyDir(i), StateDir, InstallationsDir, ProjectsDir}
<1>1. IsFiniteSet(U)
  BY ParentsOfAll
<1>2. MissingParents(t, P) \in SUBSET U /\ \A d \in MissingParents(t, P) : d \notin t.dirs
  BY DEF MissingParents
<1>3. \A d \in U : d \in Path /\ d[1] \in Scope(i)
  <2>1. SUFFICES ASSUME NEW p \in P, NEW d \in Parents(p) PROVE d \in Path /\ d[1] \in Scope(i)
    OBVIOUS
  <2>2. p \in Path /\ p[1] \in Scope(i)
    OBVIOUS
  <2> QED BY <2>2, ParentsOf
<1>4. MissingNamespaces(t, i) = (Namespaces(i) \union {PolicyDir(i)}) \ t.dirs
  BY DEF MissingNamespaces, Namespaces
<1>5. MissingNamespaces(t, i) \in SUBSET V
  BY <1>4 DEF Namespaces
<1>6. IsFiniteSet(V)
  <2>1. IsFiniteSet({})
    BY FS_EmptySet
  <2>2. IsFiniteSet({PolicyDir(i)})
    BY FS_Singleton
  <2>3. IsFiniteSet({PolicyDir(i)} \union {StateDir})
    BY <2>2, FS_AddElement
  <2>4. IsFiniteSet({PolicyDir(i)} \union {StateDir} \union {InstallationsDir})
    BY <2>3, FS_AddElement
  <2>5. IsFiniteSet({PolicyDir(i)} \union {StateDir} \union {InstallationsDir} \union {ProjectsDir})
    BY <2>4, FS_AddElement
  <2>6. V = {PolicyDir(i)} \union {StateDir} \union {InstallationsDir} \union {ProjectsDir}
    OBVIOUS
  <2> QED BY <2>5, <2>6
<1>7. \A d \in MissingNamespaces(t, i) : DirectoryInScope(i, d) /\ d \notin t.dirs
  BY <1>4, NamespacesOf, PolicyDirOf DEF DirectoryInScope
<1> HIDE DEF U, V
<1>8. IsFiniteSet(MissingParents(t, P)) /\ IsFiniteSet(MissingNamespaces(t, i))
  BY <1>1, <1>2, <1>5, <1>6, FS_Subset
<1>9. \A d \in MissingParents(t, P) : d \in Path /\ d[1] \in Scope(i) /\ d \notin t.dirs
  BY <1>2, <1>3
<1> QED BY <1>4, <1>7, <1>8, <1>9

(* The files of a release's Policy Set are finitely many, and of the       *)
(* scope.                                                                  *)
LEMMA SourcePolicySetOf ==
    ASSUME NEW i \in Installations, NEW v \in Versions
    PROVE  LET P == DOMAIN SourcePolicySet(i, v)
           IN IsFiniteSet(P) /\ P \subseteq Path /\ \A p \in P : p[1] \in Scope(i)
<1> DEFINE f == [g \in PolicySet[v] |-> PolicySetDestination(i, g)]
           P == DOMAIN SourcePolicySet(i, v)
<1>1. IsFiniteSet(PolicySet[v]) /\ \A g \in PolicySet[v] : g \in Path /\ g # <<>>
  BY PolicySetAssumption DEF Path, Name
<1>2. P = {f[g] : g \in PolicySet[v]}
  BY DEF SourcePolicySet
<1>3. DOMAIN f = PolicySet[v] /\ f = [g \in PolicySet[v] |-> f[g]]
  OBVIOUS
<1>4. \A p \in P : p \in Path /\ p[1] \in Scope(i)
  BY <1>1, <1>2, PolicySetDestinationOf
<1> HIDE DEF f
<1>5. IsFiniteSet(P)
  BY <1>1, <1>2, <1>3, FiniteImage
<1> QED BY <1>4, <1>5

(* Merging records keeps them in scope, and has all the new ones.          *)
LEMMA MergedOf ==
    ASSUME NEW i, NEW old, NEW selected, IsFiniteSet(old), IsFiniteSet(selected),
           \A x \in old \union selected : TargetInScope(i, x)
    PROVE  /\ IsFiniteSet(MergeRecords(old, selected))
           /\ \A x \in MergeRecords(old, selected) : TargetInScope(i, x)
           /\ selected \subseteq MergeRecords(old, selected)
<1> DEFINE kept == {x \in old : ~\E y \in selected : y.target = x.target /\ y.artifact = x.artifact}
           f == [x \in kept |-> [x EXCEPT !.checksum = IF \E y \in selected : y.path = x.path
                                        THEN (CHOOSE y \in selected : y.path = x.path).checksum ELSE @]]
<1>1. kept \in SUBSET old
  OBVIOUS
<1>2. IsFiniteSet(kept)
  <2> HIDE DEF kept
  <2> QED BY <1>1, FS_Subset
<1>3. MergeRecords(old, selected) = selected \union {f[x] : x \in kept}
  BY DEF MergeRecords
<1>4. DOMAIN f = kept /\ f = [x \in kept |-> f[x]]
  OBVIOUS
<1>5. ASSUME NEW x \in kept PROVE TargetInScope(i, f[x])
  <2>1. TargetInScope(i, x)
    OBVIOUS
  <2>2. DOMAIN f[x] = DOMAIN x /\ ("path" \in DOMAIN x => f[x].path = x.path)
    OBVIOUS
  <2> QED BY <2>1, <2>2 DEF TargetInScope
<1> HIDE DEF f, kept
<1>6. IsFiniteSet({f[x] : x \in kept})
  BY <1>2, <1>4, FiniteImage
<1>7. IsFiniteSet(selected \union {f[x] : x \in kept})
  BY <1>6, FS_Union
<1> QED BY <1>3, <1>5, <1>7

(* The record of an installed artifact is of the scope.                    *)
LEMMA InstalledArtifactOf ==
    ASSUME NEW i \in Installations, NEW t, NEW v, NEW T, NEW e \in ArtifactsOf(T), e.target \in Supported(i)
    PROVE  TargetInScope(i, InstalledArtifact(t, i, e, v))
<1>1. e \in RegistryEntry
  BY ArtifactsFinite
<1>2. TargetSupportsScope(i, e)
  <2>1. PICK n \in InPlay : e = Registry[n]
    BY DEF ArtifactsOf
  <2> QED BY <2>1 DEF Supported
<1>3. ArtifactDestination(i, e) \in Path /\ ArtifactDestination(i, e)[1] \in Scope(i)
  BY <1>1, <1>2, ArtifactDestinationOf
<1>4. LET x == InstalledArtifact(t, i, e, v) IN "path" \in DOMAIN x /\ x.path = ArtifactDestination(i, e)
  BY DEF InstalledArtifact
<1> QED BY <1>3, <1>4 DEF TargetInScope

(* The record that an accepted install writes is in scope and readable; it *)
(* owns what was owned, and what was missing; every namespace exists or is *)
(* owned.                                                                  *)
LEMMA InstallRecordOf ==
    ASSUME NEW t, NEW q, q.owner \in Installations, q.version \in Versions,
           Sized(t.record[q.owner]), InScope(q.owner, t.record[q.owner]),
           SerializeInstallState(q.owner, InstallRecord(t, q)),
           ValidateOwnedDirectories(q.owner, InstallRecord(t, q))
    PROVE  LET i == q.owner
               R == InstallRecord(t, q)
           IN /\ Sized(R) /\ InScope(i, R) /\ R # NoRecord
              /\ ParseInstallationState(i, R) /\ ValidateOwnedDirectories(i, R)
              /\ \A d \in R.dirs : d \in t.record[i].dirs \/ d \notin t.dirs
              /\ Namespaces(i) \subseteq t.dirs \union R.dirs
<1> DEFINE i == q.owner
           r == t.record[i]
           R == InstallRecord(t, q)
           A == ArtifactsOf(Wanted(t, q))
           f == [e \in A |-> InstalledArtifact(t, i, e, q.version)]
           selected == {f[e] : e \in A}
           policy == SourcePolicySet(i, q.version)
           P == DOMAIN policy \union {x.path : x \in selected}
<1>1. /\ R.version = q.version /\ R.policy = policy
      /\ R.targets = MergeRecords(r.targets, selected)
      /\ R.dirs = r.dirs \union MissingNamespaces(t, i) \union MissingParents(t, P)
      /\ DOMAIN R = {"legacy", "version", "policy", "dirs", "targets"}
  <2>1. selected = {InstalledArtifact(t, i, e, q.version) : e \in A}
    OBVIOUS
  <2> QED BY <2>1 DEF InstallRecord
<1>2. \A x \in R.targets : x.target \in Supported(i)
  BY DEF SerializeInstallState, ValidateTargetRecords
<1>3. selected \subseteq R.targets
  BY <1>1 DEF MergeRecords
<1>4. \A e \in A : TargetInScope(i, f[e])
  <2>1. SUFFICES ASSUME NEW e \in A PROVE TargetInScope(i, f[e])
    OBVIOUS
  <2>2. f[e] \in R.targets /\ f[e] = InstalledArtifact(t, i, e, q.version)
    BY <1>3
  <2>3. e.target = f[e].target
    BY <2>2 DEF InstalledArtifact
  <2> HIDE DEF f, R
  <2>4. e.target \in Supported(i)
    BY <1>2, <2>2, <2>3
  <2> QED BY <2>2, <2>4, InstalledArtifactOf
<1>5. IsFiniteSet(selected)
  <2>1. DOMAIN f = A /\ f = [e \in A |-> f[e]]
    OBVIOUS
  <2>2. IsFiniteSet(A)
    BY ArtifactsFinite
  <2> HIDE DEF A, f
  <2> QED BY <2>1, <2>2, FiniteImage
<1>6. \A x \in r.targets \union selected : TargetInScope(i, x)
  BY <1>4 DEF InScope
<1>7. IsFiniteSet(DOMAIN policy) /\ DOMAIN policy \subseteq Path /\ \A p \in DOMAIN policy : p[1] \in Scope(i)
  BY SourcePolicySetOf
<1>8. IsFiniteSet(P)
  <2> DEFINE g == [x \in selected |-> x.path]
  <2>1. DOMAIN g = selected /\ g = [x \in selected |-> g[x]]
    OBVIOUS
  <2>2. {x.path : x \in selected} = {g[x] : x \in selected}
    OBVIOUS
  <2> HIDE DEF g, selected
  <2>3. IsFiniteSet({x.path : x \in selected})
    BY <1>5, <2>1, <2>2, FiniteImage
  <2> QED BY <1>7, <2>3, FS_Union
<1>9. P \subseteq Path /\ \A p \in P : p[1] \in Scope(i)
  BY <1>6, <1>7 DEF TargetInScope
<1> HIDE DEF f, selected, policy, P, A, R
<1>10. /\ IsFiniteSet(MissingParents(t, P)) /\ IsFiniteSet(MissingNamespaces(t, i))
       /\ \A d \in MissingParents(t, P) : d \in Path /\ d[1] \in Scope(i) /\ d \notin t.dirs
       /\ \A d \in MissingNamespaces(t, i) : DirectoryInScope(i, d) /\ d \notin t.dirs
       /\ Namespaces(i) \subseteq t.dirs \union MissingNamespaces(t, i)
  BY <1>8, <1>9, MissingOf
<1>11. IsFiniteSet(R.dirs)
  <2>1. IsFiniteSet(r.dirs)
    BY DEF Sized
  <2>2. IsFiniteSet(r.dirs \union MissingNamespaces(t, i))
    BY <1>10, <2>1, FS_Union
  <2>3. IsFiniteSet((r.dirs \union MissingNamespaces(t, i)) \union MissingParents(t, P))
    BY <1>10, <2>2, FS_Union
  <2> QED BY <1>1, <2>3
<1>12. IsFiniteSet(R.targets) /\ \A x \in R.targets : TargetInScope(i, x)
  BY <1>1, <1>5, <1>6, MergedOf DEF Sized
<1>13. \A d \in R.dirs : DirectoryInScope(i, d)
  BY <1>1, <1>10 DEF InScope, DirectoryInScope
<1>14. Sized(R) /\ InScope(i, R)
  BY <1>1, <1>7, <1>11, <1>12, <1>13 DEF Sized, InScope
<1>15. R # NoRecord
  <2>1. R.version # 0 /\ NoRecord.version = 0
    BY <1>1, PolicySetAssumption DEF NoRecord
  <2> QED BY <2>1
<1>16. ParseInstallationState(i, R) /\ ValidateOwnedDirectories(i, R)
  BY DEF R, SerializeInstallState, ParseInstallationState
<1>17. /\ \A d \in R.dirs : d \in r.dirs \/ d \notin t.dirs
       /\ Namespaces(i) \subseteq t.dirs \union R.dirs
  BY <1>1, <1>10
<1> QED BY <1>14, <1>15, <1>16, <1>17 DEF R

(* The record of an updated artifact is of the scope.                      *)
LEMMA UpdatedArtifactOf ==
    ASSUME NEW i \in Installations, NEW t, NEW v, NEW T, NEW e \in ArtifactsOf(T),
           InScope(i, t.record[i]),
           UpdatedArtifact(t, i, e, v).target \in Supported(i)
    PROVE  TargetInScope(i, UpdatedArtifact(t, i, e, v))
<1> DEFINE old == RecordedArtifact(t.record[i], e)
           c == CHOOSE x \in old : TRUE
<1>1. CASE old # {}
  <2>1. c \in old
    BY <1>1
  <2>2. TargetInScope(i, c)
    BY <2>1 DEF RecordedArtifact, InScope
  <2>3. UpdatedArtifact(t, i, e, v) = [c EXCEPT !.checksum = v]
    BY <1>1 DEF UpdatedArtifact
  <2> HIDE DEF c, old
  <2>4. DOMAIN [c EXCEPT !.checksum = v] = DOMAIN c
        /\ ("path" \in DOMAIN c => [c EXCEPT !.checksum = v].path = c.path)
    OBVIOUS
  <2> QED BY <2>2, <2>3, <2>4 DEF TargetInScope
<1>2. CASE old = {}
  <2>1. UpdatedArtifact(t, i, e, v) = InstalledArtifact(t, i, e, v)
    BY <1>2 DEF UpdatedArtifact
  <2>2. e.target \in Supported(i)
    BY <2>1 DEF InstalledArtifact
  <2> QED BY <2>1, <2>2, InstalledArtifactOf
<1> QED BY <1>1, <1>2

(* The record that an accepted update writes is in scope and readable; it  *)
(* owns what was owned, missing namespaces, and what is of the scope.      *)
LEMMA UpdateRecordOf ==
    ASSUME NEW t, NEW q, q.owner \in Installations, q.version \in Versions,
           Sized(t.record[q.owner]), InScope(q.owner, t.record[q.owner]),
           SerializeInstallState(q.owner, UpdateRecord(t, q)),
           ValidateOwnedDirectories(q.owner, UpdateRecord(t, q))
    PROVE  LET i == q.owner
               R == UpdateRecord(t, q)
           IN /\ Sized(R) /\ InScope(i, R) /\ R # NoRecord
              /\ ParseInstallationState(i, R) /\ ValidateOwnedDirectories(i, R)
              /\ \A d \in R.dirs : \/ d \in t.record[i].dirs
                                   \/ d \in Namespaces(i) /\ d \notin t.dirs
                                   \/ d[1] \in Scope(i)
<1> DEFINE i == q.owner
           r == t.record[i]
           R == UpdateRecord(t, q)
           A == ArtifactsOf(Wanted(t, q))
           f == [e \in A |-> UpdatedArtifact(t, i, e, q.version)]
           updated == {f[e] : e \in A}
           policy == SourcePolicySet(i, q.version)
           P == {x.path : x \in updated}
           new == IF r.legacy THEN MissingNamespaces(t, i) \union MissingParents(t, P) ELSE {}
<1>1. /\ R.version = q.version /\ R.policy = policy
      /\ R.targets = MergeRecords(r.targets, updated)
      /\ R.dirs = r.dirs \union new
      /\ DOMAIN R = {"legacy", "version", "policy", "dirs", "targets"}
  <2>1. updated = {UpdatedArtifact(t, i, e, q.version) : e \in A}
    OBVIOUS
  <2> QED BY <2>1 DEF UpdateRecord
<1>2. \A x \in R.targets : x.target \in Supported(i)
  BY DEF SerializeInstallState, ValidateTargetRecords
<1>3. updated \subseteq R.targets
  BY <1>1 DEF MergeRecords
<1>4. \A e \in A : TargetInScope(i, f[e])
  <2>1. SUFFICES ASSUME NEW e \in A PROVE TargetInScope(i, f[e])
    OBVIOUS
  <2>2. f[e] \in R.targets /\ f[e] = UpdatedArtifact(t, i, e, q.version)
    BY <1>3
  <2> HIDE DEF f, R
  <2>3. UpdatedArtifact(t, i, e, q.version).target \in Supported(i)
    BY <1>2, <2>2
  <2> QED BY <2>2, <2>3, UpdatedArtifactOf
<1>5. IsFiniteSet(updated)
  <2>1. DOMAIN f = A /\ f = [e \in A |-> f[e]]
    OBVIOUS
  <2>2. IsFiniteSet(A)
    BY ArtifactsFinite
  <2> HIDE DEF A, f
  <2> QED BY <2>1, <2>2, FiniteImage
<1>6. \A x \in r.targets \union updated : TargetInScope(i, x)
  BY <1>4 DEF InScope
<1>7. IsFiniteSet(DOMAIN policy) /\ DOMAIN policy \subseteq Path
  BY SourcePolicySetOf
<1>8. IsFiniteSet(P)
  <2> DEFINE g == [x \in updated |-> x.path]
  <2>1. DOMAIN g = updated /\ g = [x \in updated |-> g[x]]
    OBVIOUS
  <2>2. P = {g[x] : x \in updated}
    OBVIOUS
  <2> HIDE DEF g, updated
  <2> QED BY <1>5, <2>1, <2>2, FiniteImage
<1>9. P \subseteq Path /\ \A p \in P : p[1] \in Scope(i)
  BY <1>6 DEF TargetInScope
<1> HIDE DEF f, updated, policy, P, A, R
<1>10. /\ IsFiniteSet(MissingParents(t, P)) /\ IsFiniteSet(MissingNamespaces(t, i))
       /\ \A d \in MissingParents(t, P) : d \in Path /\ d[1] \in Scope(i) /\ d \notin t.dirs
       /\ \A d \in MissingNamespaces(t, i) : DirectoryInScope(i, d) /\ d \notin t.dirs
  BY <1>8, <1>9, MissingOf
<1>11. IsFiniteSet(new)
  <2>1. IsFiniteSet(MissingNamespaces(t, i) \union MissingParents(t, P))
    BY <1>10, FS_Union
  <2> QED BY <2>1, FS_EmptySet
<1>12. \A d \in new : DirectoryInScope(i, d) /\ d \notin t.dirs
  BY <1>10 DEF DirectoryInScope
<1> HIDE DEF new
<1>13. IsFiniteSet(R.dirs)
  <2>1. IsFiniteSet(r.dirs)
    BY DEF Sized
  <2>2. IsFiniteSet(r.dirs \union new)
    BY <1>11, <2>1, FS_Union
  <2> QED BY <1>1, <2>2
<1>14. IsFiniteSet(R.targets) /\ \A x \in R.targets : TargetInScope(i, x)
  <2>1. IsFiniteSet(r.targets)
    BY DEF Sized
  <2> QED BY <1>1, <1>5, <1>6, <2>1, MergedOf
<1>15. \A d \in R.dirs : DirectoryInScope(i, d)
  BY <1>1, <1>12 DEF InScope
<1>16. Sized(R) /\ InScope(i, R)
  BY <1>1, <1>7, <1>13, <1>14, <1>15 DEF Sized, InScope
<1>17. R # NoRecord
  <2>1. R.version # 0 /\ NoRecord.version = 0
    BY <1>1, PolicySetAssumption DEF NoRecord
  <2> QED BY <2>1
<1>18. ParseInstallationState(i, R) /\ ValidateOwnedDirectories(i, R)
  BY DEF R, SerializeInstallState, ParseInstallationState
<1>19. \A d \in R.dirs : \/ d \in r.dirs
                         \/ d \in Namespaces(i) /\ d \notin t.dirs
                         \/ d[1] \in Scope(i)
  BY <1>1, <1>12 DEF DirectoryInScope
<1> QED BY <1>16, <1>17, <1>18, <1>19 DEF R

(* The record that an accepted uninstall writes, if any, is in scope and   *)
(* readable, and owns nothing new.                                         *)
LEMMA UninstallRecordOf ==
    ASSUME NEW t, NEW q, q.owner \in Installations,
           Sized(t.record[q.owner]), InScope(q.owner, t.record[q.owner]),
           Remaining(t, q) # {} => SerializeInstallState(q.owner, UninstallRecord(t, q))
    PROVE  LET i == q.owner
               R == UninstallRecord(t, q)
           IN /\ Sized(R) /\ InScope(i, R) /\ Readable(i, R)
              /\ R.dirs \subseteq t.record[i].dirs
<1> DEFINE i == q.owner
           r == t.record[i]
           R == UninstallRecord(t, q)
<1>1. CASE Remaining(t, q) = {}
  <2>1. R = NoRecord
    BY <1>1 DEF UninstallRecord
  <2>2. R.dirs = {} /\ R.targets = {} /\ DOMAIN R.policy = {} /\ DOMAIN R = {"legacy", "version", "policy", "dirs", "targets"}
    BY <2>1 DEF NoRecord
  <2>3. IsFiniteSet({})
    BY FS_EmptySet
  <2> HIDE DEF R
  <2>4. Sized(R) /\ InScope(i, R) /\ R.dirs \subseteq r.dirs
    BY <2>2, <2>3 DEF Sized, InScope
  <2> QED BY <2>1, <2>4 DEF Readable, R
<1>2. CASE Remaining(t, q) # {}
  <2>1. R = [r EXCEPT !.targets = Remaining(t, q), !.dirs = RetainedDirectories(t, q)]
    BY <1>2 DEF UninstallRecord
  <2>2. DOMAIN r = {"legacy", "version", "policy", "dirs", "targets"}
    BY DEF InScope
  <2>3. /\ DOMAIN R = {"legacy", "version", "policy", "dirs", "targets"}
        /\ R.targets = Remaining(t, q) /\ R.dirs = RetainedDirectories(t, q) /\ R.policy = r.policy
    BY <2>1, <2>2
  <2>4. R.targets \in SUBSET r.targets /\ R.dirs \in SUBSET r.dirs
    BY <2>3 DEF Remaining, RetainedDirectories
  <2>5. ParseInstallationState(i, R)
    BY <1>2 DEF SerializeInstallState, ParseInstallationState
  <2>6. ValidateOwnedDirectories(i, R)
    BY <1>2, <2>3 DEF ValidateOwnedDirectories, OwnedDirectory, RetainedDirectories
  <2> HIDE DEF R
  <2>7. IsFiniteSet(R.targets) /\ IsFiniteSet(R.dirs)
    BY <2>4, FS_Subset DEF Sized
  <2>8. Sized(R) /\ InScope(i, R)
    BY <2>3, <2>4, <2>7 DEF Sized, InScope
  <2> QED BY <2>4, <2>5, <2>6, <2>8 DEF Readable, R
<1> QED BY <1>1, <1>2

-----------------------------------------------------------------------------
(* A tree in which the namespaces of every installation stand.             *)
Shaped(t) == DOMAIN t = {"files", "dirs", "record", "saved"}
Standing(t) == Shaped(t) /\ \A j \in Installations : t.record[j].version # 0 => Namespaces(j) \subseteq t.dirs

(* What a step does to records and directories.                            *)
LEMMA DoRecord ==
    ASSUME NEW t, NEW x
    PROVE  /\ Do(t, x).record = IF x.op = "record" THEN [t.record EXCEPT ![x.owner] = x.to] ELSE t.record
           /\ Do(t, x).dirs = IF x.op = "mkdir" THEN t.dirs \union {x.path}
                              ELSE IF x.op = "rmdir" THEN RemoveEmptyDirectory(t, x.path)
                              ELSE IF x.op = "backup" THEN t.dirs \union {StateDir, BackupRoot} ELSE t.dirs
           /\ Shaped(Do(t, x))
BY DEF Do, Shaped

(* No step takes a namespace away from an installation that has a record,  *)
(* as RemoveEmptyDirectory spares what holds a state record.               *)
LEMMA DoStanding ==
    ASSUME NEW t, NEW x, Standing(t), DOMAIN t.record = Installations,
           x.op = "record" => /\ x.owner \in Installations
                              /\ x.to.version # 0 => t.record[x.owner].version # 0
    PROVE  Standing(Do(t, x))
<1>0. Shaped(Do(t, x))
  BY DoRecord
<1>1. CASE x.op = "record"
  <2>1. Do(t, x).dirs = t.dirs /\ Do(t, x).record = [t.record EXCEPT ![x.owner] = x.to]
    BY <1>1, DoRecord
  <2>2. ASSUME NEW j \in Installations, Do(t, x).record[j].version # 0 PROVE t.record[j].version # 0
    <3>1. CASE j = x.owner BY <1>1, <2>1, <2>2, <3>1
    <3>2. CASE j # x.owner BY <1>1, <2>1, <2>2, <3>2
    <3> QED BY <3>1, <3>2
  <2> QED BY <1>0, <2>1, <2>2 DEF Standing
<1>2. CASE x.op # "record"
  <2>1. Do(t, x).record = t.record
    BY <1>2, DoRecord
  <2>2. CASE x.op = "rmdir"
    <3>1. Do(t, x).dirs = RemoveEmptyDirectory(t, x.path)
      BY <2>2, DoRecord
    <3>2. ASSUME NEW j \in Installations, t.record[j].version # 0, NEW d \in Namespaces(j) PROVE d \in Do(t, x).dirs
      <4>1. d \in t.dirs
        BY <3>2 DEF Standing
      <4>2. Below(d, StateFile(j))
        BY NamespacesOf
      <4>3. ~Empty(t, d)
        BY <3>2, <4>2 DEF Empty
      <4> QED BY <3>1, <4>1, <4>3 DEF RemoveEmptyDirectory
    <3> QED BY <1>0, <2>1, <3>2 DEF Standing
  <2>3. CASE x.op # "rmdir"
    <3>1. t.dirs \subseteq Do(t, x).dirs
      BY <2>3, DoRecord
    <3> QED BY <1>0, <2>1, <3>1 DEF Standing
  <2> QED BY <2>2, <2>3
<1> QED BY <1>1, <1>2

(* A run that writes one record leaves the old records or that one, and    *)
(* every namespace standing.                                               *)
LEMMA RunStanding ==
    ASSUME NEW t, NEW X, NEW steps \in Seq(X), NEW i \in Installations, NEW R,
           Standing(t), DOMAIN t.record = Installations,
           \A x \in X : x.op = "record" => x.owner = i /\ x.to = R,
           R.version # 0 => t.record[i].version # 0
    PROVE  /\ Run(t, steps).record \in {t.record, [t.record EXCEPT ![i] = R]}
           /\ Standing(Run(t, steps))
<1> DEFINE T == Trail(t, steps)
           G == {n \in Nat : n <= Len(steps) =>
                    T[n].record \in {t.record, [t.record EXCEPT ![i] = R]} /\ Standing(T[n])}
<1>1. Len(steps) \in Nat
  OBVIOUS
<1>2. Run(t, steps) = T[Len(steps)] /\ T[0] = t /\ \A n \in 1..Len(steps) : T[n] = Do(T[n - 1], steps[n])
  BY <1>1, RunTrail
<1> HIDE DEF T
<1>3. 0 \in G
  BY <1>2
<1>4. ASSUME NEW k \in Nat, k \in G PROVE k + 1 \in G
  <2>1. SUFFICES ASSUME k + 1 <= Len(steps)
                 PROVE  T[k + 1].record \in {t.record, [t.record EXCEPT ![i] = R]} /\ Standing(T[k + 1])
    OBVIOUS
  <2>2. PICK n \in 1..Len(steps) : n = k + 1
    BY <1>1, <2>1
  <2>3. T[n] = Do(T[n - 1], steps[n]) /\ n - 1 = k /\ steps[n] \in X
    BY <1>2, <2>2
  <2> DEFINE x == steps[n]
  <2>4. T[k].record \in {t.record, [t.record EXCEPT ![i] = R]} /\ Standing(T[k])
    BY <1>1, <1>4, <2>1
  <2>5. DOMAIN T[k].record = Installations /\ (R.version # 0 => T[k].record[i].version # 0)
    BY <2>4
  <2>6. x \in X /\ x.op = "record" => x.owner = i /\ x.to = R
    BY <2>3
  <2> HIDE DEF x
  <2>7. Standing(Do(T[k], x))
    BY <2>3, <2>4, <2>5, <2>6, DoStanding DEF x
  <2>8. Do(T[k], x).record \in {t.record, [t.record EXCEPT ![i] = R]}
    <3>1. Do(T[k], x).record = IF x.op = "record" THEN [T[k].record EXCEPT ![x.owner] = x.to] ELSE T[k].record
      BY DoRecord
    <3>2. CASE x.op = "record"
      <4>1. Do(T[k], x).record = [T[k].record EXCEPT ![i] = R]
        BY <2>3, <2>6, <3>1, <3>2 DEF x
      <4>2. [[t.record EXCEPT ![i] = R] EXCEPT ![i] = R] = [t.record EXCEPT ![i] = R]
        OBVIOUS
      <4> QED BY <2>4, <4>1, <4>2
    <3>3. CASE x.op # "record"
      BY <2>4, <3>1, <3>3
    <3> QED BY <3>2, <3>3
  <2> QED BY <2>2, <2>3, <2>7, <2>8 DEF x
<1>5. Len(steps) \in G
  <2> HIDE DEF G
  <2> QED BY <1>1, <1>3, <1>4, SetInduction
<1> QED BY <1>1, <1>2, <1>5

(* A run that neither writes records nor removes directories keeps both,   *)
(* and makes what it plans to make.                                        *)
LEMMA RunQuiet ==
    ASSUME NEW t, NEW X, NEW steps \in Seq(X), \A x \in X : x.op \notin {"record", "rmdir"}
    PROVE  /\ Run(t, steps).record = t.record /\ (Shaped(t) => Shaped(Run(t, steps)))
           /\ t.dirs \subseteq Run(t, steps).dirs
           /\ \A d : Mkdir(d) \in ToSet(steps) => d \in Run(t, steps).dirs
<1> DEFINE T == Trail(t, steps)
           G == {n \in Nat : n <= Len(steps) =>
                    /\ T[n].record = t.record /\ (Shaped(t) => Shaped(T[n])) /\ t.dirs \subseteq T[n].dirs
                    /\ \A m \in 1..n : steps[m].op = "mkdir" => steps[m].path \in T[n].dirs}
<1>1. Len(steps) \in Nat /\ DOMAIN steps = 1..Len(steps)
  OBVIOUS
<1>2. Run(t, steps) = T[Len(steps)] /\ T[0] = t /\ \A n \in 1..Len(steps) : T[n] = Do(T[n - 1], steps[n])
  BY <1>1, RunTrail
<1> HIDE DEF T
<1>3. 0 \in G
  BY <1>2
<1>4. ASSUME NEW k \in Nat, k \in G PROVE k + 1 \in G
  <2>1. SUFFICES ASSUME k + 1 <= Len(steps)
                 PROVE  /\ T[k + 1].record = t.record /\ (Shaped(t) => Shaped(T[k + 1])) /\ t.dirs \subseteq T[k + 1].dirs
                        /\ \A m \in 1..(k + 1) : steps[m].op = "mkdir" => steps[m].path \in T[k + 1].dirs
    OBVIOUS
  <2>2. PICK n \in 1..Len(steps) : n = k + 1
    BY <1>1, <2>1
  <2>3. T[n] = Do(T[n - 1], steps[n]) /\ n - 1 = k /\ steps[n] \in X
    BY <1>2, <2>2
  <2> DEFINE x == steps[n]
  <2>4. /\ T[k].record = t.record /\ t.dirs \subseteq T[k].dirs
        /\ \A m \in 1..k : steps[m].op = "mkdir" => steps[m].path \in T[k].dirs
    BY <1>1, <1>4, <2>1
  <2>5. x.op \notin {"record", "rmdir"}
    BY <2>3
  <2> HIDE DEF x
  <2>6. /\ Do(T[k], x).record = T[k].record /\ T[k].dirs \subseteq Do(T[k], x).dirs
        /\ x.op = "mkdir" => x.path \in Do(T[k], x).dirs
        /\ Shaped(Do(T[k], x))
    BY <2>5, DoRecord
  <2>7. T[k + 1] = Do(T[k], x) /\ x = steps[k + 1]
    BY <2>2, <2>3 DEF x
  <2>8. ASSUME NEW m \in 1..(k + 1), steps[m].op = "mkdir" PROVE steps[m].path \in T[k + 1].dirs
    <3>1. CASE m = k + 1
      BY <2>6, <2>7, <2>8, <3>1
    <3>2. CASE m \in 1..k
      BY <2>4, <2>6, <2>7, <2>8, <3>2
    <3> QED BY <3>1, <3>2
  <2> QED BY <2>4, <2>6, <2>7, <2>8
<1>5. Len(steps) \in G
  <2> HIDE DEF G
  <2> QED BY <1>1, <1>3, <1>4, SetInduction
<1>6. ASSUME NEW d, Mkdir(d) \in ToSet(steps) PROVE d \in Run(t, steps).dirs
  <2>1. PICK m \in 1..Len(steps) : steps[m] = Mkdir(d)
    BY <1>1, <1>6 DEF ToSet
  <2>2. steps[m].op = "mkdir" /\ steps[m].path = d
    BY <2>1 DEF Mkdir
  <2> QED BY <1>1, <1>2, <1>5, <2>2
<1> QED BY <1>1, <1>2, <1>5, <1>6

(* The last step is done to what the steps before it made.                 *)
LEMMA RunAppended ==
    ASSUME NEW t, NEW X, NEW front \in Seq(X), NEW x
    PROVE  Run(t, front \o <<x>>) = Do(Run(t, front), x)
<1> DEFINE whole == front \o <<x>>
           N == Len(front)
           T == Trail(t, front)
           W == Trail(t, whole)
           G == {n \in Nat : n <= N => W[n] = T[n]}
<1>1. /\ N \in Nat /\ Len(whole) = N + 1 /\ whole[N + 1] = x
      /\ \A n \in 1..N : whole[n] = front[n]
  <2>1. front \in Seq(X \union {x}) /\ <<x>> \in Seq(X \union {x})
    OBVIOUS
  <2> QED BY <2>1
<1> HIDE DEF whole
<1>2. Run(t, front) = T[N] /\ T[0] = t /\ \A n \in 1..N : T[n] = Do(T[n - 1], front[n])
  BY <1>1, RunTrail
<1>3. Run(t, whole) = W[N + 1] /\ W[0] = t /\ \A n \in 1..(N + 1) : W[n] = Do(W[n - 1], whole[n])
  <2>1. Len(whole) \in Nat
    BY <1>1
  <2> QED BY <1>1, <2>1, RunTrail
<1> HIDE DEF T, W, N
<1>4. 0 \in G
  BY <1>2, <1>3
<1>5. ASSUME NEW k \in Nat, k \in G PROVE k + 1 \in G
  <2>1. SUFFICES ASSUME k + 1 <= N PROVE W[k + 1] = T[k + 1]
    OBVIOUS
  <2>2. PICK n \in 1..N : n = k + 1
    BY <1>1, <2>1
  <2>3. W[n] = Do(W[n - 1], whole[n]) /\ T[n] = Do(T[n - 1], front[n]) /\ whole[n] = front[n] /\ n - 1 = k
    BY <1>1, <1>2, <1>3, <2>2
  <2>4. W[k] = T[k]
    BY <1>1, <1>5, <2>1
  <2> QED BY <2>2, <2>3, <2>4
<1>6. N \in G
  <2> HIDE DEF G
  <2> QED BY <1>1, <1>4, <1>5, SetInduction
<1>7. W[N + 1] = Do(W[N], x)
  <2>1. PICK n \in 1..(N + 1) : n = N + 1
    BY <1>1
  <2>2. W[n] = Do(W[n - 1], whole[n]) /\ n - 1 = N
    BY <1>1, <1>3, <2>1
  <2> QED BY <1>1, <2>1, <2>2
<1> QED BY <1>1, <1>2, <1>3, <1>6, <1>7 DEF whole

-----------------------------------------------------------------------------
(* A sequence mapped is a sequence.                                        *)
LEMMA MappedSeq ==
    ASSUME NEW s, NEW S, s \in Seq(S), NEW f, DOMAIN f = DOMAIN s, f = [n \in DOMAIN s |-> f[n]]
    PROVE  f \in Seq({f[n] : n \in DOMAIN s}) /\ Len(f) = Len(s)
<1>1. DOMAIN s = 1..Len(s) /\ Len(s) \in Nat
  OBVIOUS
<1> DEFINE X == {f[n] : n \in DOMAIN s}
<1>2. \A n \in 1..Len(s) : f[n] \in X
  BY <1>1
<1> HIDE DEF X
<1>3. f \in Seq(X)
  BY <1>1, <1>2
<1> QED BY <1>1, <1>3 DEF X

(* The Policy Set is written path by path,                                 *)
LEMMA PolicyActionsOf ==
    ASSUME NEW i \in Installations, NEW S, IsFiniteSet(S), S \subseteq Path
    PROVE  PolicyActions(i, S) \in Seq(Path)
<1>1. PolicyPath(i) \in Path
  <2>1. <<"POLICY.md">> \in Path /\ <<"POLICY.md">> # <<>>
    BY DEF Path, Name
  <2> QED BY <2>1, PolicySetDestinationOf DEF PolicyPath
<1>2. S \ {PolicyPath(i)} \in SUBSET S
  OBVIOUS
<1>3. IsFiniteSet(S \ {PolicyPath(i)})
  BY <1>2, FS_Subset
<1>4. Listed(S \ {PolicyPath(i)}) \in Seq(Path)
  <2>1. Listed(S \ {PolicyPath(i)}) \in Seq(S \ {PolicyPath(i)})
    BY <1>3, ListedOf
  <2> QED BY <2>1
<1> QED BY <1>1, <1>4 DEF PolicyActions

(* each write is of the release.                                           *)
LEMMA WritePolicySetOf ==
    ASSUME NEW i \in Installations, NEW R, IsFiniteSet(DOMAIN R.policy), DOMAIN R.policy \subseteq Path
    PROVE  WritePolicySet(i, R) \in Seq({Write(p, Written(R.version)) : p \in Path})
<1> DEFINE paths == PolicyActions(i, DOMAIN R.policy)
           Element(n) == Write(paths[n], Written(R.version))
           X == {Write(p, Written(R.version)) : p \in Path}
<1>1. paths \in Seq(Path)
  BY PolicyActionsOf
<1>2. WritePolicySet(i, R) = [n \in DOMAIN paths |-> Element(n)]
  BY DEF WritePolicySet
<1> HIDE DEF paths
<1>3. DOMAIN paths = 1..Len(paths) /\ Len(paths) \in Nat /\ \A n \in 1..Len(paths) : Element(n) \in X
  BY <1>1
<1> HIDE DEF Element, X
<1>4. WritePolicySet(i, R) \in Seq(X)
  BY <1>2, <1>3
<1> QED BY <1>4 DEF X

(* An install writes its record last, when every namespace that was        *)
(* missing has been made, and removes nothing.                             *)
LEMMA InstallPlan ==
    ASSUME NEW t, NEW q, q.owner \in Installations,
           Sized(InstallRecord(t, q)), InScope(q.owner, InstallRecord(t, q))
    PROVE  LET i == q.owner
               R == InstallRecord(t, q)
           IN \E Q : \E front \in Seq(Q) :
                 /\ \A x \in Q : x.op \notin {"record", "rmdir"}
                 /\ InstallSteps(t, q) = front \o <<Record(i, R)>>
                 /\ \A d \in Namespaces(i) \intersect (R.dirs \ t.dirs) : Mkdir(d) \in ToSet(front)
<1> DEFINE i == q.owner
           R == InstallRecord(t, q)
           artifacts == TargetArtifacts(i, Wanted(t, q))
           Element(n) == LET x == InstalledArtifact(t, i, artifacts[n], q.version) IN Write(x.path, Render(t, x, q.version))
           targets == [n \in DOMAIN artifacts |-> Element(n)]
           Targeted == {targets[n] : n \in DOMAIN artifacts}
           Policed == {Write(p, Written(R.version)) : p \in Path}
           files == WritePolicySet(i, R) \o DistinctActions(targets)
           steps == files \o <<Record(i, R)>>
           planned == R.dirs \ t.dirs
<1>1. InstallSteps(t, q) = MakingDirectories(steps, planned)
  BY DEF InstallSteps
<1>2. artifacts \in Seq(RegistryEntry)
  BY ArtifactsTyped
<1>3. \A n \in DOMAIN artifacts : artifacts[n] \in RegistryEntry
  <2> HIDE DEF artifacts
  <2> QED BY <1>2
<1>4. \A x \in Targeted : x.path \in Path /\ x.op = "write"
  <2>1. SUFFICES ASSUME NEW n \in DOMAIN artifacts PROVE targets[n].path \in Path /\ targets[n].op = "write"
    OBVIOUS
  <2>2. targets[n].path = ArtifactDestination(i, artifacts[n]) /\ targets[n].op = "write"
    <3>1. Element(n).path = ArtifactDestination(i, artifacts[n]) /\ Element(n).op = "write"
      BY DEF Write, InstalledArtifact
    <3> QED BY <3>1
  <2> HIDE DEF targets, artifacts
  <2> QED BY <1>3, <2>1, <2>2, ArtifactDestinationOf
<1>5. targets \in Seq(Targeted)
  <2>1. DOMAIN targets = DOMAIN artifacts /\ targets = [n \in DOMAIN artifacts |-> targets[n]]
    OBVIOUS
  <2> HIDE DEF targets, artifacts
  <2> QED BY <1>2, <2>1, MappedSeq
<1>6. DistinctActions(targets) \in Seq(Targeted)
  <2> HIDE DEF targets, Targeted
  <2> QED BY <1>5, DistinctActionsOf
<1>7. WritePolicySet(i, R) \in Seq(Policed)
  <2>1. IsFiniteSet(DOMAIN R.policy) /\ DOMAIN R.policy \subseteq Path
    BY DEF Sized, InScope
  <2> HIDE DEF R
  <2> QED BY <2>1, WritePolicySetOf
<1>8. \A x \in Policed : x.path \in Path /\ x.op = "write"
  BY DEF Write
<1> DEFINE Y == Policed \union Targeted
           X == Y \union {Record(i, R)}
<1> HIDE DEF Policed, Targeted, targets, artifacts, planned, R
<1>9. files \in Seq(Y)
  BY <1>6, <1>7
<1> HIDE DEF files
<1>10. steps \in Seq(X) /\ Len(steps) = Len(files) + 1 /\ Len(files) \in Nat
       /\ steps[Len(steps)] = Record(i, R) /\ \A n \in 1..Len(files) : steps[n] \in Y
  <2> HIDE DEF Y
  <2>1. files \in Seq(X) /\ <<Record(i, R)>> \in Seq(X)
    BY <1>9
  <2> HIDE DEF X
  <2> QED BY <1>9, <2>1
<1>11. Record(i, R).path = StateFile(i) /\ StateFile(i) \in Path
  BY NamespacesOf DEF Record
<1>12. \A x \in X : x.path \in Path
  BY <1>4, <1>8, <1>11
<1> DEFINE Q == Y \union {Mkdir(d) : d \in planned}
           Before == {steps[n] : n \in 1..(Len(steps) - 1)} \union {Mkdir(d) : d \in planned}
<1> HIDE DEF steps
<1>13. PICK front \in Seq(Before) :
          /\ MakingDirectories(steps, planned) = front \o <<steps[Len(steps)]>>
          /\ \A d \in Parents(steps[Len(steps)].path) \intersect planned : Mkdir(d) \in ToSet(front)
  <2> HIDE DEF X
  <2>1. Len(steps) > 0
    BY <1>10
  <2> QED BY <1>10, <1>12, <2>1, MakingDirectoriesOf
<1>14. Before \subseteq Q
  BY <1>10
<1>15. front \in Seq(Q)
  <2> HIDE DEF Before, Q
  <2> QED BY <1>13, <1>14
<1>16. \A x \in Q : x.op \notin {"record", "rmdir"}
  BY <1>4, <1>8 DEF Mkdir
<1>17. InstallSteps(t, q) = front \o <<Record(i, R)>>
  BY <1>1, <1>10, <1>13
<1>18. \A d \in Namespaces(i) \intersect planned : Mkdir(d) \in ToSet(front)
  BY <1>10, <1>11, <1>13, NamespacesOf
<1> HIDE DEF Q
<1> QED BY <1>15, <1>16, <1>17, <1>18 DEF planned, R

(* A plan in which x is a step, and the only one that writes a record.     *)
RecordsOnly(steps, x) == \E X : /\ steps \in Seq(X)
                                /\ \A y \in X : y.op = "record" => y = x
                                /\ \E n \in DOMAIN steps : steps[n] = x

(* A backup put in front writes no record.                                 *)
LEMMA WithBackupOf ==
    ASSUME NEW t, NEW q, NEW X, NEW steps \in Seq(X), NEW x, \A y \in X : y.op = "record" => y = x,
           \E n \in DOMAIN steps : steps[n] = x
    PROVE  RecordsOnly(WithBackup(t, q, steps), x)
<1> DEFINE b == Backup(Saved(t, {steps[n].path : n \in {m \in DOMAIN steps : Destroys(t, steps[m])}}))
           Y == X \union {b}
<1>1. WithBackup(t, q, steps) = (IF BackupRequired(t, q) THEN <<b>> ELSE <<>>) \o steps
  BY DEF WithBackup
<1>2. b.op = "backup"
  BY DEF Backup
<1> HIDE DEF b
<1>3. \A y \in Y : y.op = "record" => y = x
  BY <1>2
<1>4. steps \in Seq(Y) /\ <<b>> \in Seq(Y)
  OBVIOUS
<1>5. PICK n \in DOMAIN steps : steps[n] = x
  OBVIOUS
<1>6. Len(steps) \in Nat /\ DOMAIN steps = 1..Len(steps)
  OBVIOUS
<1> HIDE DEF Y
<1>7. CASE BackupRequired(t, q)
  <2>1. WithBackup(t, q, steps) = <<b>> \o steps
    BY <1>1, <1>7
  <2>2. /\ <<b>> \o steps \in Seq(Y)
        /\ n + 1 \in DOMAIN (<<b>> \o steps) /\ (<<b>> \o steps)[n + 1] = x
    BY <1>4, <1>5, <1>6
  <2> QED BY <1>3, <2>1, <2>2 DEF RecordsOnly
<1>8. CASE ~BackupRequired(t, q)
  <2>1. WithBackup(t, q, steps) = <<>> \o steps
    BY <1>1, <1>8
  <2>2. <<>> \o steps = steps
    BY <1>4
  <2> QED BY <1>3, <1>4, <1>5, <2>1, <2>2 DEF RecordsOnly
<1> QED BY <1>7, <1>8

(* An update writes one record, its own.                                   *)
LEMMA UpdatePlan ==
    ASSUME NEW t, NEW q, q.owner \in Installations,
           Sized(t.record[q.owner]), InScope(q.owner, t.record[q.owner]),
           Sized(UpdateRecord(t, q)), InScope(q.owner, UpdateRecord(t, q))
    PROVE  RecordsOnly(UpdateSteps(t, q), Record(q.owner, UpdateRecord(t, q)))
<1> DEFINE i == q.owner
           r == t.record[i]
           R == UpdateRecord(t, q)
           artifacts == TargetArtifacts(i, Wanted(t, q))
           obsolete == Listed(Obsolete(r, R))
           Element(n) == LET x == UpdatedArtifact(t, i, artifacts[n], q.version) IN Write(x.path, Render(t, x, q.version))
           targets == [n \in DOMAIN artifacts |-> Element(n)]
           removals == [n \in DOMAIN obsolete |-> Unlink(obsolete[n])]
           Targeted == {targets[n] : n \in DOMAIN artifacts}
           Policed == {Write(p, Written(R.version)) : p \in Path}
           Removed == {removals[n] : n \in DOMAIN obsolete}
           files == DistinctActions(targets) \o WritePolicySet(i, R) \o removals
           steps == files \o <<Record(i, R)>>
           planned == R.dirs \ r.dirs
<1>1. UpdateSteps(t, q) = WithBackup(t, q, MakingDirectories(steps, planned))
  BY DEF UpdateSteps
<1>2. artifacts \in Seq(RegistryEntry)
  BY ArtifactsTyped
<1>3. \A n \in DOMAIN artifacts : artifacts[n] \in RegistryEntry
  <2> HIDE DEF artifacts
  <2> QED BY <1>2
<1>4. ASSUME NEW e \in RegistryEntry PROVE UpdatedArtifact(t, i, e, q.version).path \in Path
  <2> DEFINE old == RecordedArtifact(r, e)
             c == CHOOSE x \in old : TRUE
  <2>1. CASE old # {}
    <3>1. c \in old
      BY <2>1
    <3>2. "path" \in DOMAIN c /\ c.path \in Path
      BY <3>1 DEF RecordedArtifact, InScope, TargetInScope
    <3>3. UpdatedArtifact(t, i, e, q.version) = [c EXCEPT !.checksum = q.version]
      BY <2>1 DEF UpdatedArtifact
    <3> HIDE DEF c, old
    <3> QED BY <3>2, <3>3
  <2>2. CASE old = {}
    <3>1. UpdatedArtifact(t, i, e, q.version) = InstalledArtifact(t, i, e, q.version)
      BY <2>2 DEF UpdatedArtifact
    <3>2. InstalledArtifact(t, i, e, q.version).path = ArtifactDestination(i, e)
      BY DEF InstalledArtifact
    <3> QED BY <3>1, <3>2, ArtifactDestinationOf
  <2> QED BY <2>1, <2>2
<1>5. \A x \in Targeted : x.path \in Path /\ x.op = "write"
  <2>1. SUFFICES ASSUME NEW n \in DOMAIN artifacts PROVE targets[n].path \in Path /\ targets[n].op = "write"
    OBVIOUS
  <2>2. targets[n].path = UpdatedArtifact(t, i, artifacts[n], q.version).path /\ targets[n].op = "write"
    <3>1. Element(n).path = UpdatedArtifact(t, i, artifacts[n], q.version).path /\ Element(n).op = "write"
      BY DEF Write
    <3> QED BY <3>1
  <2> HIDE DEF targets, artifacts
  <2> QED BY <1>3, <1>4, <2>1, <2>2
<1>6. targets \in Seq(Targeted)
  <2>1. DOMAIN targets = DOMAIN artifacts /\ targets = [n \in DOMAIN artifacts |-> targets[n]]
    OBVIOUS
  <2> HIDE DEF targets, artifacts
  <2> QED BY <1>2, <2>1, MappedSeq
<1>7. DistinctActions(targets) \in Seq(Targeted)
  <2> HIDE DEF targets, Targeted
  <2> QED BY <1>6, DistinctActionsOf
<1>8. WritePolicySet(i, R) \in Seq(Policed)
  <2>1. IsFiniteSet(DOMAIN R.policy) /\ DOMAIN R.policy \subseteq Path
    BY DEF Sized, InScope
  <2> HIDE DEF R
  <2> QED BY <2>1, WritePolicySetOf
<1>9. \A x \in Policed : x.path \in Path /\ x.op = "write"
  BY DEF Write
<1>10. obsolete \in Seq(Path)
  <2>1. Obsolete(r, R) \in SUBSET DOMAIN r.policy
    BY DEF Obsolete
  <2>2. IsFiniteSet(DOMAIN r.policy) /\ DOMAIN r.policy \subseteq Path
    BY DEF Sized, InScope
  <2>3. IsFiniteSet(Obsolete(r, R)) /\ Obsolete(r, R) \subseteq Path
    <3> HIDE DEF R, r
    <3> QED BY <2>1, <2>2, FS_Subset
  <2>4. obsolete \in Seq(Obsolete(r, R))
    BY <2>3, ListedOf
  <2> QED BY <2>3, <2>4
<1>11. removals \in Seq(Removed)
  <2>1. DOMAIN removals = DOMAIN obsolete /\ removals = [n \in DOMAIN obsolete |-> removals[n]]
    OBVIOUS
  <2> HIDE DEF removals, obsolete
  <2> QED BY <1>10, <2>1, MappedSeq
<1>12. \A x \in Removed : x.path \in Path /\ x.op = "remove"
  <2>1. SUFFICES ASSUME NEW n \in DOMAIN obsolete PROVE removals[n].path \in Path /\ removals[n].op = "remove"
    OBVIOUS
  <2>2. removals[n].path = obsolete[n] /\ removals[n].op = "remove"
    BY DEF Unlink
  <2> HIDE DEF removals, obsolete
  <2> QED BY <1>10, <2>1, <2>2
<1> DEFINE Y == Policed \union Targeted \union Removed
           x == Record(i, R)
           X == Y \union {x}
<1> HIDE DEF Policed, Targeted, Removed, targets, artifacts, obsolete, removals, planned, R
<1>13. files \in Seq(Y)
  <2>1. /\ DistinctActions(targets) \in Seq(Y) /\ WritePolicySet(i, R) \in Seq(Y)
        /\ removals \in Seq(Y)
    BY <1>7, <1>8, <1>11
  <2> HIDE DEF Y
  <2> QED BY <2>1
<1> HIDE DEF files, x
<1>14. steps \in Seq(X) /\ Len(steps) = Len(files) + 1 /\ Len(files) \in Nat /\ steps[Len(steps)] = x
  <2> HIDE DEF Y
  <2>1. files \in Seq(X) /\ <<x>> \in Seq(X)
    BY <1>13
  <2> HIDE DEF X
  <2>2. steps = files \o <<x>>
    BY DEF x
  <2> QED BY <1>13, <2>1, <2>2
<1>15. x.path = StateFile(i) /\ StateFile(i) \in Path
  BY NamespacesOf DEF Record, x
<1>16. \A y \in X : y.path \in Path
  BY <1>5, <1>9, <1>12, <1>15
<1>17. \A y \in Y : y.op # "record"
  BY <1>5, <1>9, <1>12
<1> DEFINE Made == {Mkdir(d) : d \in planned}
           Z == X \union Made
           Before == {steps[n] : n \in 1..(Len(steps) - 1)} \union Made
           plan == MakingDirectories(steps, planned)
<1>18. plan \in Seq(Z) /\ \E front \in Seq(Before) : plan = front \o <<x>>
  <2> HIDE DEF X, steps
  <2>1. Len(steps) > 0
    BY <1>14
  <2> QED BY <1>14, <1>16, <2>1, MakingDirectoriesOf
<1>19. \A y \in Z : y.op = "record" => y = x
  <2>1. \A y \in Made : y.op = "mkdir"
    BY DEF Mkdir
  <2> QED BY <1>17, <2>1
<1> HIDE DEF plan, Z, Before
<1>20. \E n \in DOMAIN plan : plan[n] = x
  <2>1. PICK front \in Seq(Before) : plan = front \o <<x>>
    BY <1>18
  <2>2. Len(front) + 1 \in DOMAIN (front \o <<x>>) /\ (front \o <<x>>)[Len(front) + 1] = x
    <3>1. front \in Seq(Before \union {x}) /\ <<x>> \in Seq(Before \union {x})
      OBVIOUS
    <3> QED BY <3>1
  <2> QED BY <2>1, <2>2
<1>21. UpdateSteps(t, q) = WithBackup(t, q, plan)
  BY <1>1 DEF plan
<1>22. RecordsOnly(UpdateSteps(t, q), x)
  BY <1>18, <1>19, <1>20, <1>21, WithBackupOf
<1> QED BY <1>22 DEF x, R

(* Ordered is a sequence whatever the ranks are.                           *)
LEMMA OrderedSequence ==
    ASSUME NEW S, IsFiniteSet(S), NEW rank
    PROVE  \E X : Ordered(S, rank) \in Seq(X)
<1> DEFINE l == Listing(S, rank)
           N == Cardinality(S)
           Least(n) == CHOOSE x \in S \ ToSet(l[n - 1]) : \A y \in S \ ToSet(l[n - 1]) : rank[x] <= rank[y]
           X == {Least(n) : n \in 1..N}
           G == {n \in Nat : n <= N => l[n] \in Seq(X)}
<1>1. N \in Nat
  BY FS_CardinalityType
<1>2. l[0] = <<>> /\ \A n \in 1..N : l[n] = Append(l[n - 1], Least(n))
  BY ListingSteps
<1>3. Ordered(S, rank) = l[N]
  BY ListingSteps
<1> HIDE DEF Least, l, N
<1>4. 0 \in G
  <2>1. <<>> \in Seq(X)
    OBVIOUS
  <2> QED BY <1>2, <2>1, 0 \in Nat
<1>5. ASSUME NEW k \in Nat, k \in G PROVE k + 1 \in G
  <2>1. SUFFICES ASSUME k + 1 <= N PROVE l[k + 1] \in Seq(X)
    OBVIOUS
  <2>2. PICK n \in 1..N : n = k + 1
    BY <1>1, <2>1
  <2>3. l[n] = Append(l[n - 1], Least(n)) /\ n - 1 = k /\ Least(n) \in X
    BY <1>2, <2>2
  <2>4. l[k] \in Seq(X)
    BY <1>1, <1>5, <2>1
  <2> HIDE DEF X
  <2> QED BY <2>2, <2>3, <2>4
<1>6. N \in G
  <2> HIDE DEF G
  <2> QED BY <1>1, <1>4, <1>5, SetInduction
<1>7. l[N] \in Seq(X)
  BY <1>1, <1>6
<1> HIDE DEF X
<1> QED BY <1>3, <1>7

(* RemoveDirectories removes these directories.                            *)
LEMMA RemoveDirectoriesOf ==
    ASSUME NEW D, IsFiniteSet(D), D \subseteq Path
    PROVE  RemoveDirectories(D) \in Seq({Rmdir(d) : d \in D})
<1> DEFINE ds == DeepestFirst(D)
           Element(n) == Rmdir(ds[n])
           X == {Rmdir(d) : d \in D}
<1>1. ds \in Seq(D)
  BY DeepestFirstOf
<1>2. RemoveDirectories(D) = [n \in DOMAIN ds |-> Element(n)]
  BY DEF RemoveDirectories
<1> HIDE DEF ds
<1>3. DOMAIN ds = 1..Len(ds) /\ Len(ds) \in Nat /\ \A n \in 1..Len(ds) : Element(n) \in X
  BY <1>1
<1> HIDE DEF Element, X
<1>4. RemoveDirectories(D) \in Seq(X)
  BY <1>2, <1>3
<1> QED BY <1>4 DEF X

(* An uninstall writes one record, its own.                                *)
LEMMA UninstallPlan ==
    ASSUME NEW t, NEW q, q.owner \in Installations, Installed(t, q.owner),
           Sized(t.record[q.owner]), InScope(q.owner, t.record[q.owner])
    PROVE  RecordsOnly(UninstallSteps(t, q), Record(q.owner, UninstallRecord(t, q)))
<1> DEFINE i == q.owner
           r == t.record[i]
           R == UninstallRecord(t, q)
           remaining == Remaining(t, q)
           removed == {x \in r.targets \ remaining : ~\E y \in remaining : y.path = x.path}
           gone == Ordered(removed, [x \in removed |-> TargetArtifactPosition(x)])
           unlinked == [n \in DOMAIN gone |-> UninstallTarget(t, gone[n])]
           targets == DistinctActions(unlinked)
           directories == r.dirs \ RetainedDirectories(t, q)
           policy == PolicyActions(i, DOMAIN r.policy)
           namespaces == {d \in directories : InstallNamespaceDirectory(i, d)}
           PolicyStep(n) == IF remaining = {} THEN Unlink(policy[n]) ELSE Retain(policy[n])
           files == [n \in DOMAIN policy |-> PolicyStep(n)]
           x == Record(i, R)
           front == targets \o RemoveDirectories(directories \ namespaces) \o files
           plan == front \o <<x>> \o RemoveDirectories(namespaces)
<1>1. UninstallSteps(t, q) = WithBackup(t, q, plan)
  BY DEF UninstallSteps
<1> DEFINE Targeted == {unlinked[n] : n \in DOMAIN gone}
           Policed == {files[n] : n \in DOMAIN policy}
           Removed == {Rmdir(d) : d \in directories}
           Y == Targeted \union Policed \union Removed
           Z == Y \union {x}
<1>2. targets \in Seq(Targeted)
  <2>1. removed \in SUBSET r.targets
    OBVIOUS
  <2>2. IsFiniteSet(removed)
    <3> HIDE DEF removed
    <3> QED BY <2>1, FS_Subset DEF Sized
  <2>3. PICK S : gone \in Seq(S)
    <3> HIDE DEF removed
    <3> QED BY <2>2, OrderedSequence
  <2>4. DOMAIN unlinked = DOMAIN gone /\ unlinked = [n \in DOMAIN gone |-> unlinked[n]]
    OBVIOUS
  <2> HIDE DEF gone, unlinked
  <2>5. unlinked \in Seq(Targeted)
    BY <2>3, <2>4, MappedSeq
  <2> HIDE DEF Targeted
  <2> QED BY <2>5, DistinctActionsOf
<1>3. \A y \in Targeted : y.op # "record"
  <2>1. SUFFICES ASSUME NEW n \in DOMAIN gone PROVE unlinked[n].op # "record"
    OBVIOUS
  <2>2. unlinked[n] = UninstallTarget(t, gone[n])
    OBVIOUS
  <2>3. \A z : UninstallTarget(t, z).op \in {"remove", "write"}
    BY DEF UninstallTarget, Unlink, Write
  <2> HIDE DEF unlinked, gone
  <2> QED BY <2>2, <2>3
<1>4. files \in Seq(Policed)
  <2>1. policy \in Seq(Path)
    BY PolicyActionsOf DEF Sized, InScope
  <2>2. DOMAIN files = DOMAIN policy /\ files = [n \in DOMAIN policy |-> files[n]]
    OBVIOUS
  <2> HIDE DEF files, policy
  <2> QED BY <2>1, <2>2, MappedSeq
<1>5. \A y \in Policed : y.op # "record"
  <2>1. SUFFICES ASSUME NEW n \in DOMAIN policy PROVE files[n].op # "record"
    OBVIOUS
  <2>2. files[n] = PolicyStep(n) /\ PolicyStep(n).op # "record"
    BY DEF Unlink, Retain
  <2> QED BY <2>2
<1>6. directories \in SUBSET r.dirs
  OBVIOUS
<1> HIDE DEF directories
<1>7. IsFiniteSet(directories) /\ directories \subseteq Path
  <2>1. IsFiniteSet(r.dirs) /\ r.dirs \subseteq Path
    BY DEF Sized, InScope, DirectoryInScope
  <2> HIDE DEF r
  <2> QED BY <1>6, <2>1, FS_Subset
<1>8. RemoveDirectories(directories \ namespaces) \in Seq(Removed) /\ RemoveDirectories(namespaces) \in Seq(Removed)
  <2>1. ASSUME NEW D, D \in SUBSET directories PROVE RemoveDirectories(D) \in Seq(Removed)
    <3>1. IsFiniteSet(D) /\ D \subseteq Path
      BY <1>7, <2>1, FS_Subset
    <3>2. RemoveDirectories(D) \in Seq({Rmdir(d) : d \in D})
      BY <3>1, RemoveDirectoriesOf
    <3>3. {Rmdir(d) : d \in D} \subseteq Removed
      BY <2>1
    <3> HIDE DEF Removed
    <3> QED BY <3>2, <3>3
  <2>2. directories \ namespaces \in SUBSET directories /\ namespaces \in SUBSET directories
    OBVIOUS
  <2> HIDE DEF namespaces, Removed
  <2> QED BY <2>1, <2>2
<1>9. \A y \in Removed : y.op # "record"
  BY DEF Rmdir
<1> HIDE DEF Targeted, Policed, Removed, targets, files, namespaces, x
<1>10. front \in Seq(Y)
  <2>1. targets \in Seq(Y) /\ RemoveDirectories(directories \ namespaces) \in Seq(Y) /\ files \in Seq(Y)
    BY <1>2, <1>4, <1>8
  <2> HIDE DEF Y
  <2> QED BY <2>1
<1> HIDE DEF front
<1>11. /\ plan \in Seq(Z)
       /\ Len(front) + 1 \in DOMAIN plan /\ plan[Len(front) + 1] = x
  <2> DEFINE tail == RemoveDirectories(namespaces)
  <2>1. front \in Seq(Z) /\ <<x>> \in Seq(Z) /\ tail \in Seq(Z)
    BY <1>8, <1>10
  <2> HIDE DEF Z, tail
  <2>2. plan = front \o <<x>> \o tail
    BY DEF tail
  <2>3. front \o <<x>> \in Seq(Z) /\ Len(front \o <<x>>) = Len(front) + 1 /\ (front \o <<x>>)[Len(front) + 1] = x
        /\ Len(front) \in Nat
    BY <2>1
  <2> HIDE DEF plan
  <2>4. Len(plan) = Len(front) + 1 + Len(tail) /\ plan \in Seq(Z) /\ Len(tail) \in Nat
    BY <2>1, <2>2, <2>3
  <2>5. plan[Len(front) + 1] = x
    BY <2>1, <2>2, <2>3
  <2> QED BY <2>3, <2>4, <2>5
<1>12. \A y \in Z : y.op = "record" => y = x
  BY <1>3, <1>5, <1>9
<1> HIDE DEF Z, plan
<1>13. RecordsOnly(UninstallSteps(t, q), x)
  BY <1>1, <1>11, <1>12, WithBackupOf
<1> QED BY <1>13 DEF x, R

-----------------------------------------------------------------------------
(* What is inductive about a tree: every record is kept as above, the      *)
(* namespaces of the installed stand, and no directory has two owners.     *)
Kept(i, r) == Sized(r) /\ InScope(i, r) /\ Readable(i, r)
Good(t) == /\ DOMAIN t.record = Installations
           /\ \A i \in Installations : Kept(i, t.record[i])
           /\ Standing(t)
           /\ \A i, j \in Installations : i # j => t.record[i].dirs \intersect t.record[j].dirs = {}

(* A readable record has a version exactly when there is one.              *)
LEMMA ReadableVersion ==
    ASSUME NEW i, NEW r, Readable(i, r)
    PROVE  r.version # 0 <=> r # NoRecord
<1>1. NoRecord.version = 0
  BY DEF NoRecord
<1>2. r # NoRecord => r.version \in Versions
  BY DEF Readable, ParseInstallationState
<1> QED BY <1>1, <1>2, PolicySetAssumption

(* The tree stays good when at most one record changes, for a good one     *)
(* that owns nothing of another's.                                         *)
LEMMA GoodAfter ==
    ASSUME NEW t, Good(t), NEW u, Standing(u), NEW i \in Installations, NEW R, Kept(i, R),
           \A j \in Installations : j # i => R.dirs \intersect t.record[j].dirs = {},
           u.record \in {t.record, [t.record EXCEPT ![i] = R]}
    PROVE  Good(u)
<1>1. CASE u.record = t.record
  BY <1>1 DEF Good
<1>2. CASE u.record = [t.record EXCEPT ![i] = R]
  <2>1. DOMAIN u.record = Installations /\ \A j \in Installations : u.record[j] = IF j = i THEN R ELSE t.record[j]
    BY <1>2 DEF Good
  <2>2. \A j \in Installations : Kept(j, u.record[j])
    BY <2>1 DEF Good
  <2>3. ASSUME NEW j \in Installations, NEW k \in Installations, j # k
        PROVE  u.record[j].dirs \intersect u.record[k].dirs = {}
    <3>1. \A a \in Installations : u.record[a] = IF a = i THEN R ELSE t.record[a]
      BY <2>1
    <3>2. t.record[j].dirs \intersect t.record[k].dirs = {}
      BY <2>3 DEF Good
    <3>3. CASE j = i BY <2>3, <3>1, <3>3
    <3>4. CASE k = i BY <2>3, <3>1, <3>4
    <3>5. CASE j # i /\ k # i BY <3>1, <3>2, <3>5
    <3> QED BY <3>3, <3>4, <3>5
  <2> QED BY <2>1, <2>2, <2>3 DEF Good
<1> QED BY <1>1, <1>2

(* Done to t, the steps, and every part of them a killed command has done, *)
(* leave a good tree.                                                      *)
Carries(t, steps) == Good(Run(t, steps)) /\ \A n \in 1..(Len(steps) - 1) : Good(Run(t, SubSeq(steps, 1, n)))

(* Steps that write one good record leave a good tree, killed or not.      *)
LEMMA CarriedRecord ==
    ASSUME NEW t, Good(t), NEW X, NEW steps \in Seq(X), NEW i \in Installations, NEW R, Kept(i, R),
           \A x \in X : x.op = "record" => x = Record(i, R),
           \A j \in Installations : j # i => R.dirs \intersect t.record[j].dirs = {},
           R.version # 0 => t.record[i].version # 0
    PROVE  Carries(t, steps)
<1>1. \A x \in X : x.op = "record" => x.owner = i /\ x.to = R
  BY DEF Record
<1>2. ASSUME NEW run \in Seq(X) PROVE Good(Run(t, run))
  <2>1. Run(t, run).record \in {t.record, [t.record EXCEPT ![i] = R]} /\ Standing(Run(t, run))
    BY <1>1, <1>2, RunStanding DEF Good
  <2> QED BY <2>1, GoodAfter
<1>3. \A n \in 1..(Len(steps) - 1) : SubSeq(steps, 1, n) \in Seq(X)
  OBVIOUS
<1> QED BY <1>2, <1>3 DEF Carries

(* So do steps that write none.                                            *)
LEMMA CarriedQuiet ==
    ASSUME NEW t, Good(t), NEW X, NEW steps \in Seq(X), NEW i \in Installations, \A x \in X : x.op # "record"
    PROVE  Carries(t, steps)
<1>1. Kept(i, t.record[i]) /\ \A j \in Installations : j # i => t.record[i].dirs \intersect t.record[j].dirs = {}
  BY DEF Good
<1> QED BY <1>1, CarriedRecord

(* Two installations have no root in common.                               *)
LEMMA ScopesApart ==
    ASSUME NEW i \in Installations, NEW j \in Installations, i # j
    PROVE  Scope(i) \intersect Scope(j) = {} /\ "state" \notin Scope(i)
BY InstallationsAssumption DEF Scope

(* An install leaves a good tree: what it newly owns was missing, so       *)
(* nobody who counts on it owned it.                                       *)
LEMMA InstallCarries ==
    ASSUME NEW t, Good(t), NEW q \in Requests, q.kind = "install", Accepted(t, q)
    PROVE  Carries(t, InstallSteps(t, q))
<1> DEFINE i == q.owner
           R == InstallRecord(t, q)
           x == Record(i, R)
<1>1. i \in Installations /\ q.version \in Versions
  BY RequestsAssumption
<1>2. Kept(i, t.record[i])
  BY <1>1 DEF Good
<1>3. SerializeInstallState(i, R) /\ ValidateOwnedDirectories(i, R)
  BY DEF Accepted, InstallAccepted
<1>4. /\ Sized(R) /\ InScope(i, R) /\ R # NoRecord
      /\ ParseInstallationState(i, R) /\ ValidateOwnedDirectories(i, R)
      /\ \A d \in R.dirs : d \in t.record[i].dirs \/ d \notin t.dirs
      /\ Namespaces(i) \subseteq t.dirs \union R.dirs
  BY <1>1, <1>2, <1>3, InstallRecordOf DEF Kept
<1>5. PICK Q : \E front \in Seq(Q) :
                 /\ \A y \in Q : y.op \notin {"record", "rmdir"}
                 /\ InstallSteps(t, q) = front \o <<x>>
                 /\ \A d \in Namespaces(i) \intersect (R.dirs \ t.dirs) : Mkdir(d) \in ToSet(front)
  BY <1>1, <1>4, InstallPlan
<1>6. PICK front \in Seq(Q) :
                 /\ \A y \in Q : y.op \notin {"record", "rmdir"}
                 /\ InstallSteps(t, q) = front \o <<x>>
                 /\ \A d \in Namespaces(i) \intersect (R.dirs \ t.dirs) : Mkdir(d) \in ToSet(front)
  BY <1>5
<1>7. x.op = "record" /\ x.owner = i /\ x.to = R
  BY DEF Record
<1>8. Kept(i, R)
  BY <1>4 DEF Kept, Readable
<1> HIDE DEF R, x
<1>9. ASSUME NEW j \in Installations, j # i PROVE R.dirs \intersect t.record[j].dirs = {}
  <2>1. SUFFICES ASSUME NEW d \in R.dirs, d \in t.record[j].dirs PROVE FALSE
    OBVIOUS
  <2>2. d \notin t.record[i].dirs
    BY <1>1, <1>9, <2>1 DEF Good
  <2>3. d \notin t.dirs
    BY <1>4, <2>2
  <2>4. DirectoryInScope(i, d) /\ DirectoryInScope(j, d)
    BY <1>4, <1>9, <2>1 DEF Good, Kept, InScope
  <2>5. d \in Namespaces(j)
    <3>1. SUFFICES ASSUME d \notin Namespaces(j) PROVE FALSE
      OBVIOUS
    <3>2. d[1] \in Scope(j)
      BY <2>4, <3>1 DEF DirectoryInScope
    <3>3. d[1] \notin Scope(i) /\ d[1] # "state"
      BY <1>1, <1>9, <3>2, ScopesApart
    <3>4. d \in Namespaces(i)
      BY <2>4, <3>3 DEF DirectoryInScope
    <3> QED BY <1>1, <3>3, <3>4, NamespacesOf
  <2>6. t.record[j].version # 0
    <3>1. t.record[j] # NoRecord
      BY <2>1 DEF NoRecord
    <3>2. Readable(j, t.record[j])
      BY DEF Good, Kept
    <3> QED BY <3>1, <3>2, ReadableVersion
  <2> QED BY <2>3, <2>5, <2>6 DEF Good, Standing
<1>10. ASSUME NEW run \in Seq(Q) PROVE Good(Run(t, run))
  <2>1. Run(t, run).record = t.record /\ Shaped(Run(t, run)) /\ t.dirs \subseteq Run(t, run).dirs
    BY <1>6, <1>10, RunQuiet DEF Good, Standing
  <2>2. Standing(Run(t, run))
    BY <2>1 DEF Good, Standing
  <2> QED BY <2>1, <2>2 DEF Good
<1>11. Good(Run(t, front \o <<x>>))
  <2> DEFINE s == Run(t, front)
             u == Run(t, front \o <<x>>)
  <2>1. u = Do(s, x)
    BY <1>6, RunAppended
  <2>2. s.record = t.record /\ t.dirs \subseteq s.dirs /\ \A d : Mkdir(d) \in ToSet(front) => d \in s.dirs
    BY <1>6, RunQuiet
  <2> HIDE DEF s, u
  <2>3. u.record = [t.record EXCEPT ![i] = R] /\ u.dirs = s.dirs
    <3>1. Do(s, x).record = IF x.op = "record" THEN [s.record EXCEPT ![x.owner] = x.to] ELSE s.record
      BY DoRecord
    <3>2. Do(s, x).dirs = s.dirs
      BY <1>7, DoRecord
    <3> QED BY <1>7, <2>1, <2>2, <3>1, <3>2
  <2>4. Namespaces(i) \subseteq u.dirs
    BY <1>4, <1>6, <2>2, <2>3
  <2>5. Standing(u)
    <3>1. SUFFICES ASSUME NEW j \in Installations, u.record[j].version # 0 PROVE Namespaces(j) \subseteq u.dirs
      <4>1. Shaped(u)
        BY <2>1, DoRecord
      <4> QED BY <4>1 DEF Standing
    <3>2. CASE j = i BY <2>4, <3>2
    <3>3. CASE j # i
      <4>1. u.record[j] = t.record[j]
        BY <2>3, <3>3 DEF Good
      <4> QED BY <2>2, <2>3, <3>1, <4>1 DEF Good, Standing
    <3> QED BY <3>2, <3>3
  <2>6. Good(u)
    BY <1>1, <1>8, <1>9, <2>3, <2>5, GoodAfter
  <2> QED BY <2>6 DEF u
<1>12. ASSUME NEW n \in 1..(Len(front \o <<x>>) - 1) PROVE SubSeq(front \o <<x>>, 1, n) \in Seq(Q)
  <2> DEFINE whole == front \o <<x>>
  <2>1. /\ Len(whole) = Len(front) + 1 /\ Len(front) \in Nat
        /\ \A m \in 1..Len(front) : whole[m] = front[m] /\ front[m] \in Q
    <3>1. front \in Seq(Q \union {x}) /\ <<x>> \in Seq(Q \union {x})
      OBVIOUS
    <3> QED BY <3>1
  <2>2. n \in 1..Len(front)
    BY <2>1
  <2> HIDE DEF whole
  <2>3. SubSeq(whole, 1, n) = [m \in 1..n |-> whole[m]]
    BY <2>2
  <2>4. \A m \in 1..n : whole[m] \in Q
    BY <2>1, <2>2
  <2> QED BY <2>2, <2>3, <2>4 DEF whole
<1> QED BY <1>6, <1>10, <1>11, <1>12 DEF Carries

(* So does an update of the record it has seen.                            *)
LEMMA UpdateCarries ==
    ASSUME NEW t, Good(t), NEW seen, Good(seen), NEW q \in Requests, UpdateAccepted(seen, q),
           ForceVerdict(seen, q) # "manual", seen.record[q.owner] = t.record[q.owner]
    PROVE  Carries(t, UpdateSteps(seen, q))
<1> DEFINE i == q.owner
           R == UpdateRecord(seen, q)
<1>1. i \in Installations /\ q.version \in Versions
  BY RequestsAssumption
<1>2. Kept(i, seen.record[i])
  BY <1>1 DEF Good
<1>3. SerializeInstallState(i, R) /\ ValidateOwnedDirectories(i, R) /\ Installed(seen, i)
  BY DEF UpdateAccepted
<1>4. /\ Sized(R) /\ InScope(i, R) /\ R # NoRecord
      /\ ParseInstallationState(i, R) /\ ValidateOwnedDirectories(i, R)
      /\ \A d \in R.dirs : \/ d \in seen.record[i].dirs
                           \/ d \in Namespaces(i) /\ d \notin seen.dirs
                           \/ d[1] \in Scope(i)
  BY <1>1, <1>2, <1>3, UpdateRecordOf DEF Kept
<1>5. Kept(i, R)
  BY <1>4 DEF Kept, Readable
<1>6. RecordsOnly(UpdateSteps(seen, q), Record(i, R))
  BY <1>1, <1>2, <1>4, UpdatePlan DEF Kept
<1> HIDE DEF R
<1>7. seen.record[i].version # 0
  BY <1>2, <1>3, ReadableVersion DEF Kept, Installed
<1>8. Namespaces(i) \subseteq seen.dirs
  BY <1>1, <1>7 DEF Good, Standing
<1>9. ASSUME NEW j \in Installations, j # i PROVE R.dirs \intersect t.record[j].dirs = {}
  <2>1. SUFFICES ASSUME NEW d \in R.dirs, d \in t.record[j].dirs PROVE FALSE
    OBVIOUS
  <2>2. d \notin seen.record[i].dirs
    BY <1>1, <1>9, <2>1 DEF Good
  <2>3. d[1] \in Scope(i)
    BY <1>4, <1>8, <2>2
  <2>4. DirectoryInScope(j, d)
    BY <1>9, <2>1 DEF Good, Kept, InScope
  <2>5. d[1] \notin Scope(j) /\ d[1] # "state"
    BY <1>1, <1>9, <2>3, ScopesApart
  <2> QED BY <2>4, <2>5, NamespacesOf DEF DirectoryInScope
<1>10. PICK X : UpdateSteps(seen, q) \in Seq(X) /\ \A x \in X : x.op = "record" => x = Record(i, R)
  BY <1>6 DEF RecordsOnly
<1>11. t.record[i].version # 0
  BY <1>7
<1> QED BY <1>1, <1>5, <1>9, <1>10, <1>11, CarriedRecord

(* So does an uninstall of the record it has seen.                         *)
LEMMA UninstallCarries ==
    ASSUME NEW t, Good(t), NEW seen, Good(seen), NEW q \in Requests, UninstallAccepted(seen, q),
           Installed(seen, q.owner), ForceVerdict(seen, q) # "manual", seen.record[q.owner] = t.record[q.owner]
    PROVE  Carries(t, UninstallSteps(seen, q))
<1> DEFINE i == q.owner
           R == UninstallRecord(seen, q)
<1>1. i \in Installations
  BY RequestsAssumption
<1>2. Kept(i, seen.record[i])
  BY <1>1 DEF Good
<1>3. Remaining(seen, q) # {} => SerializeInstallState(i, R)
  BY DEF UninstallAccepted
<1>4. Sized(R) /\ InScope(i, R) /\ Readable(i, R) /\ R.dirs \subseteq seen.record[i].dirs
  BY <1>1, <1>2, <1>3, UninstallRecordOf DEF Kept
<1>5. RecordsOnly(UninstallSteps(seen, q), Record(i, R))
  BY <1>1, <1>2, UninstallPlan DEF Kept
<1> HIDE DEF R
<1>6. Kept(i, R)
  BY <1>4 DEF Kept
<1>7. t.record[i].version # 0
  <2>1. seen.record[i].version # 0
    BY <1>2, ReadableVersion DEF Kept, Installed
  <2> QED BY <2>1
<1>8. \A j \in Installations : j # i => R.dirs \intersect t.record[j].dirs = {}
  BY <1>1, <1>4 DEF Good
<1>9. PICK X : UninstallSteps(seen, q) \in Seq(X) /\ \A x \in X : x.op = "record" => x = Record(i, R)
  BY <1>5 DEF RecordsOnly
<1> QED BY <1>1, <1>6, <1>7, <1>8, <1>9, CarriedRecord

(* A plan that is still valid writes over the record it has seen.          *)
LEMMA RecordSeen ==
    ASSUME NEW q, NEW seen, StillValid(q, seen, Steps(seen, q)), NEW i, NEW R,
           RecordsOnly(Steps(seen, q), Record(i, R))
    PROVE  seen.record[i] = tree.record[i]
<1>1. PICK n \in DOMAIN Steps(seen, q) : Steps(seen, q)[n] = Record(i, R)
  BY DEF RecordsOnly
<1>2. SameAsSeen(seen, Record(i, R))
  BY <1>1 DEF StillValid
<1>3. Record(i, R).op = "record" /\ Record(i, R).owner = i
  BY DEF Record
<1> QED BY <1>2, <1>3 DEF SameAsSeen

(* Whatever a process has prepared, it leaves a good tree if the plan is   *)
(* still valid, killed or not.                                             *)
LEMMA PlanCarries ==
    ASSUME Good(tree), NEW seen, Good(seen), NEW q \in Requests, Accepted(seen, q),
           StillValid(q, seen, Steps(seen, q))
    PROVE  Carries(tree, Steps(seen, q))
<1> DEFINE i == q.owner
<1>1. i \in Installations /\ q.version \in Versions
  BY RequestsAssumption
<1>2. Kept(i, seen.record[i])
  BY <1>1 DEF Good
<1>3. CASE Manual(seen, q)
  <2> DEFINE x == Backup(Saved(seen, {y.path : y \in ForcedPreparation(seen, q).record} \union {PolicyPath(i)}))
  <2>1. Steps(seen, q) = <<x>>
    BY <1>3 DEF Steps, ManualRecovery
  <2>2. x.op # "record"
    BY DEF Backup
  <2> HIDE DEF x
  <2>3. <<x>> \in Seq({x}) /\ \A y \in {x} : y.op # "record"
    BY <2>2
  <2> DEFINE X == {x}
             steps == <<x>>
  <2>4. steps \in Seq(X) /\ \A y \in X : y.op # "record"
    BY <2>3
  <2>5. Steps(seen, q) = steps
    BY <2>1
  <2> HIDE DEF X, steps
  <2>6. Carries(tree, steps)
    BY <1>1, <2>4, CarriedQuiet
  <2> QED BY <2>5, <2>6
<1>4. CASE ~Manual(seen, q) /\ q.kind = "install"
  <2>1. Steps(seen, q) = InstallSteps(tree, q) /\ Legible(tree, i) /\ InstallAccepted(tree, q)
    BY <1>4 DEF StillValid, PreparedAgain
  <2>2. Accepted(tree, q)
    BY <1>4, <2>1 DEF Accepted
  <2> QED BY <1>4, <2>1, <2>2, InstallCarries
<1>5. CASE ~Manual(seen, q) /\ q.kind = "update"
  <2>1. Steps(seen, q) = UpdateSteps(seen, q)
    BY <1>5 DEF Steps
  <2>2. UpdateAccepted(seen, q)
    BY <1>5 DEF Accepted
  <2>3. Installed(seen, i) /\ ForceVerdict(seen, q) # "manual"
    BY <1>5, <2>2 DEF UpdateAccepted, Manual
  <2>4. SerializeInstallState(i, UpdateRecord(seen, q)) /\ ValidateOwnedDirectories(i, UpdateRecord(seen, q))
    BY <2>2, <2>3 DEF UpdateAccepted
  <2>5. Sized(UpdateRecord(seen, q)) /\ InScope(i, UpdateRecord(seen, q))
    BY <1>1, <1>2, <2>4, UpdateRecordOf DEF Kept
  <2>6. RecordsOnly(Steps(seen, q), Record(i, UpdateRecord(seen, q)))
    BY <1>1, <1>2, <2>1, <2>5, UpdatePlan DEF Kept
  <2>7. seen.record[i] = tree.record[i]
    BY <2>6, RecordSeen
  <2> QED BY <2>1, <2>2, <2>3, <2>7, UpdateCarries
<1>6. CASE ~Manual(seen, q) /\ q.kind = "uninstall"
  <2>1. Steps(seen, q) = UninstallSteps(seen, q)
    BY <1>6 DEF Steps
  <2>2. UninstallAccepted(seen, q)
    BY <1>6 DEF Accepted
  <2>3. CASE ~Installed(seen, i)
    <3>1. Steps(seen, q) = <<>>
      BY <2>1, <2>3 DEF UninstallSteps
    <3> DEFINE X == {}
    <3>2. Steps(seen, q) \in Seq(X) /\ \A y \in X : y.op # "record"
      BY <3>1
    <3> HIDE DEF X
    <3>3. Carries(tree, Steps(seen, q))
      BY <1>1, <3>2, CarriedQuiet
    <3> QED BY <3>3
  <2>4. CASE Installed(seen, i)
    <3>1. ForceVerdict(seen, q) # "manual"
      BY <1>6, <2>4 DEF Manual
    <3>2. RecordsOnly(Steps(seen, q), Record(i, UninstallRecord(seen, q)))
      BY <1>1, <1>2, <2>1, <2>4, UninstallPlan DEF Kept
    <3>3. seen.record[i] = tree.record[i]
      BY <3>2, RecordSeen
    <3> QED BY <2>1, <2>2, <2>4, <3>1, <3>3, UninstallCarries
  <2> QED BY <2>3, <2>4
<1>7. q.kind \in {"install", "update", "uninstall"}
  BY DEF Accepted
<1> QED BY <1>3, <1>4, <1>5, <1>6, <1>7

-----------------------------------------------------------------------------
(* What a format 1 installation found.                                     *)
LegacyTree == [files |-> [p \in {} |-> UserText], dirs |-> UserDirs, record |-> [j \in Installations |-> NoRecord]]

(* Its record is kept as above, and its namespaces stand.                  *)
LEMMA LegacyRecordOf ==
    ASSUME NEW i \in Legacy
    PROVE  Kept(i, LegacyRecord(i)) /\ Namespaces(i) \subseteq UserDirs \union LegacyRecord(i).dirs
<1> DEFINE R == LegacyRecord(i)
           A == ArtifactsOf(Targets)
           routers == {e \in A : e.artifact = "router"}
           f == [e \in routers |-> InstalledArtifact(LegacyTree, i, e, 1)]
           records == {f[e] : e \in routers}
           policy == SourcePolicySet(i, 1)
           P == DOMAIN policy \union {x.path : x \in records}
<1>1. i \in Installations /\ 1 \in Versions /\ ParseInstallationState(i, R) /\ ValidateOwnedDirectories(i, R)
  BY LegacyAssumption
<1>2. /\ R.policy = policy /\ R.targets = records
      /\ R.dirs = MissingNamespaces(LegacyTree, i) \union MissingParents(LegacyTree, P)
      /\ DOMAIN R = {"legacy", "version", "policy", "dirs", "targets"}
  <2>1. records = {InstalledArtifact(LegacyTree, i, e, 1) : e \in routers}
    OBVIOUS
  <2> QED BY <2>1 DEF LegacyRecord, LegacyTree
<1>3. \A x \in R.targets : x.target \in Supported(i)
  BY <1>1 DEF ParseInstallationState, ValidateTargetRecords
<1>4. \A e \in routers : TargetInScope(i, f[e])
  <2>1. SUFFICES ASSUME NEW e \in routers PROVE TargetInScope(i, f[e])
    OBVIOUS
  <2>2. f[e] \in R.targets /\ f[e] = InstalledArtifact(LegacyTree, i, e, 1)
    BY <1>2
  <2>3. e.target = f[e].target
    BY <2>2 DEF InstalledArtifact
  <2> HIDE DEF f, R
  <2>4. e.target \in Supported(i) /\ e \in A
    BY <1>3, <2>2, <2>3
  <2> QED BY <1>1, <2>2, <2>4, InstalledArtifactOf
<1>5. IsFiniteSet(records)
  <2>1. DOMAIN f = routers /\ f = [e \in routers |-> f[e]]
    OBVIOUS
  <2>2. IsFiniteSet(A) /\ routers \in SUBSET A
    BY ArtifactsFinite
  <2> HIDE DEF A, f, routers
  <2>3. IsFiniteSet(routers)
    BY <2>2, FS_Subset
  <2> QED BY <2>1, <2>3, FiniteImage
<1>6. IsFiniteSet(DOMAIN policy) /\ DOMAIN policy \subseteq Path /\ \A p \in DOMAIN policy : p[1] \in Scope(i)
  BY <1>1, SourcePolicySetOf
<1>7. \A x \in records : TargetInScope(i, x)
  BY <1>4
<1>8. IsFiniteSet(P)
  <2> DEFINE g == [x \in records |-> x.path]
  <2>1. DOMAIN g = records /\ g = [x \in records |-> g[x]]
    OBVIOUS
  <2>2. {x.path : x \in records} = {g[x] : x \in records}
    OBVIOUS
  <2> HIDE DEF g, records
  <2>3. IsFiniteSet({x.path : x \in records})
    BY <1>5, <2>1, <2>2, FiniteImage
  <2> QED BY <1>6, <2>3, FS_Union
<1>9. P \subseteq Path /\ \A p \in P : p[1] \in Scope(i)
  BY <1>6, <1>7 DEF TargetInScope
<1> HIDE DEF f, records, policy, P, A, R, routers
<1>10. /\ IsFiniteSet(MissingParents(LegacyTree, P)) /\ IsFiniteSet(MissingNamespaces(LegacyTree, i))
       /\ \A d \in MissingParents(LegacyTree, P) : d \in Path /\ d[1] \in Scope(i)
       /\ \A d \in MissingNamespaces(LegacyTree, i) : DirectoryInScope(i, d)
       /\ Namespaces(i) \subseteq LegacyTree.dirs \union MissingNamespaces(LegacyTree, i)
  BY <1>1, <1>8, <1>9, MissingOf
<1>11. LegacyTree.dirs = UserDirs
  BY DEF LegacyTree
<1>12. IsFiniteSet(R.dirs)
  <2>1. IsFiniteSet(MissingNamespaces(LegacyTree, i) \union MissingParents(LegacyTree, P))
    BY <1>10, FS_Union
  <2> QED BY <1>2, <2>1
<1>13. \A d \in R.dirs : DirectoryInScope(i, d)
  BY <1>2, <1>10 DEF DirectoryInScope
<1>14. Sized(R) /\ InScope(i, R)
  BY <1>2, <1>5, <1>6, <1>7, <1>12, <1>13 DEF Sized, InScope
<1> QED BY <1>1, <1>2, <1>10, <1>11, <1>14 DEF Kept, Readable, R

(* The inductive invariant: the tree is good, and so is what each pending  *)
(* command has seen, which it accepted.                                    *)
LifecycleInvariant ==
    /\ Good(tree)
    /\ DOMAIN pending = Procs
    /\ \A p \in Procs : pending[p].busy =>
          /\ pending[p].request \in Requests /\ Good(pending[p].seen)
          /\ Accepted(pending[p].seen, pending[p].request)

(* It holds at first.                                                      *)
LEMMA InitLifecycleInvariant == Init => LifecycleInvariant
<1> SUFFICES ASSUME Init PROVE LifecycleInvariant
  OBVIOUS
<1>1. /\ Shaped(tree)
      /\ tree.dirs = UserDirs \union UNION {LegacyRecord(i).dirs : i \in Legacy}
      /\ tree.record = [i \in Installations |-> IF i \in Legacy THEN LegacyRecord(i) ELSE NoRecord]
  BY DEF Init, Shaped
<1>2. Sized(NoRecord) /\ NoRecord.version = 0 /\ NoRecord.dirs = {} /\ \A i : InScope(i, NoRecord) /\ Readable(i, NoRecord)
  BY FS_EmptySet DEF NoRecord, Sized, InScope, Readable
<1>3. DOMAIN tree.record = Installations
  BY <1>1
<1>4. ASSUME NEW i \in Installations PROVE Kept(i, tree.record[i])
  BY <1>1, <1>2, LegacyRecordOf DEF Kept
<1>5. Standing(tree)
  <2>1. SUFFICES ASSUME NEW i \in Installations, tree.record[i].version # 0 PROVE Namespaces(i) \subseteq tree.dirs
    BY <1>1 DEF Standing
  <2>2. i \in Legacy
    BY <1>1, <1>2, <2>1
  <2>3. LegacyRecord(i).dirs \subseteq tree.dirs
    BY <1>1, <2>2
  <2> QED BY <1>1, <2>2, <2>3, LegacyRecordOf
<1>6. ASSUME NEW i \in Installations, NEW j \in Installations, i # j
      PROVE  tree.record[i].dirs \intersect tree.record[j].dirs = {}
  <2>1. i \notin Legacy \/ j \notin Legacy
    BY <1>6, LegacyAssumption
  <2> QED BY <1>1, <1>2, <2>1
<1>7. DOMAIN pending = Procs /\ \A p \in Procs : ~pending[p].busy
  BY DEF Init, Idle
<1> QED BY <1>3, <1>4, <1>5, <1>6, <1>7 DEF Good, LifecycleInvariant

(* Files make no difference to it.                                         *)
LEMMA SameRecords ==
    ASSUME NEW t, Good(t), NEW u, Shaped(u), u.record = t.record, u.dirs = t.dirs
    PROVE  Good(u)
BY DEF Good, Standing

(* A user's edit keeps the tree good.                                      *)
LEMMA EditKept ==
    ASSUME Good(tree), NEW p, NEW c, Edit(p, c)
    PROVE  Good(tree') /\ pending' = pending
<1>1. tree' = [tree EXCEPT !.files = Put(tree.files, p, c)] /\ pending' = pending
  BY DEF Edit
<1>2. Shaped(tree)
  BY DEF Good, Standing
<1>3. Shaped(tree') /\ tree'.record = tree.record /\ tree'.dirs = tree.dirs
  BY <1>1, <1>2 DEF Shaped
<1> QED BY <1>1, <1>3, SameRecords

(* Every step keeps it.                                                    *)
LEMMA NextLifecycleInvariant == LifecycleInvariant /\ [Next]_vars => LifecycleInvariant'
<1> SUFFICES ASSUME LifecycleInvariant, [Next]_vars PROVE LifecycleInvariant'
  OBVIOUS
<1>1. Good(tree) /\ DOMAIN pending = Procs
  BY DEF LifecycleInvariant
<1>2. ASSUME NEW p \in Procs, pending[p].busy
      PROVE  /\ pending[p].request \in Requests /\ Good(pending[p].seen)
             /\ Accepted(pending[p].seen, pending[p].request)
  BY <1>2 DEF LifecycleInvariant
<1>3. ASSUME NEW p \in Procs, Prepare(p) PROVE LifecycleInvariant'
  <2>1. PICK q \in Requests : /\ Accepted(tree, q)
                              /\ pending' = [pending EXCEPT ![p] = [busy |-> TRUE, request |-> q, seen |-> tree]]
    BY <1>3 DEF Prepare
  <2>2. tree' = tree
    BY <1>3 DEF Prepare
  <2>3. Good(tree')
    BY <1>1, <2>2
  <2>4. DOMAIN pending' = Procs
    BY <1>1, <2>1
  <2>5. ASSUME NEW r \in Procs, pending'[r].busy
        PROVE  /\ pending'[r].request \in Requests /\ Good(pending'[r].seen)
               /\ Accepted(pending'[r].seen, pending'[r].request)
    <3>1. CASE r = p
      <4>1. pending'[r] = [busy |-> TRUE, request |-> q, seen |-> tree]
        BY <1>1, <2>1, <3>1
      <4> QED BY <1>1, <2>1, <4>1
    <3>2. CASE r # p
      <4>1. pending'[r] = pending[r]
        BY <1>1, <2>1, <3>2
      <4> QED BY <1>2, <2>5, <4>1
    <3> QED BY <3>1, <3>2
  <2> QED BY <2>3, <2>4, <2>5 DEF LifecycleInvariant
<1>4. ASSUME NEW p \in Procs, pending' = [pending EXCEPT ![p] = Idle], Good(tree') PROVE LifecycleInvariant'
  <2>1. DOMAIN pending' = Procs
    BY <1>1, <1>4
  <2>2. ASSUME NEW r \in Procs, pending'[r].busy
        PROVE  /\ pending'[r].request \in Requests /\ Good(pending'[r].seen)
               /\ Accepted(pending'[r].seen, pending'[r].request)
    <3>1. CASE r = p
      <4>1. pending'[r] = Idle
        BY <1>1, <1>4, <3>1
      <4> QED BY <2>2, <4>1 DEF Idle
    <3>2. CASE r # p
      <4>1. pending'[r] = pending[r]
        BY <1>1, <1>4, <3>2
      <4> QED BY <1>2, <2>2, <4>1
    <3> QED BY <3>1, <3>2
  <2> QED BY <1>4, <2>1, <2>2 DEF LifecycleInvariant
<1>5. ASSUME NEW p \in Procs, Apply(p) PROVE LifecycleInvariant'
  <2> DEFINE q == pending[p].request
             seen == pending[p].seen
  <2>1. pending[p].busy /\ pending' = [pending EXCEPT ![p] = Idle]
    BY <1>5 DEF Apply
  <2>2. CASE StillValid(q, seen, Steps(seen, q)) /\ Applicable(tree, Steps(seen, q))
    <3>1. tree' = Run(tree, Steps(seen, q))
      BY <1>5, <2>2 DEF Apply
    <3>2. Carries(tree, Steps(seen, q))
      BY <1>1, <1>2, <2>1, <2>2, PlanCarries
    <3>3. Good(tree')
      BY <3>1, <3>2 DEF Carries
    <3> QED BY <1>4, <2>1, <3>3
  <2>3. CASE ~(StillValid(q, seen, Steps(seen, q)) /\ Applicable(tree, Steps(seen, q)))
    <3>1. tree' = tree
      BY <1>5, <2>3 DEF Apply
    <3> QED BY <1>1, <1>4, <2>1, <3>1
  <2> QED BY <2>2, <2>3
<1>6. ASSUME NEW p \in Procs, Kill(p) PROVE LifecycleInvariant'
  <2> DEFINE q == pending[p].request
             seen == pending[p].seen
             steps == Steps(seen, q)
  <2>1. /\ pending[p].busy /\ pending' = [pending EXCEPT ![p] = Idle]
        /\ StillValid(q, seen, steps)
        /\ \E n \in 1..(Len(steps) - 1) : tree' = Run(tree, SubSeq(steps, 1, n))
    BY <1>6 DEF Kill
  <2>2. Carries(tree, steps)
    BY <1>1, <1>2, <2>1, PlanCarries
  <2>3. PICK n \in 1..(Len(steps) - 1) : tree' = Run(tree, SubSeq(steps, 1, n))
    BY <2>1
  <2>4. Good(tree')
    BY <2>2, <2>3 DEF Carries
  <2> QED BY <1>4, <2>1, <2>4
<1>7. ASSUME Good(tree'), pending' = pending PROVE LifecycleInvariant'
  BY <1>1, <1>2, <1>7 DEF LifecycleInvariant
<1>8. CASE WriteOwn
  <2>1. \E p, c : Edit(p, c)
    BY <1>8 DEF WriteOwn
  <2> QED BY <1>1, <1>7, <2>1, EditKept
<1>9. CASE EditBody
  <2>1. \E p, c : Edit(p, c)
    BY <1>9 DEF EditBody
  <2> QED BY <1>1, <1>7, <2>1, EditKept
<1>10. CASE BreakMarkers
  <2>1. \E p, c : Edit(p, c)
    BY <1>10 DEF BreakMarkers
  <2> QED BY <1>1, <1>7, <2>1, EditKept
<1>11. CASE Delete
  <2>1. PICK p : tree' = Do(tree, Unlink(p))
    BY <1>11 DEF Delete
  <2>2. pending' = pending
    BY <1>11 DEF Delete
  <2>3. Unlink(p).op = "remove"
    BY DEF Unlink
  <2>4. Shaped(tree') /\ tree'.record = tree.record /\ tree'.dirs = tree.dirs
    BY <2>1, <2>3, DoRecord
  <2>5. Good(tree')
    BY <1>1, <2>4, SameRecords
  <2> QED BY <1>7, <2>2, <2>5
<1>12. CASE UNCHANGED vars
  <2>1. tree' = tree /\ pending' = pending
    BY <1>12 DEF vars
  <2> QED BY <1>1, <1>7, <2>1
<1> QED BY <1>3, <1>5, <1>6, <1>8, <1>9, <1>10, <1>11, <1>12 DEF Next

(* The inductive invariant holds throughout the life of the installations. *)
THEOREM LifecycleHolds == Spec => []LifecycleInvariant
BY InitLifecycleInvariant, NextLifecycleInvariant, PTL DEF Spec

(* Whatever sequence of commands wrote it, a state record can be read      *)
(* again: parseInstallationState and validateOwnedDirectories accept it    *)
(* (RecordsStayReadable).                                                  *)
THEOREM ReadableForEver == Spec => []RecordsStayReadable
<1>1. LifecycleInvariant => RecordsStayReadable
  BY DEF LifecycleInvariant, Good, Kept, Readable, RecordsStayReadable, Installed
<1> QED BY <1>1, LifecycleHolds, PTL

(* No directory is owned by two installations, whatever two processes      *)
(* apply and wherever they are killed (NoSharedOwnership).                 *)
THEOREM DirectoriesHaveOneOwner == Spec => []NoSharedOwnership
<1>1. LifecycleInvariant => NoSharedOwnership
  BY DEF LifecycleInvariant, Good, NoSharedOwnership
<1> QED BY <1>1, LifecycleHolds, PTL

-----------------------------------------------------------------------------
(* Users' files.                                                           *)

(* Where the registry puts managed blocks: in files of these names, outside *)
(* the directories that hold the Policy Set.  No other file is of both.     *)
BlockNames == {"CLAUDE.md", "AGENTS.md", "GEMINI.md"}
PolicyNames == {".oaw", "oaw"}
BlockSuffix(s) == s[Len(s)] \in BlockNames /\ s[1] \notin PolicyNames
BlockPath(p) == p[Len(p)] \in BlockNames /\ p[2] \notin PolicyNames

(* An entry with a managed block, and no other, has such a suffix; and none *)
(* leads into a Policy Set.                                                *)
SortedEntry(e) ==
    /\ e.mode = "managed-block" <=> BlockSuffix(e.project)
    /\ e.project[1] \notin PolicyNames
    /\ IF e.user = <<>> THEN e.mode = "owned-file" /\ e.root = "none"
       ELSE (e.mode = "managed-block" <=> BlockSuffix(e.user)) /\ e.user[1] \notin PolicyNames

(* So it is with every entry of the registry.                              *)
LEMMA RegistrySorted == \A n \in 1..19 : SortedEntry(Registry[n])
<1>1. ASSUME NEW n \in 1..19 PROVE SortedEntry(Registry[n])
  <2>1. SortedEntry(Registry[1])
    <3>1. Registry[1] = Anywhere("claude", "router", <<".claude", "CLAUDE.md">>, "managed-block")
      BY DEF Registry
    <3> QED BY <3>1 DEF SortedEntry, Anywhere, ProjectOnly, Entry, Skill, AgentsFile, BlockSuffix, BlockNames, PolicyNames
  <2>2. SortedEntry(Registry[2])
    <3>1. Registry[2] = Anywhere("claude", "native-entrypoint", Skill(".claude"), "owned-file")
      BY DEF Registry
    <3> QED BY <3>1 DEF SortedEntry, Anywhere, ProjectOnly, Entry, Skill, AgentsFile, BlockSuffix, BlockNames, PolicyNames
  <2>3. SortedEntry(Registry[3])
    <3>1. Registry[3] = Entry("codex", "router", "home", <<".codex", "AGENTS.md">>, AgentsFile, "managed-block")
      BY DEF Registry
    <3> QED BY <3>1 DEF SortedEntry, Anywhere, ProjectOnly, Entry, Skill, AgentsFile, BlockSuffix, BlockNames, PolicyNames
  <2>4. SortedEntry(Registry[4])
    <3>1. Registry[4] = Anywhere("codex", "native-entrypoint", Skill(".agents"), "owned-file")
      BY DEF Registry
    <3> QED BY <3>1 DEF SortedEntry, Anywhere, ProjectOnly, Entry, Skill, AgentsFile, BlockSuffix, BlockNames, PolicyNames
  <2>5. SortedEntry(Registry[5])
    <3>1. Registry[5] = Anywhere("codex", "native-policy", <<".agents", "skills", "oaw", "agents", "openai.yaml">>, "owned-file")
      BY DEF Registry
    <3> QED BY <3>1 DEF SortedEntry, Anywhere, ProjectOnly, Entry, Skill, AgentsFile, BlockSuffix, BlockNames, PolicyNames
  <2>6. SortedEntry(Registry[6])
    <3>1. Registry[6] = Entry("gemini", "router", "home", <<".gemini", "GEMINI.md">>, <<"GEMINI.md">>, "managed-block")
      BY DEF Registry
    <3> QED BY <3>1 DEF SortedEntry, Anywhere, ProjectOnly, Entry, Skill, AgentsFile, BlockSuffix, BlockNames, PolicyNames
  <2>7. SortedEntry(Registry[7])
    <3>1. Registry[7] = Anywhere("gemini", "native-entrypoint", <<".gemini", "commands", "oaw.toml">>, "owned-file")
      BY DEF Registry
    <3> QED BY <3>1 DEF SortedEntry, Anywhere, ProjectOnly, Entry, Skill, AgentsFile, BlockSuffix, BlockNames, PolicyNames
  <2>8. SortedEntry(Registry[8])
    <3>1. Registry[8] = Entry("opencode", "router", "config", <<"opencode", "AGENTS.md">>, AgentsFile, "managed-block")
      BY DEF Registry
    <3> QED BY <3>1 DEF SortedEntry, Anywhere, ProjectOnly, Entry, Skill, AgentsFile, BlockSuffix, BlockNames, PolicyNames
  <2>9. SortedEntry(Registry[9])
    <3>1. Registry[9] = Entry("opencode", "native-entrypoint", "config", <<"opencode", "commands", "oaw.md">>, <<".opencode", "commands", "oaw.md">>, "owned-file")
      BY DEF Registry
    <3> QED BY <3>1 DEF SortedEntry, Anywhere, ProjectOnly, Entry, Skill, AgentsFile, BlockSuffix, BlockNames, PolicyNames
  <2>10. SortedEntry(Registry[10])
    <3>1. Registry[10] = ProjectOnly("cursor", "router", <<".cursor", "rules", "open-agent-workflow.mdc">>)
      BY DEF Registry
    <3> QED BY <3>1 DEF SortedEntry, Anywhere, ProjectOnly, Entry, Skill, AgentsFile, BlockSuffix, BlockNames, PolicyNames
  <2>11. SortedEntry(Registry[11])
    <3>1. Registry[11] = ProjectOnly("cursor", "native-entrypoint", Skill(".cursor"))
      BY DEF Registry
    <3> QED BY <3>1 DEF SortedEntry, Anywhere, ProjectOnly, Entry, Skill, AgentsFile, BlockSuffix, BlockNames, PolicyNames
  <2>12. SortedEntry(Registry[12])
    <3>1. Registry[12] = ProjectOnly("windsurf", "router", <<".devin", "rules", "open-agent-workflow.md">>)
      BY DEF Registry
    <3> QED BY <3>1 DEF SortedEntry, Anywhere, ProjectOnly, Entry, Skill, AgentsFile, BlockSuffix, BlockNames, PolicyNames
  <2>13. SortedEntry(Registry[13])
    <3>1. Registry[13] = ProjectOnly("windsurf", "native-entrypoint", <<".windsurf", "workflows", "oaw.md">>)
      BY DEF Registry
    <3> QED BY <3>1 DEF SortedEntry, Anywhere, ProjectOnly, Entry, Skill, AgentsFile, BlockSuffix, BlockNames, PolicyNames
  <2>14. SortedEntry(Registry[14])
    <3>1. Registry[14] = ProjectOnly("cline", "router", <<".clinerules", "open-agent-workflow.md">>)
      BY DEF Registry
    <3> QED BY <3>1 DEF SortedEntry, Anywhere, ProjectOnly, Entry, Skill, AgentsFile, BlockSuffix, BlockNames, PolicyNames
  <2>15. SortedEntry(Registry[15])
    <3>1. Registry[15] = ProjectOnly("cline", "native-entrypoint", Skill(".cline"))
      BY DEF Registry
    <3> QED BY <3>1 DEF SortedEntry, Anywhere, ProjectOnly, Entry, Skill, AgentsFile, BlockSuffix, BlockNames, PolicyNames
  <2>16. SortedEntry(Registry[16])
    <3>1. Registry[16] = ProjectOnly("roo", "router", <<".roo", "rules", "open-agent-workflow.md">>)
      BY DEF Registry
    <3> QED BY <3>1 DEF SortedEntry, Anywhere, ProjectOnly, Entry, Skill, AgentsFile, BlockSuffix, BlockNames, PolicyNames
  <2>17. SortedEntry(Registry[17])
    <3>1. Registry[17] = ProjectOnly("roo", "native-entrypoint", <<".roo", "commands", "oaw.md">>)
      BY DEF Registry
    <3> QED BY <3>1 DEF SortedEntry, Anywhere, ProjectOnly, Entry, Skill, AgentsFile, BlockSuffix, BlockNames, PolicyNames
  <2>18. SortedEntry(Registry[18])
    <3>1. Registry[18] = ProjectOnly("copilot", "router", <<".github", "instructions", "open-agent-workflow.instructions.md">>)
      BY DEF Registry
    <3> QED BY <3>1 DEF SortedEntry, Anywhere, ProjectOnly, Entry, Skill, AgentsFile, BlockSuffix, BlockNames, PolicyNames
  <2>19. SortedEntry(Registry[19])
    <3>1. Registry[19] = ProjectOnly("copilot", "native-entrypoint", Skill(".github"))
      BY DEF Registry
    <3> QED BY <3>1 DEF SortedEntry, Anywhere, ProjectOnly, Entry, Skill, AgentsFile, BlockSuffix, BlockNames, PolicyNames
  <2> QED BY <2>1, <2>2, <2>3, <2>4, <2>5, <2>6, <2>7, <2>8, <2>9, <2>10, <2>11, <2>12, <2>13, <2>14, <2>15, <2>16, <2>17, <2>18, <2>19
<1> QED BY <1>1

(* The destination of an artifact is one of managed blocks if its entry is *)
(* one, and only then.                                                     *)
LEMMA DestinationSorted ==
    ASSUME NEW i \in Installations, NEW e \in RegistryEntry
    PROVE  e.mode = "managed-block" <=> BlockPath(ArtifactDestination(i, e))
<1>1. PICK n \in 1..19 : e = Registry[n]
  BY RegistryTyped DEF RegistryEntry, ToSet
<1>2. SortedEntry(e)
  BY <1>1, RegistrySorted
<1>3. /\ e.root \in {"none", "home", "config"} /\ e.user \in Seq(Name) /\ e.project \in Seq(Name) /\ e.project # <<>>
      /\ i \in Name
  BY InstallationsAssumption DEF RegistryEntry, IsEntry, Path, Name
<1>4. e.root \in Name
  BY <1>3 DEF Name
<1>5. ASSUME NEW m \in Name, NEW g \in Seq(Name), g # <<>>
      PROVE  BlockPath(<<m>> \o g) <=> BlockSuffix(g)
  <2>1. Len(<<m>> \o g) = Len(g) + 1 /\ (<<m>> \o g)[Len(g) + 1] = g[Len(g)] /\ (<<m>> \o g)[2] = g[1]
    BY <1>5
  <2> QED BY <2>1 DEF BlockPath, BlockSuffix
<1>6. CASE i = "user" /\ e.user # <<>>
  BY <1>2, <1>3, <1>4, <1>5, <1>6 DEF SortedEntry, ArtifactDestination
<1>7. CASE i = "user" /\ e.user = <<>>
  <2>1. ArtifactDestination(i, e) = <<"none">> /\ e.mode = "owned-file"
    <3>1. ArtifactDestination(i, e) = <<"none">> \o <<>> /\ e.mode = "owned-file"
      BY <1>2, <1>7 DEF SortedEntry, ArtifactDestination
    <3> QED BY <3>1
  <2> QED BY <2>1 DEF BlockPath, BlockNames
<1>8. CASE i # "user"
  BY <1>2, <1>3, <1>5, <1>8 DEF SortedEntry, ArtifactDestination
<1> QED BY <1>6, <1>7, <1>8

(* No artifact goes into the Policy Set directory.                         *)
LEMMA DestinationApart ==
    ASSUME NEW i \in Installations, NEW e \in RegistryEntry
    PROVE  ~IsPrefix(PolicyDir(i), ArtifactDestination(i, e))
<1>1. PICK n \in 1..19 : e = Registry[n]
  BY RegistryTyped DEF RegistryEntry, ToSet
<1>2. SortedEntry(e)
  BY <1>1, RegistrySorted
<1>3. /\ e.root \in Name /\ e.user \in Seq(Name) /\ e.project \in Seq(Name) /\ e.project # <<>> /\ i \in Name
  BY InstallationsAssumption DEF RegistryEntry, IsEntry, Path, Name
<1> DEFINE dir == PolicyDir(i)
           p == ArtifactDestination(i, e)
<1>4. dir \in Seq(Name) /\ Len(dir) >= 2 /\ dir[2] \in PolicyNames
  <2> "config" \in Name /\ "oaw" \in Name /\ ".oaw" \in Name /\ "policy" \in Name
    BY DEF Name
  <2>1. CASE i = "user"
    <3>1. dir = <<"config", "oaw">>
      BY <2>1 DEF PolicyDir, ConfigDir
    <3> HIDE DEF dir
    <3> QED BY <3>1 DEF PolicyNames
  <2>2. CASE i # "user"
    <3>1. dir = <<i, ".oaw", "policy">>
      BY <2>2 DEF PolicyDir
    <3> HIDE DEF dir
    <3> QED BY <1>3, <3>1 DEF PolicyNames
  <2> QED BY <2>1, <2>2
<1>5. ASSUME NEW m \in Name, NEW g \in Seq(Name), p = <<m>> \o g, g # <<>> => g[1] \notin PolicyNames
      PROVE  ~IsPrefix(dir, p)
  <2> HIDE DEF dir, p
  <2>1. p \in Seq(Name) /\ Len(p) = Len(g) + 1 /\ (g # <<>> => p[2] = g[1])
    BY <1>5
  <2>2. SUFFICES ASSUME Len(dir) <= Len(p), SubSeq(dir, 1, Len(dir)) = SubSeq(p, 1, Len(dir)) PROVE FALSE
    BY DEF IsPrefix
  <2>3. SubSeq(dir, 1, Len(dir))[2] = dir[2] /\ SubSeq(p, 1, Len(dir))[2] = p[2] /\ g # <<>>
    BY <1>4, <1>5, <2>1, <2>2
  <2> QED BY <1>4, <1>5, <2>1, <2>2, <2>3
<1> HIDE DEF dir
<1>6. CASE i = "user"
  <2>1. p = <<e.root>> \o e.user
    BY <1>6 DEF ArtifactDestination
  <2>2. e.user # <<>> => e.user[1] \notin PolicyNames
    BY <1>2 DEF SortedEntry
  <2> HIDE DEF p
  <2> QED BY <1>3, <1>5, <2>1, <2>2 DEF dir, p
<1>7. CASE i # "user"
  <2>1. p = <<i>> \o e.project
    BY <1>7 DEF ArtifactDestination
  <2>2. e.project[1] \notin PolicyNames
    BY <1>2 DEF SortedEntry
  <2> HIDE DEF p
  <2> QED BY <1>3, <1>5, <2>1, <2>2 DEF dir, p
<1> QED BY <1>6, <1>7

(* A release's Policy Set file goes where no managed block is, into the    *)
(* Policy Set directory, and where none of the user's own profiles is.     *)
LEMMA PolicyDestination ==
    ASSUME NEW i \in Installations, NEW f \in Path, f # <<>>, f # <<"profiles">>
    PROVE  LET p == PolicySetDestination(i, f)
           IN /\ ~BlockPath(p) /\ Below(PolicyDir(i), p)
              /\ i = "user" => ~UserCustomProfilePath(p)
              /\ i = "user" /\ IsPrefix(CustomProfilesDir(i), p) => Below(CustomProfilesDir(i) \o <<"builtin">>, p)
<1> DEFINE dir == PolicyDir(i)
           g == IF i = "user" /\ f[1] = "profiles" THEN <<"profiles", "builtin">> \o Tail(f) ELSE f
           p == dir \o g
<1>1. PolicySetDestination(i, f) = p
  BY DEF PolicySetDestination
<1>2. i \in Name /\ dir = IF i = "user" THEN <<"config", "oaw">> ELSE <<i, ".oaw", "policy">>
  BY InstallationsAssumption DEF Name, PolicyDir, ConfigDir
<1>3. dir \in Seq(Name) /\ Len(dir) >= 2 /\ dir[2] \in PolicyNames
  <2> "config" \in Name /\ "oaw" \in Name /\ ".oaw" \in Name /\ "policy" \in Name
    BY DEF Name
  <2>1. CASE i = "user"
    <3>1. dir = <<"config", "oaw">>
      BY <1>2, <2>1
    <3> HIDE DEF dir
    <3> QED BY <3>1 DEF PolicyNames
  <2>2. CASE i # "user"
    <3>1. dir = <<i, ".oaw", "policy">>
      BY <1>2, <2>2
    <3> HIDE DEF dir
    <3> QED BY <1>2, <3>1 DEF PolicyNames
  <2> QED BY <2>1, <2>2
<1>4. f \in Seq(Name) /\ Len(f) >= 1 /\ Tail(f) \in Seq(Name) /\ Len(Tail(f)) = Len(f) - 1
  BY DEF Path
<1>5. <<"profiles", "builtin">> \in Seq(Name)
  BY DEF Name
<1>6. g \in Seq(Name) /\ Len(g) >= 1
  BY <1>4, <1>5
<1> HIDE DEF g
<1>7. /\ p \in Seq(Name) /\ Len(p) = Len(dir) + Len(g)
      /\ \A n \in 1..Len(dir) : p[n] = dir[n]
      /\ \A n \in 1..Len(g) : p[Len(dir) + n] = g[n]
  <2> HIDE DEF dir
  <2> QED BY <1>3, <1>6
<1> HIDE DEF p
<1>8. ~BlockPath(p)
  <2>1. p[2] \in PolicyNames
    BY <1>3, <1>7
  <2> QED BY <2>1 DEF BlockPath
<1>9. Below(dir, p)
  <2> HIDE DEF dir
  <2>1. Len(dir) <= Len(p) /\ Len(dir) # Len(p)
    BY <1>3, <1>6, <1>7
  <2>2. SubSeq(p, 1, Len(dir)) = SubSeq(dir, 1, Len(dir))
    BY <1>3, <1>6, <1>7, <2>1
  <2> QED BY <2>1, <2>2 DEF Below, IsStrictPrefix, IsPrefix
<1>10. CASE i = "user"
  <2>1. dir = <<"config", "oaw">> /\ Len(dir) = 2
    BY <1>2, <1>10
  <2> "config" \in Name /\ "oaw" \in Name /\ "profiles" \in Name /\ "builtin" \in Name
    BY DEF Name
  <2> DEFINE profiles == <<"config", "oaw", "profiles">>
             builtin == <<"config", "oaw", "profiles", "builtin">>
  <2>2. CustomProfilesDir("user") = profiles /\ CustomProfilesDir("user") \o <<"builtin">> = builtin
    <3>1. CustomProfilesDir("user") = <<"config", "oaw">> \o <<"profiles">>
      BY DEF CustomProfilesDir, ConfigDir
    <3>2. <<"config", "oaw">> \o <<"profiles">> = profiles
      BY Joined2
    <3>3. profiles \o <<"builtin">> = builtin
      BY Joined3
    <3> QED BY <3>1, <3>2, <3>3
  <2>3. CASE f[1] = "profiles"
    <3>1. g = <<"profiles", "builtin">> \o Tail(f)
      BY <1>10, <2>3 DEF g
    <3>2. Len(f) # 1
      <4>1. SUFFICES ASSUME Len(f) = 1 PROVE FALSE
        OBVIOUS
      <4>2. f = <<"profiles">>
        BY <1>4, <2>3, <4>1
      <4> QED BY <4>2
    <3>3. Len(g) >= 3 /\ g[1] = "profiles" /\ g[2] = "builtin"
      BY <1>4, <1>5, <3>1, <3>2
    <3>4. Len(p) >= 5 /\ p[1] = "config" /\ p[2] = "oaw" /\ p[3] = "profiles" /\ p[4] = "builtin"
      <4>1. p[2 + 1] = g[1] /\ p[2 + 2] = g[2]
        BY <1>7, <2>1, <3>3
      <4> QED BY <1>7, <2>1, <3>3, <4>1
    <3>5. SubSeq(p, 1, 4) = SubSeq(builtin, 1, 4) /\ Len(builtin) = 4
      BY <1>7, <3>4
    <3>6. IsPrefix(builtin, p) /\ builtin # p
      <4>1. Len(builtin) <= Len(p) /\ Len(builtin) # Len(p)
        BY <1>7, <3>4, <3>5
      <4>2. builtin # p
        BY <4>1
      <4> HIDE DEF builtin
      <4> QED BY <3>5, <4>1, <4>2 DEF IsPrefix
    <3> QED BY <1>1, <1>8, <1>9, <1>10, <2>2, <3>6 DEF Below, IsStrictPrefix, UserCustomProfilePath
  <2>4. CASE f[1] # "profiles"
    <3>1. g = f
      BY <2>4 DEF g
    <3>2. p[3] # "profiles" /\ Len(p) >= 3
      <4>1. p[2 + 1] = g[1]
        BY <1>6, <1>7, <2>1
      <4> QED BY <1>6, <1>7, <2>1, <2>4, <3>1, <4>1
    <3>3. ~IsPrefix(profiles, p)
      <4>1. SUFFICES ASSUME SubSeq(profiles, 1, 3) = SubSeq(p, 1, 3) PROVE FALSE
        BY DEF IsPrefix
      <4>2. SubSeq(profiles, 1, 3)[3] = "profiles"
        OBVIOUS
      <4>3. SubSeq(p, 1, 3)[3] = p[3]
        BY <1>7, <3>2
      <4> QED BY <3>2, <4>1, <4>2, <4>3
    <3> QED BY <1>1, <1>8, <1>9, <1>10, <2>2, <3>3 DEF UserCustomProfilePath
  <2> QED BY <2>3, <2>4
<1>11. CASE i # "user"
  BY <1>1, <1>8, <1>9, <1>11
<1> QED BY <1>10, <1>11

-----------------------------------------------------------------------------
(* Where Policy Set files lie: see PolicyDestination.                      *)
Placed(i, p) == /\ ~BlockPath(p) /\ Below(PolicyDir(i), p)
                /\ i = "user" => ~UserCustomProfilePath(p)
                /\ i = "user" /\ IsPrefix(CustomProfilesDir(i), p) => Below(CustomProfilesDir(i) \o <<"builtin">>, p)

(* POLICY.md and the files of a release lie there.                         *)
LEMMA PolicyPlaced ==
    ASSUME NEW i \in Installations
    PROVE  /\ Placed(i, PolicyPath(i)) /\ PolicyPath(i) \in Path
           /\ \A v \in Versions : \A p \in DOMAIN SourcePolicySet(i, v) :
                 Placed(i, p) /\ p \in Path /\ SourcePolicySet(i, v)[p] = v
<1>1. ASSUME NEW f \in Path, f # <<>>, f # <<"profiles">>
      PROVE  Placed(i, PolicySetDestination(i, f)) /\ PolicySetDestination(i, f) \in Path
  BY <1>1, PolicyDestination, PolicySetDestinationOf DEF Placed
<1>2. <<"POLICY.md">> \in Path /\ <<"POLICY.md">> # <<>> /\ <<"POLICY.md">> # <<"profiles">>
  <2>1. "POLICY.md" \in Name
    BY DEF Name
  <2>2. <<"POLICY.md">> \in Path /\ <<"POLICY.md">> # <<>>
    BY <2>1 DEF Path
  <2>3. <<"POLICY.md">> # <<"profiles">>
    OBVIOUS
  <2> QED BY <2>2, <2>3
<1>3. ASSUME NEW v \in Versions, NEW f \in PolicySet[v] PROVE f \in Path /\ f # <<>> /\ f # <<"profiles">>
  <2>1. f \in Path /\ f # <<>>
    BY PolicySetAssumption DEF Path, Name
  <2>2. f # <<"profiles">>
    BY PolicySetAssumption
  <2> QED BY <2>1, <2>2
<1>4. ASSUME NEW v \in Versions, NEW p \in DOMAIN SourcePolicySet(i, v)
      PROVE  Placed(i, p) /\ p \in Path /\ SourcePolicySet(i, v)[p] = v
  <2>1. PICK f \in PolicySet[v] : p = PolicySetDestination(i, f)
    BY <1>4 DEF SourcePolicySet
  <2>2. SourcePolicySet(i, v)[p] = v
    BY <1>4 DEF SourcePolicySet
  <2> QED BY <1>1, <1>3, <2>1, <2>2
<1>5. Placed(i, PolicyPath(i)) /\ PolicyPath(i) \in Path
  BY <1>1, <1>2 DEF PolicyPath
<1> QED BY <1>4, <1>5

-----------------------------------------------------------------------------
(* What a file can be: markers, and text around what OAW wrote, only where *)
(* managed blocks go.  What a record can say: it vouches for renderings of *)
(* releases, at the destinations of the registry, with blocks where blocks *)
(* go.  It is so with every file and record of a tree that fits.           *)
FileTyped(c) == /\ c.body \in Versions \union {0, Edited} /\ c.own \in BOOLEAN
                /\ c.marks \in {"none", "whole", "torn", "garbled"}
FileFits(p, c) ==
    /\ DOMAIN c = {"body", "marks", "own"} /\ FileTyped(c)
    /\ IF BlockPath(p) THEN c.marks = "none" => c.body = 0
       ELSE c.marks = "none" /\ (c.body # 0 => ~c.own)
TargetFits(i, x) ==
    /\ DOMAIN x = {"target", "artifact", "path", "mode", "checksum", "origin"}
    /\ x.checksum \in Versions
    /\ \E e \in RegistryEntry : /\ x.target = e.target /\ x.artifact = e.artifact
                                /\ x.path = ArtifactDestination(i, e) /\ x.mode = e.mode
RecordFits(i, r) ==
    /\ \A x \in r.targets : TargetFits(i, x)
    /\ r # NoRecord => r.version \in Versions /\ r.policy = SourcePolicySet(i, r.version)
Fitting(t) == /\ DOMAIN t.record = Installations
              /\ \A i \in Installations : RecordFits(i, t.record[i])
              /\ \A p \in DOMAIN t.files : FileFits(p, t.files[p])
StepFits(x) == /\ x.op = "write" => FileFits(x.path, x.to)
               /\ x.op = "record" => RecordFits(x.owner, x.to)

(* What a step does to files and copies.                                   *)
LEMMA DoFiles ==
    ASSUME NEW t, NEW x
    PROVE  /\ x.op = "write" => /\ DOMAIN Do(t, x).files = DOMAIN t.files \union {x.path}
                                /\ Do(t, x).files[x.path] = x.to
                                /\ \A p \in DOMAIN t.files \ {x.path} : Do(t, x).files[p] = t.files[p]
           /\ x.op = "remove" => /\ DOMAIN Do(t, x).files = DOMAIN t.files \ {x.path}
                                 /\ \A p \in DOMAIN t.files \ {x.path} : Do(t, x).files[p] = t.files[p]
           /\ x.op \notin {"write", "remove"} => Do(t, x).files = t.files
           /\ t.saved \subseteq Do(t, x).saved
           /\ x.op = "backup" => x.to \subseteq Do(t, x).saved
<1>1. Do(t, x).files = IF x.op = "write" THEN Put(t.files, x.path, x.to)
                       ELSE IF x.op = "remove" THEN Restrict(t.files, DOMAIN t.files \ {x.path}) ELSE t.files
  BY DEF Do
<1>2. Do(t, x).saved = IF x.op = "backup" THEN t.saved \union x.to ELSE t.saved
  BY DEF Do
<1>3. CASE x.op = "write"
  <2>1. Do(t, x).files = Put(t.files, x.path, x.to)
    BY <1>1, <1>3
  <2> QED BY <1>2, <1>3, <2>1 DEF Put
<1>4. CASE x.op = "remove"
  <2>1. Do(t, x).files = Restrict(t.files, DOMAIN t.files \ {x.path})
    BY <1>1, <1>4
  <2> QED BY <1>2, <1>4, <2>1 DEF Restrict
<1>5. CASE x.op \notin {"write", "remove"}
  BY <1>1, <1>2, <1>5
<1> QED BY <1>3, <1>4, <1>5

(* A step of a plan that fits leaves a tree that fits.                     *)
LEMMA DoFits ==
    ASSUME NEW t, NEW x, Fitting(t), StepFits(x), x.op = "record" => x.owner \in Installations
    PROVE  Fitting(Do(t, x))
<1>1. DOMAIN Do(t, x).record = Installations /\ \A i \in Installations : RecordFits(i, Do(t, x).record[i])
  <2>1. Do(t, x).record = IF x.op = "record" THEN [t.record EXCEPT ![x.owner] = x.to] ELSE t.record
    BY DoRecord
  <2>2. CASE x.op = "record"
    <3>1. Do(t, x).record = [t.record EXCEPT ![x.owner] = x.to] /\ RecordFits(x.owner, x.to)
      BY <2>1, <2>2 DEF StepFits
    <3> QED BY <3>1 DEF Fitting
  <2>3. CASE x.op # "record"
    BY <2>1, <2>3 DEF Fitting
  <2> QED BY <2>2, <2>3
<1>2. ASSUME NEW p \in DOMAIN Do(t, x).files PROVE FileFits(p, Do(t, x).files[p])
  <2>1. CASE x.op = "write"
    <3>1. FileFits(x.path, x.to)
      BY <2>1 DEF StepFits
    <3> QED BY <1>2, <2>1, <3>1, DoFiles DEF Fitting
  <2>2. CASE x.op = "remove"
    BY <1>2, <2>2, DoFiles DEF Fitting
  <2>3. CASE x.op \notin {"write", "remove"}
    BY <1>2, <2>3, DoFiles DEF Fitting
  <2> QED BY <2>1, <2>2, <2>3
<1> QED BY <1>1, <1>2 DEF Fitting

(* So does a plan of such steps.                                           *)
LEMMA RunFits ==
    ASSUME NEW t, Fitting(t), NEW X, NEW steps \in Seq(X),
           \A x \in X : StepFits(x) /\ (x.op = "record" => x.owner \in Installations)
    PROVE  Fitting(Run(t, steps))
<1> DEFINE T == Trail(t, steps)
           G == {n \in Nat : n <= Len(steps) => Fitting(T[n])}
<1>1. Len(steps) \in Nat
  OBVIOUS
<1>2. Run(t, steps) = T[Len(steps)] /\ T[0] = t /\ \A n \in 1..Len(steps) : T[n] = Do(T[n - 1], steps[n])
  BY <1>1, RunTrail
<1> HIDE DEF T
<1>3. 0 \in G
  BY <1>2
<1>4. ASSUME NEW k \in Nat, k \in G PROVE k + 1 \in G
  <2>1. SUFFICES ASSUME k + 1 <= Len(steps) PROVE Fitting(T[k + 1])
    OBVIOUS
  <2>2. PICK n \in 1..Len(steps) : n = k + 1
    BY <1>1, <2>1
  <2>3. T[n] = Do(T[n - 1], steps[n]) /\ n - 1 = k /\ steps[n] \in X
    BY <1>2, <2>2
  <2>4. Fitting(T[k])
    BY <1>1, <1>4, <2>1
  <2>5. Fitting(Do(T[k], steps[n]))
    BY <2>3, <2>4, DoFits
  <2> QED BY <2>2, <2>3, <2>5
<1>5. Len(steps) \in G
  <2> HIDE DEF G
  <2> QED BY <1>1, <1>3, <1>4, SetInduction
<1> QED BY <1>1, <1>2, <1>5

-----------------------------------------------------------------------------
(* A step of a plan that loses nothing of the file c it is about: it        *)
(* writes what is there, or nobody has changed c, and the user's text stays. *)
SparesFile(x, c) == \/ x.op = "write" /\ x.to = c
                    \/ /\ c.body # Edited /\ c.marks \notin {"torn", "garbled"}
                       /\ c.own => x.op = "write" /\ x.to.own
Touches(x) == x.op \in {"write", "remove"}
Spares(t, x) == Touches(x) /\ Present(t, x.path) => SparesFile(x, t.files[x.path])

(* Each step of a careful plan spares the file it is about, unless the plan *)
(* begins with a copy of that file.                                        *)
Copies(steps, p, c) == steps[1].op = "backup" /\ <<p, c>> \in steps[1].to
Careful(t, steps) == \A n \in DOMAIN steps :
    Touches(steps[n]) /\ Present(t, steps[n].path) =>
        \/ SparesFile(steps[n], t.files[steps[n].path])
        \/ Copies(steps, steps[n].path, t.files[steps[n].path])

(* After some steps a path has what it had at first, if none was about it,  *)
(* or what one of them wrote there, or nothing if one removed it.          *)
Same(t, u, p) == /\ p \in DOMAIN u.files <=> p \in DOMAIN t.files
                 /\ p \in DOMAIN t.files => u.files[p] = t.files[p]
Traced(t, u, steps, m, p) ==
    \/ Same(t, u, p) /\ \A k \in 1..m : Touches(steps[k]) => steps[k].path # p
    \/ \E k \in 1..m : /\ steps[k].path = p
                       /\ \/ steps[k].op = "write" /\ p \in DOMAIN u.files /\ u.files[p] = steps[k].to
                          \/ steps[k].op = "remove" /\ p \notin DOMAIN u.files

(* One step more is traced as well.                                        *)
LEMMA TracedStep ==
    ASSUME NEW t, NEW u, NEW steps, NEW m \in Nat, NEW p, Traced(t, u, steps, m, p)
    PROVE  Traced(t, Do(u, steps[m + 1]), steps, m + 1, p)
<1> DEFINE x == steps[m + 1]
           w == Do(u, x)
<1> SUFFICES Traced(t, w, steps, m + 1, p)
  OBVIOUS
<1>1. m + 1 \in 1..(m + 1) /\ 1..m \subseteq 1..(m + 1)
  OBVIOUS
<1>2. CASE x.path = p /\ x.op = "write"
  <2>1. p \in DOMAIN w.files /\ w.files[p] = x.to
    BY <1>2, DoFiles
  <2> HIDE DEF w
  <2> QED BY <1>1, <1>2, <2>1 DEF Traced
<1>3. CASE x.path = p /\ x.op = "remove"
  <2>1. p \notin DOMAIN w.files
    BY <1>3, DoFiles
  <2> HIDE DEF w
  <2> QED BY <1>1, <1>3, <2>1 DEF Traced
<1>4. CASE ~(x.path = p /\ x.op \in {"write", "remove"})
  <2>1. (p \in DOMAIN w.files <=> p \in DOMAIN u.files) /\ (p \in DOMAIN u.files => w.files[p] = u.files[p])
    <3>1. CASE x.op = "write"
      BY <1>4, <3>1, DoFiles
    <3>2. CASE x.op = "remove"
      BY <1>4, <3>2, DoFiles
    <3>3. CASE x.op \notin {"write", "remove"}
      BY <3>3, DoFiles
    <3> QED BY <3>1, <3>2, <3>3
  <2> HIDE DEF w
  <2>2. CASE Same(t, u, p) /\ \A k \in 1..m : Touches(steps[k]) => steps[k].path # p
    <3>1. Same(t, w, p)
      BY <2>1, <2>2 DEF Same
    <3>2. \A k \in 1..(m + 1) : k \in 1..m \/ k = m + 1
      OBVIOUS
    <3>3. \A k \in 1..(m + 1) : Touches(steps[k]) => steps[k].path # p
      BY <1>4, <2>2, <3>2 DEF Touches
    <3> QED BY <3>1, <3>3 DEF Traced
  <2>3. CASE ~(Same(t, u, p) /\ \A k \in 1..m : Touches(steps[k]) => steps[k].path # p)
    <3>1. PICK k \in 1..m : /\ steps[k].path = p
                            /\ \/ steps[k].op = "write" /\ p \in DOMAIN u.files /\ u.files[p] = steps[k].to
                               \/ steps[k].op = "remove" /\ p \notin DOMAIN u.files
      BY <2>3 DEF Traced
    <3>2. k \in 1..(m + 1)
      BY <1>1
    <3> QED BY <2>1, <3>1, <3>2 DEF Traced
  <2> QED BY <2>2, <2>3
<1> QED BY <1>2, <1>3, <1>4

(* A whole plan is traced, and what it copies stays copied.                *)
LEMMA RunTraced ==
    ASSUME NEW t, NEW X, NEW steps \in Seq(X)
    PROVE  /\ \A p : Traced(t, Run(t, steps), steps, Len(steps), p)
           /\ Len(steps) >= 1 /\ steps[1].op = "backup" => steps[1].to \subseteq Run(t, steps).saved
<1> DEFINE T == Trail(t, steps)
           Told(n) == /\ \A p : Traced(t, T[n], steps, n, p)
                      /\ n >= 1 /\ steps[1].op = "backup" => steps[1].to \subseteq T[n].saved
           G == {n \in Nat : n <= Len(steps) => Told(n)}
<1>1. Len(steps) \in Nat
  OBVIOUS
<1>2. Run(t, steps) = T[Len(steps)] /\ T[0] = t /\ \A n \in 1..Len(steps) : T[n] = Do(T[n - 1], steps[n])
  BY <1>1, RunTrail
<1> HIDE DEF T
<1>3. 0 \in G
  <2>1. \A p : Traced(t, T[0], steps, 0, p)
    <3>1. 1..0 = {}
      OBVIOUS
    <3> QED BY <1>2, <3>1 DEF Traced, Same
  <2> QED BY <2>1
<1>4. ASSUME NEW k \in Nat, k \in G PROVE k + 1 \in G
  <2>1. SUFFICES ASSUME k + 1 <= Len(steps) PROVE Told(k + 1)
    BY DEF G
  <2>2. PICK n \in 1..Len(steps) : n = k + 1
    BY <1>1, <2>1
  <2>3. T[k + 1] = Do(T[k], steps[k + 1])
    <3>1. T[n] = Do(T[n - 1], steps[n]) /\ n - 1 = k
      BY <1>2, <2>2
    <3> QED BY <2>2, <3>1
  <2>4. Told(k)
    BY <1>1, <1>4, <2>1 DEF G
  <2>5. ASSUME NEW p PROVE Traced(t, T[k + 1], steps, k + 1, p)
    BY <2>3, <2>4, TracedStep
  <2>6. ASSUME steps[1].op = "backup" PROVE steps[1].to \subseteq T[k + 1].saved
    <3>1. CASE k = 0
      <4>1. T[k + 1] = Do(T[k], steps[1])
        BY <2>3, <3>1
      <4> QED BY <2>6, <4>1, DoFiles
    <3>2. CASE k # 0
      <4>1. steps[1].to \subseteq T[k].saved
        BY <2>4, <2>6, <3>2
      <4>2. T[k].saved \subseteq T[k + 1].saved
        BY <2>3, DoFiles
      <4> QED BY <4>1, <4>2
    <3> QED BY <3>1, <3>2
  <2> QED BY <2>5, <2>6
<1>5. Len(steps) \in G
  <2> HIDE DEF G
  <2> QED BY <1>1, <1>3, <1>4, SetInduction
<1> QED BY <1>1, <1>2, <1>5

(* A careful plan loses nothing.                                           *)
LEMMA CarefulRun ==
    ASSUME NEW t, NEW X, NEW steps \in Seq(X), Careful(t, steps)
    PROVE  Unlost(t, Run(t, steps))
<1> DEFINE u == Run(t, steps)
<1>1. ASSUME NEW p \in DOMAIN t.files PROVE Traced(t, u, steps, Len(steps), p)
  BY RunTraced
<1>2. Len(steps) >= 1 /\ steps[1].op = "backup" => steps[1].to \subseteq u.saved
  BY RunTraced
<1> HIDE DEF u
<1>3. ASSUME NEW p \in DOMAIN t.files, NEW c, c = t.files[p]
      PROVE  /\ c.own => (p \in DOMAIN u.files /\ u.files[p].own) \/ <<p, c>> \in u.saved
             /\ (c.body = Edited \/ c.marks \in {"torn", "garbled"}) /\ ~(p \in DOMAIN u.files /\ u.files[p] = c)
                   => <<p, c>> \in u.saved
  <2>1. CASE p \in DOMAIN u.files /\ u.files[p] = c
    BY <2>1
  <2>2. CASE ~(p \in DOMAIN u.files /\ u.files[p] = c)
    <3>1. PICK k \in 1..Len(steps) :
             /\ steps[k].path = p
             /\ \/ steps[k].op = "write" /\ p \in DOMAIN u.files /\ u.files[p] = steps[k].to
                \/ steps[k].op = "remove" /\ p \notin DOMAIN u.files
      BY <1>1, <1>3, <2>2 DEF Traced, Same
    <3>2. Touches(steps[k]) /\ Present(t, steps[k].path) /\ k \in DOMAIN steps /\ Len(steps) >= 1
      BY <3>1 DEF Touches, Present
    <3>3. SparesFile(steps[k], c) \/ Copies(steps, p, c)
      BY <1>3, <3>1, <3>2 DEF Careful
    <3>4. CASE Copies(steps, p, c)
      BY <1>2, <3>2, <3>4 DEF Copies
    <3>5. CASE SparesFile(steps[k], c)
      BY <2>2, <3>1, <3>5 DEF SparesFile
    <3> QED BY <3>3, <3>4, <3>5
  <2> QED BY <2>1, <2>2
<1>4. Unlost(t, u)
  BY <1>3 DEF Unlost
<1> QED BY <1>4 DEF u

(* Nor does a part of it, if the process is killed.                        *)
LEMMA CarefulPart ==
    ASSUME NEW t, NEW X, NEW steps \in Seq(X), Careful(t, steps), NEW n \in 1..Len(steps)
    PROVE  Unlost(t, Run(t, SubSeq(steps, 1, n)))
<1> DEFINE part == SubSeq(steps, 1, n)
<1>1. part \in Seq(X) /\ DOMAIN part = 1..n /\ DOMAIN steps = 1..Len(steps) /\ \A m \in 1..n : part[m] = steps[m]
  OBVIOUS
<1>2. 1 \in 1..n /\ 1..n \subseteq DOMAIN steps
  BY <1>1
<1> HIDE DEF part
<1>3. Careful(t, part)
  <2>1. ASSUME NEW m \in DOMAIN part, Touches(part[m]) /\ Present(t, part[m].path)
        PROVE  \/ SparesFile(part[m], t.files[part[m].path])
               \/ Copies(part, part[m].path, t.files[part[m].path])
    <3>1. part[m] = steps[m] /\ m \in DOMAIN steps /\ part[1] = steps[1]
      BY <1>1, <1>2
    <3> QED BY <2>1, <3>1 DEF Careful, Copies
  <2> QED BY <2>1 DEF Careful
<1>4. Unlost(t, Run(t, part))
  BY <1>1, <1>3, CarefulRun
<1> QED BY <1>4 DEF part

(* What steps that agree about a path leave there: the content they write,  *)
(* nothing if they remove the file.                                        *)
LEMMA RunLeaves ==
    ASSUME NEW t, NEW X, NEW steps \in Seq(X), NEW p
    PROVE  LET u == Run(t, steps)
           IN /\ \A x \in ToSet(steps) : \A c :
                    x = Write(p, c) /\ (\A y \in X : Touches(y) /\ y.path = p => y.op = "write" /\ y.to = c) =>
                        p \in DOMAIN u.files /\ u.files[p] = c
              /\ Unlink(p) \in ToSet(steps) /\ (\A y \in X : Touches(y) /\ y.path = p => y.op = "remove") =>
                    p \notin DOMAIN u.files
              /\ p \in DOMAIN u.files =>
                    p \in DOMAIN t.files \/ \E y \in X : y.op = "write" /\ y.path = p
<1> DEFINE u == Run(t, steps)
<1>1. Traced(t, u, steps, Len(steps), p)
  BY RunTraced
<1> HIDE DEF u
<1>2. DOMAIN steps = 1..Len(steps) /\ \A k \in 1..Len(steps) : steps[k] \in X
  OBVIOUS
<1>3. ASSUME NEW k \in 1..Len(steps), Touches(steps[k]), steps[k].path = p
      PROVE  \E m \in 1..Len(steps) :
                /\ steps[m].path = p
                /\ \/ steps[m].op = "write" /\ p \in DOMAIN u.files /\ u.files[p] = steps[m].to
                   \/ steps[m].op = "remove" /\ p \notin DOMAIN u.files
  BY <1>1, <1>3 DEF Traced
<1>4. ASSUME NEW c, Write(p, c) \in ToSet(steps),
             \A y \in X : Touches(y) /\ y.path = p => y.op = "write" /\ y.to = c
      PROVE  p \in DOMAIN u.files /\ u.files[p] = c
  <2>1. PICK k \in 1..Len(steps) : steps[k] = Write(p, c)
    BY <1>2, <1>4 DEF ToSet
  <2>2. Touches(steps[k]) /\ steps[k].path = p
    BY <2>1 DEF Touches, Write
  <2>3. PICK m \in 1..Len(steps) :
                /\ steps[m].path = p
                /\ \/ steps[m].op = "write" /\ p \in DOMAIN u.files /\ u.files[p] = steps[m].to
                   \/ steps[m].op = "remove" /\ p \notin DOMAIN u.files
    BY <1>3, <2>2
  <2>4. steps[m].op = "write" /\ steps[m].to = c
    BY <1>2, <1>4, <2>3 DEF Touches
  <2> QED BY <2>3, <2>4
<1>5. ASSUME Unlink(p) \in ToSet(steps), \A y \in X : Touches(y) /\ y.path = p => y.op = "remove"
      PROVE  p \notin DOMAIN u.files
  <2>1. PICK k \in 1..Len(steps) : steps[k] = Unlink(p)
    BY <1>2, <1>5 DEF ToSet
  <2>2. Touches(steps[k]) /\ steps[k].path = p
    BY <2>1 DEF Touches, Unlink
  <2>3. PICK m \in 1..Len(steps) :
                /\ steps[m].path = p
                /\ \/ steps[m].op = "write" /\ p \in DOMAIN u.files /\ u.files[p] = steps[m].to
                   \/ steps[m].op = "remove" /\ p \notin DOMAIN u.files
    BY <1>3, <2>2
  <2>4. steps[m].op = "remove"
    BY <1>2, <1>5, <2>3 DEF Touches
  <2> QED BY <2>3, <2>4
<1>6. ASSUME p \in DOMAIN u.files, p \notin DOMAIN t.files PROVE \E y \in X : y.op = "write" /\ y.path = p
  BY <1>1, <1>2, <1>6 DEF Traced, Same
<1> QED BY <1>4, <1>5, <1>6 DEF u

(* A plan that removes no directory leaves those that were there, makes     *)
(* those it says and no other, but for the one of backups; and it leaves    *)
(* the record it writes.                                                   *)
LEMMA RunKeeps ==
    ASSUME NEW t, NEW X, NEW steps \in Seq(X), \A x \in X : x.op # "rmdir", NEW i, NEW R
    PROVE  LET u == Run(t, steps)
           IN /\ t.dirs \subseteq u.dirs
              /\ \A d : Mkdir(d) \in ToSet(steps) => d \in u.dirs
              /\ \A d \in u.dirs : d \in t.dirs \union {StateDir, BackupRoot} \/ \E y \in X : y.op = "mkdir" /\ y.path = d
              /\ (\A x \in X : x.op = "record" => x = Record(i, R)) /\ Record(i, R) \in ToSet(steps)
                     /\ i \in DOMAIN t.record => u.record[i] = R
<1> DEFINE T == Trail(t, steps)
           Plain == \A x \in X : x.op = "record" => x = Record(i, R)
           Recorded(n) == \E k \in 1..n : steps[k] = Record(i, R)
           Keeps(n) == /\ t.dirs \subseteq T[n].dirs
                       /\ \A k \in 1..n : steps[k].op = "mkdir" => steps[k].path \in T[n].dirs
                       /\ \A d \in T[n].dirs : \/ d \in t.dirs \union {StateDir, BackupRoot}
                                               \/ \E y \in X : y.op = "mkdir" /\ y.path = d
                       /\ Plain => /\ DOMAIN T[n].record = DOMAIN t.record
                                   /\ i \in DOMAIN t.record /\ Recorded(n) => T[n].record[i] = R
           G == {n \in Nat : n <= Len(steps) => Keeps(n)}
<1>1. Len(steps) \in Nat /\ DOMAIN steps = 1..Len(steps) /\ \A k \in 1..Len(steps) : steps[k] \in X
  OBVIOUS
<1>2. Run(t, steps) = T[Len(steps)] /\ T[0] = t /\ \A n \in 1..Len(steps) : T[n] = Do(T[n - 1], steps[n])
  BY <1>1, RunTrail
<1> HIDE DEF T
<1>3. 0 \in G
  <2>1. 1..0 = {}
    OBVIOUS
  <2>2. Keeps(0)
    BY <1>2, <2>1
  <2> QED BY <2>2
<1>4. ASSUME NEW k \in Nat, k \in G PROVE k + 1 \in G
  <2>1. SUFFICES ASSUME k + 1 <= Len(steps) PROVE Keeps(k + 1)
    BY DEF G
  <2>2. PICK n \in 1..Len(steps) : n = k + 1
    BY <1>1, <2>1
  <2> DEFINE x == steps[k + 1]
             v == T[k]
             w == T[k + 1]
  <2>3. w = Do(v, x) /\ x \in X
    <3>1. T[n] = Do(T[n - 1], steps[n]) /\ n - 1 = k
      BY <1>2, <2>2
    <3> QED BY <1>1, <2>2, <3>1
  <2>4. Keeps(k)
    BY <1>1, <1>4, <2>1 DEF G
  <2>5. \A m \in 1..(k + 1) : m \in 1..k \/ m = k + 1
    OBVIOUS
  <2>6. w.dirs = IF x.op = "mkdir" THEN v.dirs \union {x.path}
                 ELSE IF x.op = "backup" THEN v.dirs \union {StateDir, BackupRoot} ELSE v.dirs
    <3>1. w.dirs = IF x.op = "mkdir" THEN v.dirs \union {x.path}
                   ELSE IF x.op = "rmdir" THEN RemoveEmptyDirectory(v, x.path)
                   ELSE IF x.op = "backup" THEN v.dirs \union {StateDir, BackupRoot} ELSE v.dirs
      <4> HIDE DEF x, v, w
      <4> QED BY <2>3, DoRecord
    <3>2. x.op # "rmdir"
      BY <2>3
    <3> HIDE DEF x, v, w
    <3> QED BY <3>1, <3>2
  <2>7. w.record = IF x.op = "record" THEN [v.record EXCEPT ![x.owner] = x.to] ELSE v.record
    <3> HIDE DEF x, v, w
    <3> QED BY <2>3, DoRecord
  <2> HIDE DEF v, w
  <2>8. v.dirs \subseteq w.dirs /\ (x.op = "mkdir" => x.path \in w.dirs)
    BY <2>6
  <2>9. t.dirs \subseteq w.dirs
    BY <2>4, <2>8 DEF v
  <2>10. \A m \in 1..(k + 1) : steps[m].op = "mkdir" => steps[m].path \in w.dirs
    BY <2>4, <2>5, <2>8 DEF v
  <2>11. ASSUME NEW d \in w.dirs
         PROVE  d \in t.dirs \union {StateDir, BackupRoot} \/ \E y \in X : y.op = "mkdir" /\ y.path = d
    <3>1. CASE d \in v.dirs
      BY <2>4, <3>1 DEF v
    <3>2. CASE d \notin v.dirs
      <4>1. d \in {StateDir, BackupRoot} \/ (x.op = "mkdir" /\ x.path = d)
        BY <2>6, <3>2
      <4> QED BY <2>3, <4>1
    <3> QED BY <3>1, <3>2
  <2>12. ASSUME Plain
         PROVE  /\ DOMAIN w.record = DOMAIN t.record
                /\ i \in DOMAIN t.record /\ Recorded(k + 1) => w.record[i] = R
    <3>1. DOMAIN v.record = DOMAIN t.record /\ (i \in DOMAIN t.record /\ Recorded(k) => v.record[i] = R)
      BY <2>4, <2>12 DEF v
    <3>2. CASE x.op = "record"
      <4>1. x = Record(i, R)
        BY <2>3, <2>12, <3>2
      <4>2. w.record = [v.record EXCEPT ![i] = R]
        BY <2>7, <3>2, <4>1 DEF Record
      <4> QED BY <3>1, <4>2
    <3>3. CASE x.op # "record"
      <4>1. w.record = v.record /\ x # Record(i, R)
        BY <2>7, <3>3 DEF Record
      <4>2. Recorded(k + 1) => Recorded(k)
        BY <2>5, <4>1
      <4> HIDE DEF Recorded
      <4> QED BY <3>1, <4>1, <4>2
    <3> QED BY <3>2, <3>3
  <2> HIDE DEF Plain, Recorded
  <2> QED BY <2>9, <2>10, <2>11, <2>12 DEF w
<1>5. Keeps(Len(steps))
  <2>1. Len(steps) \in G
    <3> HIDE DEF G
    <3> QED BY <1>1, <1>3, <1>4, SetInduction
  <2> HIDE DEF Keeps
  <2> QED BY <1>1, <2>1 DEF G
<1>6. ASSUME NEW d, Mkdir(d) \in ToSet(steps) PROVE d \in T[Len(steps)].dirs
  <2>1. PICK k \in 1..Len(steps) : steps[k] = Mkdir(d)
    BY <1>1, <1>6 DEF ToSet
  <2> QED BY <1>5, <2>1 DEF Mkdir
<1>7. Record(i, R) \in ToSet(steps) => Recorded(Len(steps))
  BY <1>1 DEF ToSet
<1> HIDE DEF Recorded
<1> QED BY <1>2, <1>5, <1>6, <1>7

-----------------------------------------------------------------------------
(* What a command writes there fits.                                       *)
LEMMA WrittenFits ==
    ASSUME NEW p, ~BlockPath(p), NEW v \in Versions
    PROVE  FileFits(p, Written(v))
BY DEF FileFits, FileTyped, Written

(* A target record has blocks where blocks go.                             *)
LEMMA FittingMode ==
    ASSUME NEW i \in Installations, NEW x, TargetFits(i, x)
    PROVE  x.mode \in {"owned-file", "managed-block"} /\ (x.mode = "managed-block" <=> BlockPath(x.path))
<1>1. PICK e \in RegistryEntry : x.path = ArtifactDestination(i, e) /\ x.mode = e.mode
  BY DEF TargetFits
<1>2. e.mode \in {"owned-file", "managed-block"}
  BY DEF RegistryEntry, IsEntry
<1>3. e.mode = "managed-block" <=> BlockPath(ArtifactDestination(i, e))
  BY DestinationSorted
<1> QED BY <1>1, <1>2, <1>3

(* The user's text is there or not.                                        *)
LEMMA OwnTextTyped == \A t, p : OwnText(t, p) \in BOOLEAN
BY Zenon DEF OwnText

(* What a command writes for a target record fits.                         *)
LEMMA RenderedFits ==
    ASSUME NEW i \in Installations, NEW x, TargetFits(i, x), NEW t, NEW v \in Versions
    PROVE  FileFits(x.path, Render(t, x, v))
<1>1. CASE x.mode = "owned-file"
  <2>1. ~BlockPath(x.path) /\ Render(t, x, v) = Written(v)
    BY <1>1, FittingMode DEF Render
  <2> QED BY <2>1, WrittenFits
<1>2. CASE x.mode # "owned-file"
  <2>1. BlockPath(x.path) /\ Render(t, x, v) = [body |-> v, marks |-> "whole", own |-> OwnText(t, x.path)]
    BY <1>2, FittingMode DEF Render, RenderManagedFile
  <2> DEFINE w == Render(t, x, v)
  <2>2. DOMAIN w = {"body", "marks", "own"} /\ w.body = v /\ w.marks = "whole" /\ w.own = OwnText(t, x.path)
    BY <2>1
  <2> HIDE DEF w
  <2>3. w.own \in BOOLEAN
    BY <2>2, OwnTextTyped
  <2>4. FileFits(x.path, w)
    BY <2>1, <2>2, <2>3 DEF FileFits, FileTyped
  <2> QED BY <2>4 DEF w
<1> QED BY <1>1, <1>2

(* So does what remains of a managed file.                                 *)
LEMMA EmptiedFits ==
    ASSUME NEW t, NEW p
    PROVE  FileFits(p, RenderManagedFileWithoutBlock(t, p))
<1> DEFINE w == RenderManagedFileWithoutBlock(t, p)
<1>1. DOMAIN w = {"body", "marks", "own"} /\ w.body = 0 /\ w.marks = "none" /\ w.own = OwnText(t, p)
  BY DEF RenderManagedFileWithoutBlock
<1> HIDE DEF w
<1>2. w.own \in BOOLEAN
  BY <1>1, OwnTextTyped
<1>3. FileFits(p, w)
  BY <1>1, <1>2 DEF FileFits, FileTyped
<1> QED BY <1>3 DEF w

(* The record of a newly installed artifact fits.                          *)
LEMMA InstalledFits ==
    ASSUME NEW i \in Installations, NEW t, NEW e \in RegistryEntry, NEW v \in Versions
    PROVE  TargetFits(i, InstalledArtifact(t, i, e, v))
<1> DEFINE x == InstalledArtifact(t, i, e, v)
<1>1. /\ DOMAIN x = {"target", "artifact", "path", "mode", "checksum", "origin"}
      /\ x.target = e.target /\ x.artifact = e.artifact /\ x.path = ArtifactDestination(i, e)
      /\ x.mode = e.mode /\ x.checksum = v
  BY DEF InstalledArtifact
<1> HIDE DEF x
<1>2. TargetFits(i, x)
  BY <1>1 DEF TargetFits
<1> QED BY <1>2 DEF x

(* A record with another release's checksum fits.                          *)
LEMMA ChecksumFits ==
    ASSUME NEW i, NEW x, TargetFits(i, x), NEW v \in Versions
    PROVE  /\ TargetFits(i, [x EXCEPT !.checksum = v])
           /\ [x EXCEPT !.checksum = v].path = x.path /\ [x EXCEPT !.checksum = v].mode = x.mode
           /\ [x EXCEPT !.checksum = v].target = x.target /\ [x EXCEPT !.checksum = v].artifact = x.artifact
<1> DEFINE y == [x EXCEPT !.checksum = v]
<1>1. DOMAIN x = {"target", "artifact", "path", "mode", "checksum", "origin"}
  BY DEF TargetFits
<1>2. /\ DOMAIN y = DOMAIN x /\ y.checksum = v /\ y.target = x.target /\ y.artifact = x.artifact
      /\ y.path = x.path /\ y.mode = x.mode
  BY <1>1
<1> HIDE DEF y
<1>3. TargetFits(i, y)
  BY <1>1, <1>2 DEF TargetFits
<1> QED BY <1>2, <1>3 DEF y

(* The record an update makes of an artifact fits.                         *)
LEMMA UpdatedFits ==
    ASSUME NEW i \in Installations, NEW t, RecordFits(i, t.record[i]), NEW e \in RegistryEntry, NEW v \in Versions
    PROVE  TargetFits(i, UpdatedArtifact(t, i, e, v))
<1> DEFINE old == RecordedArtifact(t.record[i], e)
           c == CHOOSE x \in old : TRUE
<1>1. CASE old # {}
  <2>1. c \in old
    BY <1>1
  <2>2. TargetFits(i, c)
    BY <2>1 DEF RecordedArtifact, RecordFits
  <2>3. UpdatedArtifact(t, i, e, v) = [c EXCEPT !.checksum = v]
    BY <1>1 DEF UpdatedArtifact
  <2> QED BY <2>2, <2>3, ChecksumFits
<1>2. CASE old = {}
  <2>1. UpdatedArtifact(t, i, e, v) = InstalledArtifact(t, i, e, v)
    BY <1>2 DEF UpdatedArtifact
  <2> QED BY <2>1, InstalledFits
<1> QED BY <1>1, <1>2

(* Merged records fit if the ones before did.                              *)
LEMMA MergedFits ==
    ASSUME NEW i, NEW old, NEW selected, \A x \in old \union selected : TargetFits(i, x)
    PROVE  \A x \in MergeRecords(old, selected) : TargetFits(i, x)
<1> DEFINE kept == {x \in old : ~\E y \in selected : y.target = x.target /\ y.artifact = x.artifact}
           newer(x) == CHOOSE y \in selected : y.path = x.path
           sum(x) == IF \E y \in selected : y.path = x.path THEN newer(x).checksum ELSE x.checksum
<1>1. MergeRecords(old, selected) = selected \union {[x EXCEPT !.checksum = sum(x)] : x \in kept}
  BY DEF MergeRecords
<1>2. ASSUME NEW x \in kept PROVE sum(x) \in Versions
  <2>1. CASE \E y \in selected : y.path = x.path
    <3>1. newer(x) \in selected
      BY <2>1
    <3> QED BY <2>1, <3>1 DEF TargetFits
  <2>2. CASE ~\E y \in selected : y.path = x.path
    BY <2>2 DEF TargetFits
  <2> QED BY <2>1, <2>2
<1> HIDE DEF sum
<1>3. ASSUME NEW x \in kept PROVE TargetFits(i, [x EXCEPT !.checksum = sum(x)])
  <2>1. TargetFits(i, x)
    OBVIOUS
  <2> QED BY <1>2, <2>1, ChecksumFits
<1> QED BY <1>1, <1>3

(* The policy of a record that fits is a release's, all in its place.      *)
LEMMA FittingPolicy ==
    ASSUME NEW i \in Installations, NEW r, RecordFits(i, r)
    PROVE  \A p \in DOMAIN r.policy : r.policy[p] \in Versions /\ Placed(i, p) /\ p \in Path
<1>1. CASE r = NoRecord
  <2>1. DOMAIN r.policy = {}
    BY <1>1 DEF NoRecord
  <2> QED BY <2>1
<1>2. CASE r # NoRecord
  <2>1. r.version \in Versions /\ r.policy = SourcePolicySet(i, r.version)
    BY <1>2 DEF RecordFits
  <2> QED BY <2>1, PolicyPlaced
<1> QED BY <1>1, <1>2

(* No record fits.                                                         *)
LEMMA NoRecordFits == \A i : RecordFits(i, NoRecord)
<1>1. NoRecord.targets = {}
  BY DEF NoRecord
<1> QED BY <1>1 DEF RecordFits

(* An install writes a record that fits.                                   *)
LEMMA InstallRecordFits ==
    ASSUME NEW t, NEW q, q.owner \in Installations, q.version \in Versions,
           RecordFits(q.owner, t.record[q.owner])
    PROVE  RecordFits(q.owner, InstallRecord(t, q))
<1> DEFINE i == q.owner
           R == InstallRecord(t, q)
           selected == {InstalledArtifact(t, i, e, q.version) : e \in ArtifactsOf(Wanted(t, q))}
<1>1. R.targets = MergeRecords(t.record[i].targets, selected) /\ R.policy = SourcePolicySet(i, q.version) /\ R.version = q.version
  BY DEF InstallRecord
<1>2. \A x \in selected : TargetFits(i, x)
  BY ArtifactsFinite, InstalledFits
<1>3. \A x \in t.record[i].targets : TargetFits(i, x)
  BY DEF RecordFits
<1> HIDE DEF selected, R
<1>4. \A x \in R.targets : TargetFits(i, x)
  BY <1>1, <1>2, <1>3, MergedFits
<1>5. RecordFits(i, R)
  BY <1>1, <1>4 DEF RecordFits
<1> QED BY <1>5 DEF R

(* So does an update.                                                      *)
LEMMA UpdateRecordFits ==
    ASSUME NEW t, NEW q, q.owner \in Installations, q.version \in Versions,
           RecordFits(q.owner, t.record[q.owner])
    PROVE  RecordFits(q.owner, UpdateRecord(t, q))
<1> DEFINE i == q.owner
           R == UpdateRecord(t, q)
           updated == {UpdatedArtifact(t, i, e, q.version) : e \in ArtifactsOf(Wanted(t, q))}
<1>1. R.targets = MergeRecords(t.record[i].targets, updated) /\ R.policy = SourcePolicySet(i, q.version) /\ R.version = q.version
  BY DEF UpdateRecord
<1>2. \A x \in updated : TargetFits(i, x)
  BY ArtifactsFinite, UpdatedFits
<1>3. \A x \in t.record[i].targets : TargetFits(i, x)
  BY DEF RecordFits
<1> HIDE DEF updated, R
<1>4. \A x \in R.targets : TargetFits(i, x)
  BY <1>1, <1>2, <1>3, MergedFits
<1>5. RecordFits(i, R)
  BY <1>1, <1>4 DEF RecordFits
<1> QED BY <1>5 DEF R

(* So does an uninstall.                                                   *)
LEMMA UninstallRecordFits ==
    ASSUME NEW t, NEW q, RecordFits(q.owner, t.record[q.owner]), InScope(q.owner, t.record[q.owner])
    PROVE  RecordFits(q.owner, UninstallRecord(t, q))
<1> DEFINE i == q.owner
           r == t.record[i]
           R == UninstallRecord(t, q)
<1>1. CASE Remaining(t, q) = {}
  <2>1. R = NoRecord
    BY <1>1 DEF UninstallRecord
  <2> QED BY <2>1, NoRecordFits
<1>2. CASE Remaining(t, q) # {}
  <2>1. R = [r EXCEPT !.targets = Remaining(t, q), !.dirs = RetainedDirectories(t, q)]
    BY <1>2 DEF UninstallRecord
  <2>2. DOMAIN r = {"legacy", "version", "policy", "dirs", "targets"}
    BY DEF InScope
  <2> HIDE DEF R
  <2>3. R.targets = Remaining(t, q) /\ R.policy = r.policy /\ R.version = r.version
    BY <2>1, <2>2
  <2>4. r # NoRecord
    BY <1>2 DEF Remaining, NoRecord
  <2>5. RecordFits(i, R)
    BY <2>3, <2>4 DEF RecordFits, Remaining
  <2> QED BY <2>5 DEF R
<1> QED BY <1>1, <1>2

(* The record of a format 1 installation fits, and so do its files.        *)
LEMMA LegacyRecordFits ==
    ASSUME NEW i \in Legacy
    PROVE  RecordFits(i, LegacyRecord(i)) /\ LegacyRecord(i).policy = SourcePolicySet(i, 1)
<1> DEFINE routers == {e \in ArtifactsOf(Targets) : e.artifact = "router"}
           R == LegacyRecord(i)
<1>1. R.targets = {InstalledArtifact(LegacyTree, i, e, 1) : e \in routers}
      /\ R.policy = SourcePolicySet(i, 1) /\ R.version = 1
  BY DEF LegacyRecord, LegacyTree
<1>2. i \in Installations /\ 1 \in Versions
  BY LegacyAssumption
<1>3. routers \subseteq RegistryEntry
  BY ArtifactsFinite
<1> HIDE DEF R, routers
<1>4. \A x \in R.targets : TargetFits(i, x)
  BY <1>1, <1>2, <1>3, InstalledFits
<1>5. RecordFits(i, R)
  BY <1>1, <1>2, <1>4 DEF RecordFits
<1> QED BY <1>1, <1>5 DEF R

-----------------------------------------------------------------------------
(* A file that a record vouches for, or that OAW has not written, is spared *)
(* by what a command does to it: first the files of targets.               *)
LEMMA RenderSpares ==
    ASSUME NEW i \in Installations, NEW x, NEW y, TargetFits(i, y), x.path = y.path, x.mode = y.mode,
           NEW t, Present(t, x.path) => FileFits(x.path, t.files[x.path]),
           ValidateLiveTargetRecord(t, y), NEW v
    PROVE  Spares(t, Write(x.path, Render(t, x, v)))
<1> DEFINE p == x.path
           c == t.files[p]
           w == Render(t, x, v)
<1>1. Present(t, p) /\ c.body \in Versions /\ FileFits(p, c)
      /\ (y.mode = "managed-block" => ManagedInstallStatus(t, p) = "present")
  BY DEF ValidateLiveTargetRecord, TargetFits
<1>2. c.body # Edited /\ c.body # 0
  BY <1>1, PolicySetAssumption DEF Edited
<1>3. c.marks \notin {"torn", "garbled"} /\ (c.own => w.own)
  <2>1. CASE y.mode = "owned-file"
    <3>1. ~BlockPath(p)
      BY <2>1, FittingMode
    <3> QED BY <1>1, <1>2, <3>1 DEF FileFits
  <2>2. CASE y.mode # "owned-file"
    <3>1. c.marks = "whole"
      BY <1>1, <2>2, FittingMode DEF ManagedInstallStatus
    <3>2. w.own = OwnText(t, p)
      BY <2>2 DEF Render, RenderManagedFile
    <3>3. c.own => OwnText(t, p)
      BY <1>1 DEF OwnText
    <3> QED BY <3>1, <3>2, <3>3
  <2> QED BY <2>1, <2>2
<1>4. Write(p, w).op = "write" /\ Write(p, w).path = p /\ Write(p, w).to = w
  BY DEF Write
<1> HIDE DEF w, c
<1>5. SparesFile(Write(p, w), c)
  BY <1>2, <1>3, <1>4 DEF SparesFile
<1>6. Spares(t, Write(p, w))
  BY <1>4, <1>5 DEF Spares, c
<1> QED BY <1>6 DEF w

(* A file that check does not call drifted, where nothing is recorded.     *)
LEMMA UntrackedSpares ==
    ASSUME NEW i \in Installations, NEW e \in RegistryEntry, NEW x, x.path = ArtifactDestination(i, e), x.mode = e.mode,
           NEW t, Present(t, x.path) => FileFits(x.path, t.files[x.path]), UntrackedArtifactClean(t, i, e), NEW v
    PROVE  Spares(t, Write(x.path, Render(t, x, v)))
<1> DEFINE p == x.path
           c == t.files[p]
           w == Render(t, x, v)
<1>1. Write(p, w).op = "write" /\ Write(p, w).path = p /\ Write(p, w).to = w
  BY DEF Write
<1>2. CASE e.mode = "owned-file"
  <2>1. ~Present(t, p)
    BY <1>2 DEF UntrackedArtifactClean
  <2> HIDE DEF w
  <2>2. Spares(t, Write(p, w))
    BY <1>1, <2>1 DEF Spares
  <2> QED BY <2>2 DEF w
<1>3. CASE e.mode # "owned-file" /\ Present(t, p)
  <2>1. BlockPath(p)
    BY <1>3, DestinationSorted DEF RegistryEntry, IsEntry
  <2>2. c.marks = "none"
    BY <1>3 DEF UntrackedArtifactClean, ManagedInstallStatus
  <2>3. c.body = 0
    BY <1>3, <2>1, <2>2 DEF FileFits
  <2>4. w.own = OwnText(t, p)
    BY <1>3 DEF Render, RenderManagedFile
  <2>5. c.own => OwnText(t, p)
    BY <1>3 DEF OwnText
  <2> HIDE DEF w, c
  <2>6. SparesFile(Write(p, w), c)
    BY <1>1, <2>2, <2>3, <2>4, <2>5 DEF SparesFile, Edited
  <2>7. Spares(t, Write(p, w))
    BY <1>1, <2>6 DEF Spares, c
  <2> QED BY <2>7 DEF w
<1>4. CASE ~Present(t, p)
  <2> HIDE DEF w
  <2>1. Spares(t, Write(p, w))
    BY <1>1, <1>4 DEF Spares
  <2> QED BY <2>1 DEF w
<1> QED BY <1>2, <1>3, <1>4

(* What an uninstall does to a target that is as recorded.                 *)
LEMMA UninstallSpares ==
    ASSUME NEW i \in Installations, NEW x, TargetFits(i, x),
           NEW t, Present(t, x.path) => FileFits(x.path, t.files[x.path]), ValidateLiveTargetRecord(t, x)
    PROVE  Spares(t, UninstallTarget(t, x))
<1> DEFINE p == x.path
           c == t.files[p]
           w == RenderManagedFileWithoutBlock(t, p)
<1>1. Present(t, p) /\ c.body \in Versions /\ FileFits(p, c)
      /\ (x.mode = "managed-block" => ManagedInstallStatus(t, p) = "present")
  BY DEF ValidateLiveTargetRecord, TargetFits
<1>2. c.body # Edited /\ c.body # 0
  BY <1>1, PolicySetAssumption DEF Edited
<1>3. c.marks \notin {"torn", "garbled"} /\ (x.mode = "owned-file" => ~c.own)
  <2>1. CASE x.mode = "owned-file"
    <3>1. ~BlockPath(p)
      BY <2>1, FittingMode
    <3> QED BY <1>1, <1>2, <3>1 DEF FileFits
  <2>2. CASE x.mode # "owned-file"
    <3>1. c.marks = "whole"
      BY <1>1, <2>2, FittingMode DEF ManagedInstallStatus
    <3> QED BY <2>2, <3>1
  <2> QED BY <2>1, <2>2
<1>4. /\ Write(p, w).op = "write" /\ Write(p, w).path = p /\ Write(p, w).to = w
      /\ Unlink(p).op = "remove" /\ Unlink(p).path = p
  BY DEF Write, Unlink
<1>5. w.own = OwnText(t, p) /\ (OwnText(t, p) <=> c.own)
  BY <1>1 DEF RenderManagedFileWithoutBlock, OwnText
<1>6. UninstallTarget(t, x) = IF x.mode = "owned-file" \/ (x.origin = "created-file" /\ ~OwnText(t, p))
                              THEN Unlink(p) ELSE Write(p, w)
  BY DEF UninstallTarget
<1> HIDE DEF w, c
<1>7. CASE x.mode = "owned-file" \/ (x.origin = "created-file" /\ ~OwnText(t, p))
  <2>1. ~c.own
    BY <1>3, <1>5, <1>7
  <2>2. SparesFile(Unlink(p), c)
    BY <1>2, <1>3, <2>1 DEF SparesFile
  <2>3. Spares(t, Unlink(p))
    BY <1>4, <2>2 DEF Spares, c
  <2> QED BY <1>6, <1>7, <2>3
<1>8. CASE ~(x.mode = "owned-file" \/ (x.origin = "created-file" /\ ~OwnText(t, p)))
  <2>1. SparesFile(Write(p, w), c)
    BY <1>2, <1>3, <1>4, <1>5 DEF SparesFile
  <2>2. Spares(t, Write(p, w))
    BY <1>4, <2>1 DEF Spares, c
  <2> QED BY <1>6, <1>8, <2>2
<1> QED BY <1>7, <1>8

(* Then the files of the Policy Set: a clean one, or none at all.          *)
LEMMA PolicySpares ==
    ASSUME NEW i \in Installations, NEW t, RecordFits(i, t.record[i]), NEW p, Present(t, p) => FileFits(p, t.files[p]),
           ~Present(t, p) \/ (p \in DOMAIN t.record[i].policy /\ PolicyFileClean(t, t.record[i], p))
    PROVE  /\ \A v : Spares(t, Write(p, Written(v)))
           /\ Spares(t, Unlink(p))
<1> DEFINE c == t.files[p]
<1>1. CASE ~Present(t, p)
  <2>1. Unlink(p).path = p /\ \A v : Write(p, Written(v)).path = p
    BY DEF Unlink, Write
  <2> QED BY <1>1, <2>1 DEF Spares
<1>2. CASE Present(t, p)
  <2>1. c.body \in Versions /\ ~BlockPath(p) /\ FileFits(p, c)
    BY <1>2, FittingPolicy DEF PolicyFileClean, Placed
  <2>2. c.body # Edited /\ c.marks = "none" /\ ~c.own
    <3>1. c.body # Edited /\ c.body # 0
      BY <2>1, PolicySetAssumption DEF Edited
    <3> QED BY <2>1, <3>1 DEF FileFits
  <2>3. \A x : SparesFile(x, c)
    BY <2>2 DEF SparesFile
  <2>4. Unlink(p).path = p /\ \A v : Write(p, Written(v)).path = p
    BY DEF Unlink, Write
  <2> QED BY <2>3, <2>4 DEF Spares
<1> QED BY <1>1, <1>2

(* There is none where the records know none.                              *)
LEMMA NothingForeign ==
    ASSUME NEW i \in Installations, NEW t, ValidatePolicySetTree(i, t), NEW p, Placed(i, p),
           p \notin DOMAIN t.record[i].policy
    PROVE  ~Present(t, p)
<1> DEFINE top == PolicyDir(i)
           Inside(S) == {d \in S : IsPrefix(top, d) /\ ~(i = "user" /\ d # CustomProfilesDir(i) /\ UserCustomProfilePath(d))}
<1>1. Inside(DOMAIN t.files) \subseteq DOMAIN t.record[i].policy
  BY DEF ValidatePolicySetTree
<1>2. IsPrefix(top, p) /\ ~(i = "user" /\ p # CustomProfilesDir(i) /\ UserCustomProfilePath(p))
  BY DEF Placed, Below, IsStrictPrefix
<1> QED BY <1>1, <1>2 DEF Present

(* Nor before anything is installed.                                       *)
LEMMA NothingClaimed ==
    ASSUME NEW i \in Installations, NEW t, RequireUnclaimedPolicySetDirectory(t, i), NEW p, Placed(i, p)
    PROVE  ~Present(t, p)
BY DEF RequireUnclaimedPolicySetDirectory, Placed, Present, Below, IsStrictPrefix

-----------------------------------------------------------------------------
(* What the plans consist of.                                              *)
Selected(t, q) == {InstalledArtifact(t, q.owner, e, q.version) : e \in ArtifactsOf(Wanted(t, q))}
Renewed(t, q) == {UpdatedArtifact(t, q.owner, e, q.version) : e \in ArtifactsOf(Wanted(t, q))}
Rendered(t, S, v) == {Write(x.path, Render(t, x, v)) : x \in S}
PolicyWrites(i, R) == {Write(p, Written(R.version)) : p \in DOMAIN R.policy \union {PolicyPath(i)}}
Made(D) == {Mkdir(d) : d \in D}
Dropped(D) == {Rmdir(d) : d \in D}

(* What is in a sequence of one, and in one made from another.             *)
LEMMA SingleSet == \A x : <<x>> \in Seq({x}) /\ ToSet(<<x>>) = {x}
<1>1. ASSUME NEW x PROVE <<x>> \in Seq({x}) /\ ToSet(<<x>>) = {x}
  <2>1. <<x>> \in Seq({x}) /\ DOMAIN <<x>> = {1} /\ <<x>>[1] = x
    OBVIOUS
  <2> QED BY <2>1 DEF ToSet
<1> QED BY <1>1

Maps(f, s, Y) ==
    f \in [DOMAIN s -> Y] /\ \A y \in Y : \E x \in ToSet(s) : \A n \in DOMAIN s : s[n] = x => f[n] = y

(* Such a sequence has the elements of Y.                                  *)
LEMMA MappedSet ==
    ASSUME NEW S, NEW s \in Seq(S), NEW Y, NEW f, Maps(f, s, Y)
    PROVE  f \in Seq(Y) /\ ToSet(f) = Y
<1>1. DOMAIN s = 1..Len(s) /\ Len(s) \in Nat
  OBVIOUS
<1>2. ToSet(s) = {s[n] : n \in DOMAIN s} /\ ToSet(f) = {f[n] : n \in DOMAIN s}
  BY DEF ToSet, Maps
<1>3. \A y \in Y : \E n \in DOMAIN s : y = f[n]
  BY <1>2 DEF Maps
<1>4. f \in Seq(Y)
  BY <1>1 DEF Maps
<1>5. ToSet(f) = Y
  BY <1>2, <1>3 DEF Maps
<1> QED BY <1>4, <1>5

(* The Policy Set files of a record, POLICY.md among them.                 *)
LEMMA PolicyActionsIn ==
    ASSUME NEW i, NEW S, IsFiniteSet(S)
    PROVE  /\ PolicyActions(i, S) \in Seq(S \union {PolicyPath(i)})
           /\ ToSet(PolicyActions(i, S)) = S \union {PolicyPath(i)}
<1> DEFINE rest == S \ {PolicyPath(i)}
           X == S \union {PolicyPath(i)}
<1>1. IsFiniteSet(rest)
  <2>1. rest \in SUBSET S
    OBVIOUS
  <2> HIDE DEF rest
  <2> QED BY <2>1, FS_Subset
<1>2. Listed(rest) \in Seq(rest) /\ ToSet(Listed(rest)) = rest
  BY <1>1, ListedOf
<1>3. rest \subseteq X /\ PolicyPath(i) \in X /\ {PolicyPath(i)} \union rest = X
  OBVIOUS
<1> HIDE DEF rest, X
<1>4. Listed(rest) \in Seq(X) /\ <<PolicyPath(i)>> \in Seq(X)
  BY <1>2, <1>3
<1>5. /\ <<PolicyPath(i)>> \o Listed(rest) \in Seq(X)
      /\ ToSet(<<PolicyPath(i)>> \o Listed(rest)) = ToSet(<<PolicyPath(i)>>) \union ToSet(Listed(rest))
  <2> DEFINE a == <<PolicyPath(i)>>
             b == Listed(rest)
  <2>1. a \in Seq(X) /\ b \in Seq(X)
    BY <1>4
  <2> HIDE DEF a, b
  <2>2. a \o b \in Seq(X) /\ ToSet(a \o b) = ToSet(a) \union ToSet(b)
    BY <2>1, JoinedSet
  <2> QED BY <2>2 DEF a, b
<1>6. ToSet(<<PolicyPath(i)>> \o Listed(rest)) = X
  BY <1>2, <1>3, <1>5, SingleSet
<1> QED BY <1>5, <1>6 DEF PolicyActions, rest, X

(* Writing them.                                                           *)
LEMMA WritePolicySetIn ==
    ASSUME NEW i, NEW R, IsFiniteSet(DOMAIN R.policy)
    PROVE  WritePolicySet(i, R) \in Seq(PolicyWrites(i, R)) /\ ToSet(WritePolicySet(i, R)) = PolicyWrites(i, R)
<1> DEFINE P == DOMAIN R.policy \union {PolicyPath(i)}
           paths == PolicyActions(i, DOMAIN R.policy)
           Element(n) == Write(paths[n], Written(R.version))
<1>1. paths \in Seq(P) /\ ToSet(paths) = P
  BY PolicyActionsIn
<1>2. WritePolicySet(i, R) = [n \in DOMAIN paths |-> Element(n)]
  BY DEF WritePolicySet
<1> HIDE DEF paths, P
<1>3. DOMAIN paths = 1..Len(paths) /\ Len(paths) \in Nat /\ \A n \in 1..Len(paths) : paths[n] \in P
  BY <1>1
<1>4. \A n \in 1..Len(paths) : Element(n) \in PolicyWrites(i, R)
  BY <1>3 DEF PolicyWrites, P
<1>5. ASSUME NEW x \in PolicyWrites(i, R) PROVE \E n \in 1..Len(paths) : x = Element(n)
  <2>1. PICK p \in P : x = Write(p, Written(R.version))
    BY <1>5 DEF PolicyWrites, P
  <2>2. PICK n \in 1..Len(paths) : paths[n] = p
    BY <1>1, <1>3, <2>1 DEF ToSet
  <2> QED BY <2>1, <2>2
<1> HIDE DEF Element
<1>6. ToSet(WritePolicySet(i, R)) = {Element(n) : n \in 1..Len(paths)}
  BY <1>2, <1>3 DEF ToSet
<1>7. ToSet(WritePolicySet(i, R)) = PolicyWrites(i, R)
  BY <1>4, <1>5, <1>6
<1> QED BY <1>2, <1>3, <1>4, <1>7

(* The policy writes of a record of a release are at policy paths.         *)
LEMMA PolicyWritesPaths ==
    ASSUME NEW i \in Installations, NEW R, DOMAIN R.policy \subseteq Path
    PROVE  \A x \in PolicyWrites(i, R) : x.path \in Path /\ x.op = "write"
BY PolicyPlaced DEF PolicyWrites, Write

(* A plan that does these steps, and makes the planned directories that they *)
(* need, each step after those above it.                                   *)
Above(X) == UNION {Parents(x.path) : x \in X}
Performs(plan, X, planned) ==
    /\ plan \in Seq(X \union Made(planned \intersect Above(X)))
    /\ X \union Made(planned \intersect Above(X)) \subseteq ToSet(plan)
    /\ Led(plan, planned)

(* MakingDirectories makes such a plan.                                    *)
LEMMA MakingPerforms ==
    ASSUME NEW X, NEW steps \in Seq(X), ToSet(steps) = X, \A x \in X : x.path \in Path, NEW planned
    PROVE  Performs(MakingDirectories(steps, planned), X, planned)
<1> DEFINE plan == MakingDirectories(steps, planned)
<1>1. /\ plan \in Seq(X \union {Mkdir(d) : d \in planned \intersect Above(X)})
      /\ \A n \in DOMAIN steps : /\ steps[n] \in ToSet(plan)
                                 /\ \A d \in Parents(steps[n].path) \intersect planned : Mkdir(d) \in ToSet(plan)
  BY MakingDirectoriesOf DEF Above
<1>5. Led(plan, planned)
  BY MakingLed
<1> HIDE DEF plan
<1>2. \A x \in X : \E n \in DOMAIN steps : x = steps[n]
  BY DEF ToSet
<1>3. \A x \in X : x \in ToSet(plan) /\ \A d \in Parents(x.path) \intersect planned : Mkdir(d) \in ToSet(plan)
  BY <1>1, <1>2
<1>4. ASSUME NEW y \in Made(planned \intersect Above(X)) PROVE y \in ToSet(plan)
  <2>1. PICK d \in planned \intersect Above(X) : y = Mkdir(d)
    BY <1>4 DEF Made
  <2>2. PICK x \in X : d \in Parents(x.path)
    BY <2>1 DEF Above
  <2> QED BY <1>3, <2>1, <2>2
<1> QED BY <1>1, <1>3, <1>4, <1>5 DEF Performs, Made, plan

(* The steps of an install, and those of an update before it is decided    *)
(* whether to copy.                                                        *)
InstallPart(t, q) ==
    LET R == InstallRecord(t, q)
    IN PolicyWrites(q.owner, R) \union Rendered(t, Selected(t, q), q.version) \union {Record(q.owner, R)}
UpdatePart(t, q) ==
    LET R == UpdateRecord(t, q)
    IN Rendered(t, Renewed(t, q), q.version) \union PolicyWrites(q.owner, R)
           \union {Unlink(p) : p \in Obsolete(t.record[q.owner], R)} \union {Record(q.owner, R)}

(* What the commands write for their targets.                              *)
LEMMA TargetActions ==
    ASSUME NEW i, NEW T, NEW g, DOMAIN g = ArtifactsOf(T),
           NEW actions, actions = [n \in DOMAIN TargetArtifacts(i, T) |-> g[TargetArtifacts(i, T)[n]]]
    PROVE  LET X == {g[e] : e \in ArtifactsOf(T)}
           IN DistinctActions(actions) \in Seq(X) /\ ToSet(DistinctActions(actions)) = X
<1> DEFINE artifacts == TargetArtifacts(i, T)
           X == {g[e] : e \in ArtifactsOf(T)}
<1>1. artifacts \in Seq(RegistryEntry) /\ ToSet(artifacts) = ArtifactsOf(T)
  BY ArtifactsTyped
<1>2. actions = [n \in DOMAIN artifacts |-> g[artifacts[n]]]
  OBVIOUS
<1> HIDE DEF artifacts
<1>3. actions \in [DOMAIN artifacts -> X]
  BY <1>1, <1>2 DEF ToSet
<1>4. \A x \in X : \E e \in ToSet(artifacts) : \A n \in DOMAIN artifacts : artifacts[n] = e => actions[n] = x
  BY <1>1, <1>2
<1> HIDE DEF X
<1>5. Maps(actions, artifacts, X)
  BY <1>3, <1>4 DEF Maps
<1>6. actions \in Seq(X) /\ ToSet(actions) = X
  BY <1>1, <1>5, MappedSet
<1>7. DistinctActions(actions) \in Seq(X) /\ ToSet(DistinctActions(actions)) = X
  BY <1>6, DistinctActionsOf
<1> QED BY <1>7 DEF X

(* An install does its steps.                                              *)
LEMMA InstallStepsIn ==
    ASSUME NEW t, NEW q, q.owner \in Installations,
           Sized(InstallRecord(t, q)), InScope(q.owner, InstallRecord(t, q))
    PROVE  /\ Performs(InstallSteps(t, q), InstallPart(t, q), InstallRecord(t, q).dirs \ t.dirs)
           /\ \A x \in InstallPart(t, q) : x.path \in Path
           /\ LeadsOff(InstallSteps(t, q), Write(PolicyPath(q.owner), Written(InstallRecord(t, q).version)))
<1> DEFINE i == q.owner
           R == InstallRecord(t, q)
           T == Wanted(t, q)
           artifacts == TargetArtifacts(i, T)
           Action(e) == LET x == InstalledArtifact(t, i, e, q.version) IN Write(x.path, Render(t, x, q.version))
           g == [e \in ArtifactsOf(T) |-> Action(e)]
           targets == [n \in DOMAIN artifacts |-> Action(artifacts[n])]
           Targeted == Rendered(t, Selected(t, q), q.version)
           Policed == PolicyWrites(i, R)
           policy == WritePolicySet(i, R)
           distinct == DistinctActions(targets)
           last1 == <<Record(i, R)>>
           X == Policed \union Targeted \union {Record(i, R)}
           planned == R.dirs \ t.dirs
<1>1. InstallSteps(t, q) = MakingDirectories(policy \o distinct \o last1, planned)
  BY DEF InstallSteps
<1>2. distinct \in Seq(Targeted) /\ ToSet(distinct) = Targeted
  <2>1. artifacts \in Seq(RegistryEntry) /\ ToSet(artifacts) = ArtifactsOf(T)
    BY ArtifactsTyped
  <2>2. \A n \in DOMAIN artifacts : artifacts[n] \in ArtifactsOf(T)
    <3> HIDE DEF artifacts
    <3> QED BY <2>1 DEF ToSet
  <2>3. targets = [n \in DOMAIN artifacts |-> g[artifacts[n]]]
    <3> HIDE DEF Action, artifacts
    <3> QED BY <2>2
  <2>4. Targeted = {g[e] : e \in ArtifactsOf(T)}
    <3>1. Targeted = {Action(e) : e \in ArtifactsOf(T)}
      BY DEF Rendered, Selected
    <3>2. {g[e] : e \in ArtifactsOf(T)} = {Action(e) : e \in ArtifactsOf(T)}
      <4> HIDE DEF Action
      <4> QED OBVIOUS
    <3> QED BY <3>1, <3>2
  <2>5. DOMAIN g = ArtifactsOf(T)
    OBVIOUS
  <2> HIDE DEF g, targets, Targeted, T
  <2>6. LET Y == {g[e] : e \in ArtifactsOf(T)}
        IN DistinctActions(targets) \in Seq(Y) /\ ToSet(DistinctActions(targets)) = Y
    BY <2>3, <2>5, TargetActions
  <2> QED BY <2>4, <2>6
<1>3. policy \in Seq(Policed) /\ ToSet(policy) = Policed
  <2>1. IsFiniteSet(DOMAIN R.policy)
    BY DEF Sized
  <2> HIDE DEF R
  <2> QED BY <2>1, WritePolicySetIn
<1>10. Len(policy) > 0 /\ policy[1] = Write(PolicyPath(i), Written(R.version))
  <2> DEFINE paths == PolicyActions(i, DOMAIN R.policy)
             rest == Listed(DOMAIN R.policy \ {PolicyPath(i)})
  <2>1. paths = <<PolicyPath(i)>> \o rest
    BY DEF PolicyActions
  <2>2. \E S : rest \in Seq(S)
    <3>1. IsFiniteSet(DOMAIN R.policy \ {PolicyPath(i)})
      BY FS_Subset DEF Sized
    <3> HIDE DEF R
    <3> QED BY <3>1, OrderedSequence DEF Listed
  <2>3. policy = [n \in DOMAIN paths |-> Write(paths[n], Written(R.version))]
    BY DEF WritePolicySet
  <2> HIDE DEF rest, R, policy
  <2>4. DOMAIN paths = 1..(1 + Len(rest)) /\ Len(rest) \in Nat /\ paths[1] = PolicyPath(i)
    BY <2>1, <2>2
  <2> HIDE DEF paths
  <2>5. 1 \in DOMAIN paths /\ Len(policy) = 1 + Len(rest)
    BY <2>3, <2>4
  <2> QED BY <2>3, <2>4, <2>5
<1>4. \A x \in X : x.path \in Path
  <2>1. \A x \in Policed : x.path \in Path
    <3>1. DOMAIN R.policy \subseteq Path
      BY DEF InScope
    <3> HIDE DEF R
    <3> QED BY <3>1, PolicyWritesPaths
  <2>2. \A x \in Targeted : x.path \in Path
    BY ArtifactsFinite, ArtifactDestinationOf DEF Rendered, Selected, InstalledArtifact, Write
  <2>3. Record(i, R).path \in Path
    BY NamespacesOf DEF Record
  <2> QED BY <2>1, <2>2, <2>3
<1>5. last1 \in Seq({Record(i, R)}) /\ ToSet(last1) = {Record(i, R)}
  BY SingleSet
<1> HIDE DEF Policed, Targeted, policy, distinct, last1, planned
<1>6. policy \o distinct \o last1 \in Seq(X) /\ ToSet(policy \o distinct \o last1) = X
  <2>1. Policed \subseteq X /\ Targeted \subseteq X /\ {Record(i, R)} \subseteq X /\ X = Policed \union Targeted \union {Record(i, R)}
    OBVIOUS
  <2> HIDE DEF X, R
  <2>2. policy \in Seq(X) /\ distinct \in Seq(X) /\ last1 \in Seq(X)
    BY <1>2, <1>3, <1>5, <2>1
  <2> DEFINE front == policy \o distinct
  <2>3. front \in Seq(X) /\ ToSet(front) = ToSet(policy) \union ToSet(distinct)
    BY <2>2, JoinedSet
  <2> HIDE DEF front
  <2>4. front \o last1 \in Seq(X) /\ ToSet(front \o last1) = ToSet(front) \union ToSet(last1)
    BY <2>2, <2>3, JoinedSet
  <2> QED BY <1>2, <1>3, <1>5, <2>1, <2>3, <2>4 DEF front
<1> DEFINE steps == policy \o distinct \o last1
<1>7. Performs(MakingDirectories(steps, planned), X, planned)
  <2> HIDE DEF X, steps
  <2> QED BY <1>4, <1>6, MakingPerforms DEF steps
<1>8. Len(steps) > 0 /\ steps[1] = Write(PolicyPath(i), Written(R.version))
  <2>1. \E A : policy \in Seq(A) /\ distinct \o last1 \in Seq(A) /\ steps = policy \o (distinct \o last1)
    <3>1. Policed \subseteq X /\ Targeted \subseteq X /\ {Record(i, R)} \subseteq X
      OBVIOUS
    <3> HIDE DEF X, R
    <3>2. policy \in Seq(X) /\ distinct \in Seq(X) /\ last1 \in Seq(X)
      BY <1>2, <1>3, <1>5, <3>1
    <3>3. distinct \o last1 \in Seq(X) /\ (policy \o distinct) \o last1 = policy \o (distinct \o last1)
      BY <3>2, JoinedTwice
    <3> QED BY <3>2, <3>3
  <2>2. PICK A : policy \in Seq(A) /\ distinct \o last1 \in Seq(A) /\ steps = policy \o (distinct \o last1)
    BY <2>1
  <2> HIDE DEF steps, X, R
  <2>3. 1 \in 1..Len(policy)
    BY <1>10, <2>2
  <2> QED BY <1>10, <2>2, <2>3
<1>9. LeadsOff(MakingDirectories(steps, planned), steps[1])
  <2> HIDE DEF X, steps
  <2> QED BY <1>4, <1>6, <1>8, MakingLeadsOff DEF steps
<1> QED BY <1>1, <1>4, <1>7, <1>8, <1>9 DEF InstallPart, Policed, Targeted, planned

(* An update does its steps, and copies.                                   *)
LEMMA UpdateStepsIn ==
    ASSUME NEW t, NEW q, q.owner \in Installations,
           Sized(t.record[q.owner]), InScope(q.owner, t.record[q.owner]),
           RecordFits(q.owner, t.record[q.owner]), q.version \in Versions,
           Sized(UpdateRecord(t, q)), InScope(q.owner, UpdateRecord(t, q))
    PROVE  /\ \E plan : /\ Performs(plan, UpdatePart(t, q), UpdateRecord(t, q).dirs \ t.record[q.owner].dirs)
                        /\ UpdateSteps(t, q) = WithBackup(t, q, plan)
           /\ \A x \in UpdatePart(t, q) : x.path \in Path
<1> DEFINE i == q.owner
           r == t.record[i]
           R == UpdateRecord(t, q)
           T == Wanted(t, q)
           artifacts == TargetArtifacts(i, T)
           obsolete == Listed(Obsolete(r, R))
           Action(e) == LET x == UpdatedArtifact(t, i, e, q.version) IN Write(x.path, Render(t, x, q.version))
           g == [e \in ArtifactsOf(T) |-> Action(e)]
           targets == [n \in DOMAIN artifacts |-> Action(artifacts[n])]
           removals == [n \in DOMAIN obsolete |-> Unlink(obsolete[n])]
           Targeted == Rendered(t, Renewed(t, q), q.version)
           Policed == PolicyWrites(i, R)
           Removed == {Unlink(p) : p \in Obsolete(r, R)}
           policy == WritePolicySet(i, R)
           distinct == DistinctActions(targets)
           last1 == <<Record(i, R)>>
           X == Targeted \union Policed \union Removed \union {Record(i, R)}
           planned == R.dirs \ r.dirs
<1>1. UpdateSteps(t, q) = WithBackup(t, q, MakingDirectories(distinct \o policy \o removals \o last1, planned))
  BY DEF UpdateSteps
<1>2. distinct \in Seq(Targeted) /\ ToSet(distinct) = Targeted
  <2>1. artifacts \in Seq(RegistryEntry) /\ ToSet(artifacts) = ArtifactsOf(T)
    BY ArtifactsTyped
  <2>2. \A n \in DOMAIN artifacts : artifacts[n] \in ArtifactsOf(T)
    <3> HIDE DEF artifacts
    <3> QED BY <2>1 DEF ToSet
  <2>3. targets = [n \in DOMAIN artifacts |-> g[artifacts[n]]]
    <3> HIDE DEF Action, artifacts
    <3> QED BY <2>2
  <2>4. Targeted = {g[e] : e \in ArtifactsOf(T)}
    <3>1. Targeted = {Action(e) : e \in ArtifactsOf(T)}
      BY DEF Rendered, Renewed
    <3>2. {g[e] : e \in ArtifactsOf(T)} = {Action(e) : e \in ArtifactsOf(T)}
      <4> HIDE DEF Action
      <4> QED OBVIOUS
    <3> QED BY <3>1, <3>2
  <2>5. DOMAIN g = ArtifactsOf(T)
    OBVIOUS
  <2> HIDE DEF g, targets, Targeted, T
  <2>6. LET Y == {g[e] : e \in ArtifactsOf(T)}
        IN DistinctActions(targets) \in Seq(Y) /\ ToSet(DistinctActions(targets)) = Y
    BY <2>3, <2>5, TargetActions
  <2> QED BY <2>4, <2>6
<1>3. policy \in Seq(Policed) /\ ToSet(policy) = Policed
  <2>1. IsFiniteSet(DOMAIN R.policy)
    BY DEF Sized
  <2> HIDE DEF R
  <2> QED BY <2>1, WritePolicySetIn
<1>4. removals \in Seq(Removed) /\ ToSet(removals) = Removed
  <2>1. Obsolete(r, R) \in SUBSET DOMAIN r.policy
    BY DEF Obsolete
  <2>2. IsFiniteSet(DOMAIN r.policy)
    BY DEF Sized
  <2>3. IsFiniteSet(Obsolete(r, R))
    <3> HIDE DEF R, r
    <3> QED BY <2>1, <2>2, FS_Subset
  <2>4. obsolete \in Seq(Obsolete(r, R)) /\ ToSet(obsolete) = Obsolete(r, R)
    BY <2>3, ListedOf
  <2>5. removals \in [DOMAIN obsolete -> Removed]
    <3>1. \A n \in DOMAIN obsolete : obsolete[n] \in Obsolete(r, R)
      <4> HIDE DEF obsolete, r, R
      <4> QED BY <2>4
    <3> HIDE DEF obsolete, r, R
    <3> QED BY <3>1
  <2>6. \A x \in Removed : \E p \in ToSet(obsolete) : \A n \in DOMAIN obsolete : obsolete[n] = p => removals[n] = x
    <3> HIDE DEF obsolete, r, R
    <3> QED BY <2>4
  <2>7. Maps(removals, obsolete, Removed)
    BY <2>5, <2>6 DEF Maps
  <2> HIDE DEF Removed, removals, obsolete, r, R
  <2> QED BY <2>4, <2>7, MappedSet
<1>5. \A x \in X : x.path \in Path
  <2>1. \A x \in Policed : x.path \in Path
    <3>1. DOMAIN R.policy \subseteq Path
      BY DEF InScope
    <3> HIDE DEF R
    <3> QED BY <3>1, PolicyWritesPaths
  <2>2. \A x \in Targeted : x.path \in Path
    <3>1. SUFFICES ASSUME NEW y \in Renewed(t, q) PROVE Write(y.path, Render(t, y, q.version)).path \in Path
      BY DEF Rendered
    <3>2. TargetFits(i, y)
      BY ArtifactsFinite, UpdatedFits DEF Renewed
    <3>3. y.path \in Path
      BY <3>2, ArtifactDestinationOf DEF TargetFits
    <3> QED BY <3>3 DEF Write
  <2>3. Record(i, R).path \in Path
    BY NamespacesOf DEF Record
  <2>4. \A x \in Removed : x.path \in Path
    BY DEF Unlink, InScope, Obsolete
  <2> QED BY <2>1, <2>2, <2>3, <2>4
<1>6. last1 \in Seq({Record(i, R)}) /\ ToSet(last1) = {Record(i, R)}
  BY SingleSet
<1> HIDE DEF Policed, Targeted, Removed, policy, distinct, removals, last1, planned
<1>7. distinct \o policy \o removals \o last1 \in Seq(X) /\ ToSet(distinct \o policy \o removals \o last1) = X
  <2>1. /\ Policed \subseteq X /\ Targeted \subseteq X /\ Removed \subseteq X /\ {Record(i, R)} \subseteq X
        /\ X = Targeted \union Policed \union Removed \union {Record(i, R)}
    OBVIOUS
  <2> HIDE DEF X, R
  <2>2. policy \in Seq(X) /\ distinct \in Seq(X) /\ removals \in Seq(X) /\ last1 \in Seq(X)
    BY <1>2, <1>3, <1>4, <1>6, <2>1
  <2> DEFINE front == distinct \o policy
             more == front \o removals
  <2>3. front \in Seq(X) /\ ToSet(front) = ToSet(distinct) \union ToSet(policy)
    BY <2>2, JoinedSet
  <2> HIDE DEF front
  <2>4. more \in Seq(X) /\ ToSet(more) = ToSet(front) \union ToSet(removals)
    BY <2>2, <2>3, JoinedSet
  <2> HIDE DEF more
  <2>5. more \o last1 \in Seq(X) /\ ToSet(more \o last1) = ToSet(more) \union ToSet(last1)
    BY <2>2, <2>4, JoinedSet
  <2> QED BY <1>2, <1>3, <1>4, <1>6, <2>1, <2>3, <2>4, <2>5 DEF front, more
<1> DEFINE steps == distinct \o policy \o removals \o last1
<1>8. Performs(MakingDirectories(steps, planned), X, planned)
  <2> HIDE DEF X, steps
  <2> QED BY <1>5, <1>7, MakingPerforms DEF steps
<1> QED BY <1>1, <1>5, <1>8 DEF UpdatePart, Policed, Targeted, Removed, planned

(* The plan of an uninstall, before it is decided whether to copy.         *)
UninstallPart(t, q) ==
    LET i == q.owner
        r == t.record[i]
        P == DOMAIN r.policy \union {PolicyPath(i)}
    IN {UninstallTarget(t, x) : x \in {y \in r.targets : y.target \in q.targets}}
           \union {Unlink(p) : p \in P} \union {Retain(p) : p \in P}
           \union {Record(i, UninstallRecord(t, q))} \union Dropped(r.dirs)

(* A plan records only after a step.                                        *)
RecordsAfter(s, y) == \A n \in DOMAIN s : s[n].op = "record" => \E m \in 1..n : s[m] = y

(* So does one that is put behind steps that record nothing, or that have  *)
(* the step among them.                                                    *)
LEMMA RecordsAfterJoined ==
    ASSUME NEW A, NEW a \in Seq(A), NEW s \in Seq(A), NEW y, \A n \in DOMAIN a : a[n].op # "record",
           y \in ToSet(a) \/ RecordsAfter(s, y)
    PROVE  RecordsAfter(a \o s, y)
<1> DEFINE j == a \o s
           k == Len(a)
           l == Len(s)
<1>1. /\ DOMAIN j = 1..(k + l) /\ DOMAIN a = 1..k /\ DOMAIN s = 1..l /\ k \in Nat /\ l \in Nat
      /\ \A n \in 1..k : j[n] = a[n]
      /\ \A n \in 1..l : j[k + n] = s[n]
  OBVIOUS
<1> HIDE DEF j, k, l
<1>2. ASSUME NEW n \in DOMAIN j, j[n].op = "record" PROVE \E m \in 1..n : j[m] = y
  <2>1. n \in 1..(k + l) /\ n \notin 1..k
    BY <1>1, <1>2
  <2>2. n - k \in 1..l /\ n = k + (n - k)
    BY <1>1, <2>1
  <2>3. CASE y \in ToSet(a)
    <3>1. PICK m \in 1..k : a[m] = y
      BY <1>1, <2>3 DEF ToSet
    <3>2. m \in 1..n
      BY <1>1, <2>1
    <3> QED BY <1>1, <3>1, <3>2
  <2>4. CASE RecordsAfter(s, y)
    <3>1. s[n - k].op = "record"
      BY <1>1, <1>2, <2>2
    <3>2. PICK m \in 1..(n - k) : s[m] = y
      BY <1>1, <2>2, <2>4, <3>1 DEF RecordsAfter
    <3>3. m \in 1..l /\ k + m \in 1..n
      BY <1>1, <2>1, <2>2
    <3> QED BY <1>1, <3>2, <3>3
  <2> QED BY <2>3, <2>4
<1>3. RecordsAfter(j, y)
  BY <1>2 DEF RecordsAfter
<1> QED BY <1>3 DEF j

(* An uninstall consists of such steps, and a copy.                        *)
LEMMA UninstallStepsIn ==
    ASSUME NEW t, NEW q, q.owner \in Installations, Installed(t, q.owner),
           Kept(q.owner, t.record[q.owner]), RecordFits(q.owner, t.record[q.owner])
    PROVE  \E plan \in Seq(UninstallPart(t, q)) :
              /\ UninstallSteps(t, q) = WithBackup(t, q, plan)
              /\ Remaining(t, q) = {} => \A p \in DOMAIN t.record[q.owner].policy : RecordsAfter(plan, Unlink(p))
<1> DEFINE i == q.owner
           r == t.record[i]
           R == UninstallRecord(t, q)
           P == DOMAIN r.policy \union {PolicyPath(i)}
           remaining == Remaining(t, q)
           removed == {x \in r.targets \ remaining : ~\E y \in remaining : y.path = x.path}
           rank == [x \in removed |-> TargetArtifactPosition(x)]
           gone == Ordered(removed, rank)
           unlinked == [n \in DOMAIN gone |-> UninstallTarget(t, gone[n])]
           targets == DistinctActions(unlinked)
           directories == r.dirs \ RetainedDirectories(t, q)
           policy == PolicyActions(i, DOMAIN r.policy)
           namespaces == {d \in directories : InstallNamespaceDirectory(i, d)}
           PolicyStep(n) == IF remaining = {} THEN Unlink(policy[n]) ELSE Retain(policy[n])
           files == [n \in DOMAIN policy |-> PolicyStep(n)]
           front == RemoveDirectories(directories \ namespaces)
           leftover == RemoveDirectories(namespaces)
           plan == targets \o front \o files \o <<Record(i, R)>> \o leftover
           X == UninstallPart(t, q)
<1>1. UninstallSteps(t, q) = WithBackup(t, q, plan)
  BY DEF UninstallSteps
<1>2. Sized(r) /\ InScope(i, r)
  BY DEF Kept
<1>3. \A x \in removed : x \in r.targets /\ x.target \in q.targets
  BY DEF Remaining
<1>4. \A x \in removed : rank[x] \in Nat
  <2>1. SUFFICES ASSUME NEW x \in removed PROVE TargetArtifactPosition(x) \in Nat
    OBVIOUS
  <2>2. x \in r.targets /\ x.target \in Targets
    <3>1. ParseInstallationState(i, r)
      BY DEF Kept, Readable, Installed
    <3> QED BY <1>3, <3>1 DEF ParseInstallationState, ValidateTargetRecords, Supported
  <2>3. PICK e \in RegistryEntry : x.target = e.target /\ x.artifact = e.artifact
    BY <2>2 DEF RecordFits, TargetFits
  <2>4. PICK n \in 1..19 : e = Registry[n]
    BY RegistryTyped DEF RegistryEntry, ToSet
  <2>5. n \in InPlay /\ Registry[n].target = x.target /\ Registry[n].artifact = x.artifact
    BY <2>2, <2>3, <2>4, RegistryTyped DEF InPlay
  <2>6. TargetArtifactPosition(x) \in InPlay
    BY <2>5 DEF TargetArtifactPosition
  <2> QED BY <2>6, RegistryTyped DEF InPlay
<1>5. targets \in Seq(X) /\ \A n \in DOMAIN targets : targets[n].op # "record"
  <2>1. IsFiniteSet(removed)
    <3>1. removed \in SUBSET r.targets
      OBVIOUS
    <3> HIDE DEF removed
    <3> QED BY <1>2, <3>1, FS_Subset DEF Sized
  <2>2. gone \in Seq(removed)
    <3> HIDE DEF removed, rank
    <3> QED BY <1>4, <2>1, OrderedMembers
  <2> HIDE DEF gone, removed
  <2>3. DOMAIN gone = 1..Len(gone) /\ Len(gone) \in Nat /\ \A n \in 1..Len(gone) : gone[n] \in removed
    BY <2>2
  <2>4. \A n \in 1..Len(gone) : UninstallTarget(t, gone[n]) \in X
    BY <1>3, <2>3 DEF UninstallPart
  <2>5. \A x : UninstallTarget(t, x).op # "record"
    BY DEF UninstallTarget, Unlink, Write
  <2> DEFINE Y == {x \in X : x.op # "record"}
  <2>6. \A n \in 1..Len(gone) : UninstallTarget(t, gone[n]) \in Y
    BY <2>4, <2>5
  <2>7. Y \subseteq X /\ \A y \in Y : y.op # "record"
    OBVIOUS
  <2> HIDE DEF X, Y
  <2>8. unlinked \in Seq(Y)
    BY <2>3, <2>6
  <2> HIDE DEF unlinked
  <2>9. targets \in Seq(Y)
    BY <2>8, DistinctActionsOf
  <2> HIDE DEF targets
  <2> QED BY <2>7, <2>9
<1>6. /\ files \in Seq(X) /\ \A n \in DOMAIN files : files[n].op # "record"
      /\ remaining = {} => \A p \in DOMAIN r.policy : Unlink(p) \in ToSet(files)
  <2>1. policy \in Seq(P) /\ ToSet(policy) = P
    BY <1>2, PolicyActionsIn DEF Sized
  <2> HIDE DEF policy
  <2>2. DOMAIN policy = 1..Len(policy) /\ Len(policy) \in Nat /\ \A n \in 1..Len(policy) : policy[n] \in P
    <3> HIDE DEF P
    <3> QED BY <2>1
  <2>3. \A n \in 1..Len(policy) : PolicyStep(n) \in X /\ PolicyStep(n).op # "record"
    BY <2>2 DEF UninstallPart, Unlink, Retain
  <2>4. ASSUME remaining = {}, NEW p \in DOMAIN r.policy PROVE Unlink(p) \in ToSet(files)
    <3>1. PICK n \in DOMAIN policy : policy[n] = p
      BY <2>1 DEF ToSet
    <3>2. n \in DOMAIN files /\ files[n] = Unlink(p)
      BY <2>4, <3>1
    <3> QED BY <3>2 DEF ToSet
  <2> HIDE DEF X, PolicyStep
  <2> QED BY <2>2, <2>3, <2>4
<1>7. ASSUME NEW D, D \in SUBSET r.dirs
      PROVE  RemoveDirectories(D) \in Seq(X) /\ \A n \in DOMAIN RemoveDirectories(D) : RemoveDirectories(D)[n].op # "record"
  <2>1. IsFiniteSet(r.dirs) /\ r.dirs \subseteq Path
    BY <1>2 DEF Sized, InScope, DirectoryInScope
  <2>2. IsFiniteSet(D) /\ D \subseteq Path
    <3> HIDE DEF r
    <3> QED BY <1>7, <2>1, FS_Subset
  <2>3. RemoveDirectories(D) \in Seq(Dropped(D))
    BY <2>2, RemoveDirectoriesOf DEF Dropped
  <2>4. Dropped(D) \subseteq X /\ \A y \in Dropped(D) : y.op # "record"
    BY <1>7 DEF Dropped, UninstallPart, Rmdir
  <2> HIDE DEF X
  <2> QED BY <2>3, <2>4
<1>8. front \in Seq(X) /\ leftover \in Seq(X) /\ \A n \in DOMAIN front : front[n].op # "record"
  <2>1. directories \ namespaces \in SUBSET r.dirs /\ namespaces \in SUBSET r.dirs
    OBVIOUS
  <2> HIDE DEF namespaces, directories, X
  <2> QED BY <1>7, <2>1
<1>9. <<Record(i, R)>> \in Seq(X)
  <2>1. Record(i, R) \in X
    BY DEF UninstallPart
  <2> HIDE DEF X, R
  <2> QED BY <2>1
<1> HIDE DEF targets, front, files, leftover, X, R
<1>10. plan \in Seq(X)
  BY <1>5, <1>6, <1>8, <1>9
<1>11. ASSUME remaining = {}, NEW p \in DOMAIN r.policy PROVE RecordsAfter(plan, Unlink(p))
  <2> DEFINE rest == <<Record(i, R)>> \o leftover
             both == files \o rest
             three == front \o both
  <2>1. Unlink(p) \in ToSet(files)
    BY <1>6, <1>11
  <2>2. rest \in Seq(X)
    BY <1>8, <1>9
  <2>3. plan = targets \o (front \o (files \o rest))
    <3> DEFINE one == targets \o front
               two == one \o files
    <3>1. one \in Seq(X)
      BY <1>5, <1>8
    <3>2. two \in Seq(X) /\ one \o (files \o rest) = targets \o (front \o (files \o rest))
      <4> DEFINE z == files \o rest
      <4>1. z \in Seq(X)
        BY <1>6, <2>2
      <4>2. two \in Seq(X)
        BY <1>6, <3>1
      <4> HIDE DEF z
      <4>3. targets \in Seq(X) /\ front \in Seq(X)
        BY <1>5, <1>8
      <4>4. (targets \o front) \o z = targets \o (front \o z)
        BY <4>1, <4>3, JoinedTwice
      <4> QED BY <4>2, <4>4 DEF z
    <3> HIDE DEF one
    <3>3. two \o rest = one \o (files \o rest)
      <4> HIDE DEF rest
      <4>1. files \in Seq(X)
        BY <1>6
      <4>2. (one \o files) \o rest = one \o (files \o rest)
        BY <2>2, <3>1, <4>1, JoinedTwice
      <4> QED BY <4>2
    <3> HIDE DEF two
    <3>4. (two \o <<Record(i, R)>>) \o leftover = two \o rest
      BY <1>8, <1>9, <3>2, JoinedTwice
    <3> QED BY <3>2, <3>3, <3>4 DEF two, one
  <2> HIDE DEF rest, plan
  <2>4. both \in Seq(X) /\ three \in Seq(X)
    BY <1>6, <1>8, <2>2
  <2>5. RecordsAfter(both, Unlink(p))
    BY <1>6, <2>1, <2>2, RecordsAfterJoined
  <2> HIDE DEF both
  <2>6. RecordsAfter(three, Unlink(p))
    BY <1>8, <2>4, <2>5, RecordsAfterJoined
  <2> HIDE DEF three
  <2>7. RecordsAfter(targets \o three, Unlink(p))
    BY <1>5, <2>4, <2>6, RecordsAfterJoined
  <2> QED BY <2>3, <2>7 DEF three, both
<1> HIDE DEF plan
<1> QED BY <1>1, <1>10, <1>11 DEF X

-----------------------------------------------------------------------------
(* A plan that is careful, and whose steps fit.                            *)
StepsFit(X) == \A x \in X : StepFits(x) /\ (x.op = "record" => x.owner \in Installations)
Sound(t, steps) == Careful(t, steps) /\ \E X : steps \in Seq(X) /\ StepsFit(X)

(* A plan of which every step spares its file is sound, and so is any plan *)
(* that begins with copies of what it destroys.                            *)
LEMMA WithBackupSound ==
    ASSUME NEW t, NEW q, NEW X, NEW plan \in Seq(X), StepsFit(X),
           BackupRequired(t, q) \/ \A x \in X : Spares(t, x)
    PROVE  Sound(t, WithBackup(t, q, plan))
<1> DEFINE S == Saved(t, {plan[n].path : n \in {m \in DOMAIN plan : Destroys(t, plan[m])}})
           b == Backup(S)
           steps == <<b>> \o plan
<1>1. plan \in Seq(X) /\ DOMAIN plan = 1..Len(plan) /\ Len(plan) \in Nat /\ \A n \in 1..Len(plan) : plan[n] \in X
  OBVIOUS
<1>2. b.op = "backup" /\ b.to = S
  BY DEF Backup
<1>3. WithBackup(t, q, plan) = (IF BackupRequired(t, q) THEN <<b>> ELSE <<>>) \o plan
  BY DEF WithBackup
<1>4. CASE BackupRequired(t, q)
  <2>1. ASSUME NEW n \in DOMAIN plan, Touches(plan[n]), Present(t, plan[n].path)
        PROVE  \/ SparesFile(plan[n], t.files[plan[n].path])
               \/ <<plan[n].path, t.files[plan[n].path]>> \in S
    <3>1. CASE Destroys(t, plan[n])
      BY <2>1, <3>1 DEF Saved
    <3>2. CASE ~Destroys(t, plan[n])
      <4>1. plan[n].op = "write" /\ plan[n].to = t.files[plan[n].path]
        BY <2>1, <3>2 DEF Destroys, Touches
      <4> QED BY <4>1 DEF SparesFile
    <3> QED BY <3>1, <3>2
  <2> DEFINE Y == X \union {b}
  <2> HIDE DEF S, b
  <2>2. steps \in Seq(Y)
    <3>1. <<b>> \in Seq(Y) /\ plan \in Seq(Y)
      BY <1>1
    <3> HIDE DEF Y
    <3> QED BY <3>1
  <2>3. /\ DOMAIN steps = 1..(Len(plan) + 1) /\ steps[1] = b
        /\ \A n \in DOMAIN steps : n # 1 => n - 1 \in DOMAIN plan /\ steps[n] = plan[n - 1]
    <3>1. <<b>> \in Seq(Y) /\ plan \in Seq(Y) /\ Len(<<b>>) = 1 /\ <<b>>[1] = b
      BY <1>1
    <3> HIDE DEF Y
    <3> QED BY <1>1, <3>1
  <2> HIDE DEF steps
  <2>4. Careful(t, steps)
    <3>1. SUFFICES ASSUME NEW n \in DOMAIN steps, Touches(steps[n]), Present(t, steps[n].path)
                   PROVE  \/ SparesFile(steps[n], t.files[steps[n].path])
                          \/ Copies(steps, steps[n].path, t.files[steps[n].path])
      BY DEF Careful
    <3>2. n # 1
      BY <1>2, <2>3, <3>1 DEF Touches
    <3>3. n - 1 \in DOMAIN plan /\ steps[n] = plan[n - 1]
      BY <2>3, <3>2
    <3> QED BY <1>2, <2>1, <2>3, <3>1, <3>3 DEF Copies
  <2>5. StepsFit(Y)
    BY <1>2 DEF StepsFit, StepFits
  <2> HIDE DEF Y
  <2>6. Sound(t, steps)
    BY <2>2, <2>4, <2>5 DEF Sound
  <2> QED BY <1>3, <1>4, <2>6 DEF steps
<1>5. CASE ~BackupRequired(t, q)
  <2>1. WithBackup(t, q, plan) = plan
    <3>1. WithBackup(t, q, plan) = <<>> \o plan
      BY <1>3, <1>5
    <3> HIDE DEF b
    <3> QED BY <1>1, <3>1
  <2>2. Careful(t, plan)
    <3>1. \A x \in X : Spares(t, x)
      BY <1>5
    <3> QED BY <1>1, <3>1 DEF Careful, Spares
  <2> QED BY <1>1, <2>1, <2>2 DEF Sound
<1> QED BY <1>4, <1>5

(* Steps that do not write or remove a file spare it.                      *)
LEMMA QuietSpares ==
    ASSUME NEW t, NEW x, x.op \notin {"write", "remove"}
    PROVE  Spares(t, x)
BY DEF Spares, Touches

(* What a command may rely on that has nothing to copy.                    *)
Reliable(t, q) ==
    LET i == q.owner
        r == t.record[i]
    IN /\ ValidatePolicySetTree(i, t)
       /\ \A p \in DOMAIN r.policy : PolicyFileClean(t, r, p)
       /\ \A x \in r.targets : x.target \in Wanted(t, q) => ValidateLiveTargetRecord(t, x)

(* It is so unless the command was refused, or copies.                     *)
LEMMA FineIsReliable ==
    ASSUME NEW t, NEW q, ForceVerdict(t, q) = "fine", ~BackupRequired(t, q)
    PROVE  Reliable(t, q)
<1> DEFINE i == q.owner
           r == t.record[i]
<1>1. CASE q.force
  <2>1. ForcedPreparation(t, q).verdict = "fine"
    BY <1>1 DEF ForceVerdict
  <2>2. ValidatePolicySetTree(i, t)
    <3>1. SUFFICES ASSUME ~ValidatePolicySetTree(i, t) PROVE FALSE
      OBVIOUS
    <3>2. ForcedPreparation(t, q) = [verdict |-> "refused", record |-> {}]
      BY <3>1 DEF ForcedPreparation
    <3> QED BY <2>1, <3>2
  <2>3. \A p \in DOMAIN r.policy : PolicyFileClean(t, r, p)
    BY <1>1 DEF BackupRequired
  <2>4. ASSUME NEW x \in r.targets, x.target \in Wanted(t, q) PROVE ValidateLiveTargetRecord(t, x)
    <3>1. x.path \in SelectedPaths(r, Wanted(t, q))
      BY <2>4 DEF SelectedPaths
    <3> QED BY <1>1, <3>1 DEF BackupRequired
  <2> QED BY <2>2, <2>3, <2>4 DEF Reliable
<1>2. CASE ~q.force
  <2>1. ValidateClean(i, t)
    BY <1>2 DEF ForceVerdict
  <2> QED BY <2>1 DEF ValidateClean, ValidatePolicySetFiles, Reliable
<1> QED BY <1>1, <1>2

(* Then no Policy Set file it writes or removes is somebody else's.        *)
LEMMA ReliablePolicy ==
    ASSUME NEW t, NEW q, q.owner \in Installations, Fitting(t), Reliable(t, q),
           NEW p, p \in DOMAIN t.record[q.owner].policy \/ Placed(q.owner, p)
    PROVE  (\A v : Spares(t, Write(p, Written(v)))) /\ Spares(t, Unlink(p))
<1> DEFINE i == q.owner
<1>1. RecordFits(i, t.record[i]) /\ (Present(t, p) => FileFits(p, t.files[p]))
  BY DEF Fitting, Present
<1>2. ~Present(t, p) \/ (p \in DOMAIN t.record[i].policy /\ PolicyFileClean(t, t.record[i], p))
  BY NothingForeign DEF Reliable
<1> QED BY <1>1, <1>2, PolicySpares

(* No two entries of the registry are of one target and one artifact.      *)
LEMMA RegistryKeys ==
    ASSUME NEW e \in RegistryEntry, NEW f \in RegistryEntry, e.target = f.target, e.artifact = f.artifact
    PROVE  e = f
<1> DEFINE Is(n, t, a) == Registry[n].target = t /\ Registry[n].artifact = a
<1>1. Is(1, "claude", "router")
  <2>1. Registry[1] = Anywhere("claude", "router", <<".claude", "CLAUDE.md">>, "managed-block")
    BY DEF Registry
  <2> QED BY <2>1 DEF Anywhere, ProjectOnly, Entry
<1>2. Is(2, "claude", "native-entrypoint")
  <2>1. Registry[2] = Anywhere("claude", "native-entrypoint", Skill(".claude"), "owned-file")
    BY DEF Registry
  <2> QED BY <2>1 DEF Anywhere, ProjectOnly, Entry
<1>3. Is(3, "codex", "router")
  <2>1. Registry[3] = Entry("codex", "router", "home", <<".codex", "AGENTS.md">>, AgentsFile, "managed-block")
    BY DEF Registry
  <2> QED BY <2>1 DEF Anywhere, ProjectOnly, Entry
<1>4. Is(4, "codex", "native-entrypoint")
  <2>1. Registry[4] = Anywhere("codex", "native-entrypoint", Skill(".agents"), "owned-file")
    BY DEF Registry
  <2> QED BY <2>1 DEF Anywhere, ProjectOnly, Entry
<1>5. Is(5, "codex", "native-policy")
  <2>1. Registry[5] = Anywhere("codex", "native-policy", <<".agents", "skills", "oaw", "agents", "openai.yaml">>, "owned-file")
    BY DEF Registry
  <2> QED BY <2>1 DEF Anywhere, ProjectOnly, Entry
<1>6. Is(6, "gemini", "router")
  <2>1. Registry[6] = Entry("gemini", "router", "home", <<".gemini", "GEMINI.md">>, <<"GEMINI.md">>, "managed-block")
    BY DEF Registry
  <2> QED BY <2>1 DEF Anywhere, ProjectOnly, Entry
<1>7. Is(7, "gemini", "native-entrypoint")
  <2>1. Registry[7] = Anywhere("gemini", "native-entrypoint", <<".gemini", "commands", "oaw.toml">>, "owned-file")
    BY DEF Registry
  <2> QED BY <2>1 DEF Anywhere, ProjectOnly, Entry
<1>8. Is(8, "opencode", "router")
  <2>1. Registry[8] = Entry("opencode", "router", "config", <<"opencode", "AGENTS.md">>, AgentsFile, "managed-block")
    BY DEF Registry
  <2> QED BY <2>1 DEF Anywhere, ProjectOnly, Entry
<1>9. Is(9, "opencode", "native-entrypoint")
  <2>1. Registry[9] = Entry("opencode", "native-entrypoint", "config", <<"opencode", "commands", "oaw.md">>, <<".opencode", "commands", "oaw.md">>, "owned-file")
    BY DEF Registry
  <2> QED BY <2>1 DEF Anywhere, ProjectOnly, Entry
<1>10. Is(10, "cursor", "router")
  <2>1. Registry[10] = ProjectOnly("cursor", "router", <<".cursor", "rules", "open-agent-workflow.mdc">>)
    BY DEF Registry
  <2> QED BY <2>1 DEF Anywhere, ProjectOnly, Entry
<1>11. Is(11, "cursor", "native-entrypoint")
  <2>1. Registry[11] = ProjectOnly("cursor", "native-entrypoint", Skill(".cursor"))
    BY DEF Registry
  <2> QED BY <2>1 DEF Anywhere, ProjectOnly, Entry
<1>12. Is(12, "windsurf", "router")
  <2>1. Registry[12] = ProjectOnly("windsurf", "router", <<".devin", "rules", "open-agent-workflow.md">>)
    BY DEF Registry
  <2> QED BY <2>1 DEF Anywhere, ProjectOnly, Entry
<1>13. Is(13, "windsurf", "native-entrypoint")
  <2>1. Registry[13] = ProjectOnly("windsurf", "native-entrypoint", <<".windsurf", "workflows", "oaw.md">>)
    BY DEF Registry
  <2> QED BY <2>1 DEF Anywhere, ProjectOnly, Entry
<1>14. Is(14, "cline", "router")
  <2>1. Registry[14] = ProjectOnly("cline", "router", <<".clinerules", "open-agent-workflow.md">>)
    BY DEF Registry
  <2> QED BY <2>1 DEF Anywhere, ProjectOnly, Entry
<1>15. Is(15, "cline", "native-entrypoint")
  <2>1. Registry[15] = ProjectOnly("cline", "native-entrypoint", Skill(".cline"))
    BY DEF Registry
  <2> QED BY <2>1 DEF Anywhere, ProjectOnly, Entry
<1>16. Is(16, "roo", "router")
  <2>1. Registry[16] = ProjectOnly("roo", "router", <<".roo", "rules", "open-agent-workflow.md">>)
    BY DEF Registry
  <2> QED BY <2>1 DEF Anywhere, ProjectOnly, Entry
<1>17. Is(17, "roo", "native-entrypoint")
  <2>1. Registry[17] = ProjectOnly("roo", "native-entrypoint", <<".roo", "commands", "oaw.md">>)
    BY DEF Registry
  <2> QED BY <2>1 DEF Anywhere, ProjectOnly, Entry
<1>18. Is(18, "copilot", "router")
  <2>1. Registry[18] = ProjectOnly("copilot", "router", <<".github", "instructions", "open-agent-workflow.instructions.md">>)
    BY DEF Registry
  <2> QED BY <2>1 DEF Anywhere, ProjectOnly, Entry
<1>19. Is(19, "copilot", "native-entrypoint")
  <2>1. Registry[19] = ProjectOnly("copilot", "native-entrypoint", Skill(".github"))
    BY DEF Registry
  <2> QED BY <2>1 DEF Anywhere, ProjectOnly, Entry
<1>20. ASSUME NEW m \in 1..19, NEW n \in 1..19,
               Registry[m].target = Registry[n].target, Registry[m].artifact = Registry[n].artifact
       PROVE   m = n
  <2> DEFINE routers == {1, 3, 6, 8, 10, 12, 14, 16, 18}
             entrypoints == {2, 4, 7, 9, 11, 13, 15, 17, 19}
  <2>1. \A k \in 1..19 : k \in routers \/ k \in entrypoints \/ k = 5
    OBVIOUS
  <2>2. \A k \in routers : Registry[k].artifact = "router"
    BY <1>1, <1>3, <1>6, <1>8, <1>10, <1>12, <1>14, <1>16, <1>18
  <2>3. \A k \in entrypoints : Registry[k].artifact = "native-entrypoint"
    BY <1>2, <1>4, <1>7, <1>9, <1>11, <1>13, <1>15, <1>17, <1>19
  <2>4. \A j, k \in routers : Registry[j].target = Registry[k].target => j = k
    BY <1>1, <1>3, <1>6, <1>8, <1>10, <1>12, <1>14, <1>16, <1>18
  <2>5. \A j, k \in entrypoints : Registry[j].target = Registry[k].target => j = k
    BY <1>2, <1>4, <1>7, <1>9, <1>11, <1>13, <1>15, <1>17, <1>19
  <2> HIDE DEF routers, entrypoints
  <2> QED BY <1>5, <1>20, <2>1, <2>2, <2>3, <2>4, <2>5
<1>21. PICK m \in 1..19 : e = Registry[m]
  BY RegistryTyped DEF RegistryEntry, ToSet
<1>22. PICK n \in 1..19 : f = Registry[n]
  BY RegistryTyped DEF RegistryEntry, ToSet
<1> QED BY <1>20, <1>21, <1>22

-----------------------------------------------------------------------------
(* Steps that fit, and that spare their files, make a sound plan.          *)
LEMMA SparingSound ==
    ASSUME NEW t, NEW X, NEW steps \in Seq(X), StepsFit(X), \A x \in X : Spares(t, x)
    PROVE  Sound(t, steps)
<1>1. \A n \in DOMAIN steps : steps[n] \in X
  OBVIOUS
<1>2. Careful(t, steps)
  BY <1>1 DEF Careful, Spares
<1> QED BY <1>2 DEF Sound

(* Writing the Policy Set of a release fits.                               *)
LEMMA PolicyWritesFit ==
    ASSUME NEW i \in Installations, NEW R, NEW v \in Versions, R.policy = SourcePolicySet(i, v), R.version = v
    PROVE  /\ StepsFit(PolicyWrites(i, R))
           /\ \A p \in DOMAIN R.policy \union {PolicyPath(i)} : Placed(i, p)
<1>1. \A p \in DOMAIN R.policy \union {PolicyPath(i)} : Placed(i, p)
  BY PolicyPlaced
<1>2. ASSUME NEW p \in DOMAIN R.policy \union {PolicyPath(i)}, NEW x, x = Write(p, Written(R.version))
      PROVE  StepFits(x) /\ x.op # "record"
  <2>1. x.op = "write" /\ x.path = p /\ x.to = Written(R.version)
    BY <1>2 DEF Write
  <2>2. FileFits(p, Written(R.version))
    BY <1>1, WrittenFits DEF Placed
  <2> QED BY <2>1, <2>2 DEF StepFits
<1>3. StepsFit(PolicyWrites(i, R))
  BY <1>2 DEF StepsFit, PolicyWrites
<1> QED BY <1>1, <1>3

(* So do the files of targets.                                             *)
LEMMA RenderedStepsFit ==
    ASSUME NEW i \in Installations, NEW S, \A x \in S : TargetFits(i, x), NEW t, NEW v \in Versions
    PROVE  StepsFit(Rendered(t, S, v))
<1>1. ASSUME NEW y \in S, NEW x, x = Write(y.path, Render(t, y, v))
      PROVE  StepFits(x) /\ x.op # "record"
  <2>1. x.op = "write" /\ x.path = y.path /\ x.to = Render(t, y, v)
    BY <1>1 DEF Write
  <2>2. FileFits(y.path, Render(t, y, v))
    BY RenderedFits
  <2> QED BY <2>1, <2>2 DEF StepFits
<1> QED BY <1>1 DEF StepsFit, Rendered

(* And a record that fits.                                                 *)
LEMMA RecordStepFits ==
    ASSUME NEW i \in Installations, NEW R, RecordFits(i, R)
    PROVE  StepsFit({Record(i, R)})
<1>1. Record(i, R).op = "record" /\ Record(i, R).owner = i /\ Record(i, R).to = R
  BY DEF Record
<1> QED BY <1>1 DEF StepsFit, StepFits

(* An update is sound.                                                     *)
LEMMA UpdateSound ==
    ASSUME NEW t, Good(t), Fitting(t), NEW q \in Requests, UpdateAccepted(t, q), ForceVerdict(t, q) # "manual"
    PROVE  Sound(t, UpdateSteps(t, q))
<1> DEFINE i == q.owner
           r == t.record[i]
           R == UpdateRecord(t, q)
           v == q.version
<1>1. i \in Installations /\ v \in Versions
  BY RequestsAssumption
<1>2. Kept(i, r) /\ RecordFits(i, r)
  BY <1>1 DEF Good, Fitting
<1>3. /\ ForceVerdict(t, q) = "fine"
      /\ \A e \in ArtifactsOf(Wanted(t, q)) : MayUpdate(t, i, e)
      /\ SerializeInstallState(i, R) /\ ValidateOwnedDirectories(i, R)
  BY DEF UpdateAccepted
<1>4. Sized(R) /\ InScope(i, R)
  BY <1>1, <1>2, <1>3, UpdateRecordOf DEF Kept
<1> DEFINE X == UpdatePart(t, q) \union Made(R.dirs \ r.dirs)
<1>5. PICK plan \in Seq(X) : UpdateSteps(t, q) = WithBackup(t, q, plan)
  <2>1. PICK plan : Performs(plan, UpdatePart(t, q), R.dirs \ r.dirs) /\ UpdateSteps(t, q) = WithBackup(t, q, plan)
    BY <1>1, <1>2, <1>4, UpdateStepsIn DEF Kept
  <2>2. plan \in Seq(X)
    BY <2>1 DEF Performs, Made
  <2> QED BY <2>1, <2>2
<1>6. \A e \in ArtifactsOf(Wanted(t, q)) : e \in RegistryEntry /\ e.target \in Wanted(t, q)
  BY ArtifactsFinite DEF ArtifactsOf
<1>7. \A y \in Renewed(t, q) : TargetFits(i, y)
  BY <1>1, <1>2, <1>6, UpdatedFits DEF Renewed
<1>8. R.policy = SourcePolicySet(i, v) /\ R.version = v
  BY DEF UpdateRecord
<1>9. StepsFit(X)
  <2>1. StepsFit(Rendered(t, Renewed(t, q), v))
    BY <1>1, <1>7, RenderedStepsFit
  <2>2. StepsFit(PolicyWrites(i, R))
    BY <1>1, <1>8, PolicyWritesFit
  <2>3. StepsFit({Record(i, R)})
    BY <1>1, <1>2, UpdateRecordFits, RecordStepFits
  <2>4. StepsFit({Unlink(p) : p \in Obsolete(r, R)}) /\ StepsFit(Made(R.dirs \ r.dirs))
    BY DEF StepsFit, StepFits, Unlink, Made, Mkdir
  <2> HIDE DEF R
  <2> QED BY <2>1, <2>2, <2>3, <2>4 DEF UpdatePart, StepsFit, R
<1>10. ASSUME ~BackupRequired(t, q), NEW x \in X PROVE Spares(t, x)
  <2>1. Reliable(t, q)
    BY <1>3, <1>10, FineIsReliable
  <2>2. ASSUME NEW y \in Renewed(t, q) PROVE Spares(t, Write(y.path, Render(t, y, v)))
    <3>1. PICK e \in ArtifactsOf(Wanted(t, q)) : y = UpdatedArtifact(t, i, e, v)
      BY <2>2 DEF Renewed
    <3> DEFINE old == RecordedArtifact(r, e)
               c == CHOOSE z \in old : TRUE
    <3>2. Present(t, y.path) => FileFits(y.path, t.files[y.path])
      BY DEF Fitting, Present
    <3>3. CASE old # {}
      <4>1. c \in old /\ y = [c EXCEPT !.checksum = v]
        BY <3>1, <3>3 DEF UpdatedArtifact
      <4>2. c \in r.targets /\ c.target = e.target
        BY <4>1 DEF RecordedArtifact
      <4> HIDE DEF c
      <4>3. TargetFits(i, c) /\ ValidateLiveTargetRecord(t, c)
        BY <1>2, <1>6, <2>1, <4>2 DEF RecordFits, Reliable
      <4>4. y.path = c.path /\ y.mode = c.mode
        BY <1>1, <4>1, <4>3, ChecksumFits
      <4> QED BY <1>1, <3>2, <4>3, <4>4, RenderSpares
    <3>4. CASE old = {}
      <4>1. y = InstalledArtifact(t, i, e, v) /\ UntrackedArtifactClean(t, i, e)
        BY <1>3, <3>1, <3>4 DEF UpdatedArtifact, MayUpdate
      <4>2. y.path = ArtifactDestination(i, e) /\ y.mode = e.mode
        BY <4>1 DEF InstalledArtifact
      <4> QED BY <1>1, <1>6, <3>2, <4>1, <4>2, UntrackedSpares
    <3> QED BY <3>3, <3>4
  <2>3. CASE x \in Rendered(t, Renewed(t, q), v)
    BY <2>2, <2>3 DEF Rendered
  <2>4. CASE x \in PolicyWrites(i, R)
    <3>1. PICK p \in DOMAIN R.policy \union {PolicyPath(i)} : x = Write(p, Written(R.version))
      BY <2>4 DEF PolicyWrites
    <3>2. Placed(i, p)
      <4> HIDE DEF R
      <4> QED BY <1>1, <1>8, PolicyWritesFit
    <3> HIDE DEF R
    <3> QED BY <1>1, <2>1, <3>1, <3>2, ReliablePolicy
  <2>5. CASE x \in {Unlink(p) : p \in Obsolete(r, R)}
    BY <1>1, <2>1, <2>5, ReliablePolicy DEF Obsolete
  <2>6. CASE x \in {Record(i, R)} \union Made(R.dirs \ r.dirs)
    <3>1. x.op \notin {"write", "remove"}
      BY <2>6 DEF Record, Made, Mkdir
    <3> QED BY <3>1, QuietSpares
  <2> QED BY <1>10, <2>3, <2>4, <2>5, <2>6 DEF UpdatePart
<1> HIDE DEF X
<1> QED BY <1>5, <1>9, <1>10, WithBackupSound

(* So is an uninstall.                                                     *)
LEMMA UninstallSound ==
    ASSUME NEW t, Good(t), Fitting(t), NEW q \in Requests, UninstallAccepted(t, q),
           Installed(t, q.owner), ForceVerdict(t, q) # "manual"
    PROVE  Sound(t, UninstallSteps(t, q))
<1> DEFINE i == q.owner
           r == t.record[i]
           R == UninstallRecord(t, q)
           P == DOMAIN r.policy \union {PolicyPath(i)}
           Targeted == {x \in r.targets : x.target \in q.targets}
<1>1. i \in Installations
  BY RequestsAssumption
<1>2. Kept(i, r) /\ RecordFits(i, r)
  BY <1>1 DEF Good, Fitting
<1>3. ForceVerdict(t, q) = "fine"
  BY DEF UninstallAccepted
<1>4. PICK plan \in Seq(UninstallPart(t, q)) : UninstallSteps(t, q) = WithBackup(t, q, plan)
  BY <1>1, <1>2, UninstallStepsIn
<1>5. \A x \in Targeted : TargetFits(i, x)
  BY <1>2 DEF RecordFits
<1>6. StepsFit(UninstallPart(t, q))
  <2>1. ASSUME NEW y \in Targeted, NEW x, x = UninstallTarget(t, y) PROVE StepFits(x) /\ x.op # "record"
    <3> DEFINE w == RenderManagedFileWithoutBlock(t, y.path)
    <3>1. x = Unlink(y.path) \/ x = Write(y.path, w)
      BY <2>1 DEF UninstallTarget
    <3>2. FileFits(y.path, w)
      BY EmptiedFits
    <3> HIDE DEF w
    <3> QED BY <3>1, <3>2 DEF StepFits, Unlink, Write
  <2>2. StepsFit({UninstallTarget(t, x) : x \in Targeted})
    BY <2>1 DEF StepsFit
  <2>3. StepsFit({Record(i, R)})
    BY <1>1, <1>2, UninstallRecordFits, RecordStepFits DEF Kept
  <2>4. StepsFit({Unlink(p) : p \in P}) /\ StepsFit({Retain(p) : p \in P}) /\ StepsFit(Dropped(r.dirs))
    BY DEF StepsFit, StepFits, Unlink, Retain, Dropped, Rmdir
  <2> HIDE DEF R
  <2> QED BY <2>2, <2>3, <2>4 DEF UninstallPart, StepsFit, R
<1>7. ASSUME ~BackupRequired(t, q), NEW x \in UninstallPart(t, q) PROVE Spares(t, x)
  <2>1. Reliable(t, q)
    BY <1>3, <1>7, FineIsReliable
  <2>2. CASE x \in {UninstallTarget(t, y) : y \in Targeted}
    <3>1. PICK y \in Targeted : x = UninstallTarget(t, y)
      BY <2>2
    <3>2. Present(t, y.path) => FileFits(y.path, t.files[y.path])
      BY DEF Fitting, Present
    <3>3. ValidateLiveTargetRecord(t, y)
      BY <2>1 DEF Reliable, Wanted
    <3> QED BY <1>1, <1>5, <3>1, <3>2, <3>3, UninstallSpares
  <2>3. CASE x \in {Unlink(p) : p \in P}
    <3>1. PICK p \in P : x = Unlink(p)
      BY <2>3
    <3>2. p \in DOMAIN r.policy \/ Placed(i, p)
      BY <1>1, <3>1, PolicyPlaced
    <3> QED BY <1>1, <2>1, <3>1, <3>2, ReliablePolicy
  <2>4. CASE x \in {Retain(p) : p \in P} \union {Record(i, R)} \union Dropped(r.dirs)
    <3>1. x.op \notin {"write", "remove"}
      BY <2>4 DEF Retain, Record, Dropped, Rmdir
    <3> QED BY <3>1, QuietSpares
  <2> QED BY <1>7, <2>2, <2>3, <2>4 DEF UninstallPart
<1> QED BY <1>4, <1>6, <1>7, WithBackupSound

(* So is an install that is accepted by the tree as it is.                 *)
LEMMA InstallSound ==
    ASSUME NEW t, Good(t), Fitting(t), NEW q \in Requests, InstallAccepted(t, q)
    PROVE  Sound(t, InstallSteps(t, q))
<1> DEFINE i == q.owner
           r == t.record[i]
           R == InstallRecord(t, q)
           v == q.version
           X == PolicyWrites(i, R) \union Rendered(t, Selected(t, q), v) \union {Record(i, R)} \union Made(R.dirs \ t.dirs)
<1>1. i \in Installations /\ v \in Versions
  BY RequestsAssumption
<1>2. Kept(i, r) /\ RecordFits(i, r)
  BY <1>1 DEF Good, Fitting
<1>3. /\ IF Installed(t, i) THEN ValidateClean(i, t) ELSE RequireUnclaimedPolicySetDirectory(t, i)
      /\ \A e \in ArtifactsOf(Wanted(t, q)) : MayInstall(t, i, e, v)
      /\ SerializeInstallState(i, R) /\ ValidateOwnedDirectories(i, R)
  BY DEF InstallAccepted
<1>4. Sized(R) /\ InScope(i, R)
  BY <1>1, <1>2, <1>3, InstallRecordOf DEF Kept
<1>5. InstallSteps(t, q) \in Seq(X)
  <2>1. Performs(InstallSteps(t, q), InstallPart(t, q), R.dirs \ t.dirs)
    BY <1>1, <1>4, InstallStepsIn
  <2> QED BY <2>1 DEF Performs, InstallPart, Made
<1>6. \A e \in ArtifactsOf(Wanted(t, q)) : e \in RegistryEntry
  BY ArtifactsFinite
<1>7. \A y \in Selected(t, q) : TargetFits(i, y)
  BY <1>1, <1>6, InstalledFits DEF Selected
<1>8. R.policy = SourcePolicySet(i, v) /\ R.version = v
  BY DEF InstallRecord
<1>9. StepsFit(X)
  <2>1. StepsFit(Rendered(t, Selected(t, q), v))
    BY <1>1, <1>7, RenderedStepsFit
  <2>2. StepsFit(PolicyWrites(i, R))
    BY <1>1, <1>8, PolicyWritesFit
  <2>3. StepsFit({Record(i, R)})
    BY <1>1, <1>2, InstallRecordFits, RecordStepFits
  <2>4. StepsFit(Made(R.dirs \ t.dirs))
    BY DEF StepsFit, StepFits, Made, Mkdir
  <2> HIDE DEF R
  <2> QED BY <2>1, <2>2, <2>3, <2>4 DEF StepsFit
<1>10. ASSUME NEW y \in r.targets
       PROVE  TargetFits(i, y) /\ ValidateLiveTargetRecord(t, y)
  <2>1. Installed(t, i)
    BY DEF Installed, NoRecord
  <2> QED BY <1>2, <1>3, <2>1 DEF RecordFits, ValidateClean
<1>11. ASSUME NEW y \in Selected(t, q) PROVE Spares(t, Write(y.path, Render(t, y, v)))
  <2>1. PICK e \in ArtifactsOf(Wanted(t, q)) : y = InstalledArtifact(t, i, e, v)
    BY <1>11 DEF Selected
  <2>2. y.path = ArtifactDestination(i, e) /\ y.mode = e.mode /\ e \in RegistryEntry
    BY <1>6, <2>1 DEF InstalledArtifact
  <2>3. Present(t, y.path) => FileFits(y.path, t.files[y.path])
    BY DEF Fitting, Present
  <2>4. CASE RecordedArtifact(r, e) # {}
    <3>1. PICK z \in r.targets : z.target = e.target /\ z.artifact = e.artifact
      BY <2>4 DEF RecordedArtifact
    <3>2. PICK f \in RegistryEntry : /\ z.target = f.target /\ z.artifact = f.artifact
                                     /\ z.path = ArtifactDestination(i, f) /\ z.mode = f.mode
      BY <1>10 DEF TargetFits
    <3>3. f = e
      BY <2>2, <3>1, <3>2, RegistryKeys
    <3> QED BY <1>1, <1>10, <2>2, <2>3, <3>2, <3>3, RenderSpares
  <2>5. CASE RecordedArtifact(r, e) = {} /\ e.mode = "managed-block" /\ At(r, y.path) # {}
    <3>1. PICK z \in r.targets : z.path = y.path
      BY <2>5 DEF At
    <3>2. z.mode = "managed-block"
      BY <1>1, <1>10, <2>2, <2>5, <3>1, DestinationSorted, FittingMode
    <3> QED BY <1>1, <1>10, <2>2, <2>3, <2>5, <3>1, <3>2, RenderSpares
  <2>6. CASE RecordedArtifact(r, e) = {} /\ ~(e.mode = "managed-block" /\ At(r, y.path) # {})
    <3>1. UntrackedArtifactClean(t, i, e)
      BY <1>3, <2>2, <2>6 DEF MayInstall
    <3> QED BY <1>1, <2>2, <2>3, <3>1, UntrackedSpares
  <2> QED BY <2>4, <2>5, <2>6
<1>12. ASSUME NEW p, Placed(i, p) PROVE \A w : Spares(t, Write(p, Written(w)))
  <2>1. ~Present(t, p) \/ (p \in DOMAIN r.policy /\ PolicyFileClean(t, r, p))
    <3>1. CASE Installed(t, i)
      <4>1. ValidatePolicySetFiles(i, t)
        BY <1>3, <3>1 DEF ValidateClean
      <4> QED BY <1>1, <1>12, <4>1, NothingForeign DEF ValidatePolicySetFiles
    <3>2. CASE ~Installed(t, i)
      BY <1>1, <1>3, <1>12, <3>2, NothingClaimed
    <3> QED BY <3>1, <3>2
  <2>2. Present(t, p) => FileFits(p, t.files[p])
    BY DEF Fitting, Present
  <2> QED BY <1>1, <1>2, <2>1, <2>2, PolicySpares
<1>13. ASSUME NEW x \in X PROVE Spares(t, x)
  <2>1. CASE x \in Rendered(t, Selected(t, q), v)
    BY <1>11, <2>1 DEF Rendered
  <2>2. CASE x \in PolicyWrites(i, R)
    <3>1. PICK p \in DOMAIN R.policy \union {PolicyPath(i)} : x = Write(p, Written(R.version))
      BY <2>2 DEF PolicyWrites
    <3>2. Placed(i, p)
      <4> HIDE DEF R
      <4> QED BY <1>1, <1>8, PolicyWritesFit
    <3> HIDE DEF R
    <3> QED BY <1>12, <3>1, <3>2
  <2>3. CASE x \in {Record(i, R)} \union Made(R.dirs \ t.dirs)
    <3>1. x.op \notin {"write", "remove"}
      BY <2>3 DEF Record, Made, Mkdir
    <3> QED BY <3>1, QuietSpares
  <2> QED BY <1>13, <2>1, <2>2, <2>3
<1> HIDE DEF X
<1> QED BY <1>5, <1>9, <1>13, SparingSound

(* What is sound for the tree a command has seen is sound for the tree it   *)
(* is applied to, if that still looks the same at each path.                *)
LEMMA SeenSound ==
    ASSUME NEW seen, NEW steps, Sound(seen, steps), \A n \in DOMAIN steps : SameAsSeen(seen, steps[n])
    PROVE  Sound(tree, steps)
<1>1. ASSUME NEW n \in DOMAIN steps, Touches(steps[n]), Present(tree, steps[n].path)
      PROVE  \/ SparesFile(steps[n], tree.files[steps[n].path])
             \/ Copies(steps, steps[n].path, tree.files[steps[n].path])
  <2>1. Present(seen, steps[n].path) /\ tree.files[steps[n].path] = seen.files[steps[n].path]
    BY <1>1 DEF SameAsSeen, Touches
  <2> QED BY <1>1, <2>1 DEF Sound, Careful
<1>2. Careful(tree, steps)
  BY <1>1 DEF Careful
<1> QED BY <1>2 DEF Sound

(* A plan that is applied is sound.                                        *)
LEMMA PlanSound ==
    ASSUME Good(tree), Fitting(tree), NEW seen, Good(seen), Fitting(seen), NEW q \in Requests,
           Accepted(seen, q), StillValid(q, seen, Steps(seen, q))
    PROVE  Sound(tree, Steps(seen, q))
<1> DEFINE i == q.owner
           steps == Steps(seen, q)
<1>1. \A n \in DOMAIN steps : SameAsSeen(seen, steps[n])
  BY DEF StillValid
<1>2. Sound(seen, steps) => Sound(tree, steps)
  <2> HIDE DEF steps
  <2> QED BY <1>1, SeenSound
<1> SUFFICES Sound(seen, steps) \/ Sound(tree, steps)
  BY <1>2
<1>3. CASE Manual(seen, q)
  <2> DEFINE x == Backup(Saved(seen, {y.path : y \in ForcedPreparation(seen, q).record} \union {PolicyPath(i)}))
  <2>1. steps = <<x>>
    BY <1>3 DEF Steps, ManualRecovery
  <2>2. x.op = "backup"
    BY DEF Backup
  <2> HIDE DEF x, steps
  <2> DEFINE X == {x}
  <2>3. StepsFit(X) /\ \A y \in X : Spares(seen, y)
    BY <2>2, QuietSpares DEF StepsFit, StepFits
  <2>4. steps \in Seq(X)
    BY <2>1
  <2> HIDE DEF X
  <2> QED BY <2>3, <2>4, SparingSound
<1>4. CASE ~Manual(seen, q) /\ q.kind = "install"
  <2>1. steps = InstallSteps(tree, q) /\ InstallAccepted(tree, q)
    BY <1>4 DEF StillValid, PreparedAgain
  <2> QED BY <2>1, InstallSound
<1>5. CASE ~Manual(seen, q) /\ q.kind = "update"
  <2>1. steps = UpdateSteps(seen, q) /\ UpdateAccepted(seen, q)
    BY <1>5 DEF Steps, Accepted
  <2>2. ForceVerdict(seen, q) # "manual"
    BY <1>5, <2>1 DEF Manual, UpdateAccepted
  <2> QED BY <2>1, <2>2, UpdateSound
<1>6. CASE ~Manual(seen, q) /\ q.kind = "uninstall"
  <2>1. steps = UninstallSteps(seen, q) /\ UninstallAccepted(seen, q)
    BY <1>6 DEF Steps, Accepted
  <2>2. CASE ~Installed(seen, i)
    <3>1. steps = <<>>
      BY <2>1, <2>2 DEF UninstallSteps
    <3> DEFINE X == {}
    <3>2. steps \in Seq(X)
      BY <3>1
    <3>3. StepsFit(X) /\ \A y \in X : Spares(seen, y)
      BY DEF StepsFit
    <3> HIDE DEF X, steps
    <3> QED BY <3>2, <3>3, SparingSound
  <2>3. CASE Installed(seen, i)
    <3>1. ForceVerdict(seen, q) # "manual"
      BY <1>6, <2>3 DEF Manual
    <3> QED BY <2>1, <2>3, <3>1, UninstallSound
  <2> QED BY <2>2, <2>3
<1>7. q.kind \in {"install", "update", "uninstall"}
  BY DEF Accepted
<1> QED BY <1>3, <1>4, <1>5, <1>6, <1>7

-----------------------------------------------------------------------------
(* The files and records of the tree fit, and so do those of the trees that *)
(* pending commands have seen; edits are counted.                          *)
FittingInvariant ==
    /\ Fitting(tree) /\ edits \in Nat
    /\ \A p \in Procs : pending[p].busy => Fitting(pending[p].seen)

(* It holds at first: the files of a format 1 installation fit.            *)
LEMMA InitFitting == Init => FittingInvariant
<1> SUFFICES ASSUME Init PROVE FittingInvariant
  OBVIOUS
<1>1. /\ tree.files = InitialFiles
      /\ tree.record = [i \in Installations |-> IF i \in Legacy THEN LegacyRecord(i) ELSE NoRecord]
  BY DEF Init
<1>2. \A i \in Installations : RecordFits(i, tree.record[i])
  BY <1>1, LegacyRecordFits, NoRecordFits
<1> DEFINE Block(p) == \E i \in Legacy : \E x \in LegacyRecord(i).targets : x.path = p /\ x.mode = "managed-block"
           written == UNION {DOMAIN LegacyRecord(i).policy \union {x.path : x \in LegacyRecord(i).targets} : i \in Legacy}
           Content(p) == IF Block(p) THEN [body |-> 1, marks |-> "whole", own |-> FALSE] ELSE Written(1)
<1>3. InitialFiles = [p \in written |-> Content(p)]
  BY DEF InitialFiles
<1>4. ASSUME NEW p \in written PROVE FileFits(p, Content(p))
  <2>1. PICK i \in Legacy : p \in DOMAIN LegacyRecord(i).policy \/ \E x \in LegacyRecord(i).targets : x.path = p
    OBVIOUS
  <2>2. \A j \in Legacy : j \in Installations /\ RecordFits(j, LegacyRecord(j))
    BY LegacyAssumption, LegacyRecordFits
  <2>3. CASE Block(p)
    <3>1. BlockPath(p)
      BY <2>2, <2>3, FittingMode DEF RecordFits
    <3>2. Content(p) = [body |-> 1, marks |-> "whole", own |-> FALSE]
      BY <2>3
    <3>3. 1 \in Versions
      BY LegacyAssumption
    <3> HIDE DEF Content
    <3> QED BY <3>1, <3>2, <3>3 DEF FileFits, FileTyped
  <2>4. CASE ~Block(p)
    <3>1. ~BlockPath(p)
      <4>1. CASE p \in DOMAIN LegacyRecord(i).policy
        BY <2>2, <4>1, FittingPolicy DEF Placed
      <4>2. CASE p \notin DOMAIN LegacyRecord(i).policy
        <5>1. PICK x \in LegacyRecord(i).targets : x.path = p
          BY <2>1, <4>2
        <5>2. x.mode # "managed-block"
          BY <2>4, <5>1
        <5> QED BY <2>2, <5>1, <5>2, FittingMode DEF RecordFits
      <4> QED BY <4>1, <4>2
    <3>2. Content(p) = Written(1) /\ 1 \in Versions
      BY <2>4, LegacyAssumption
    <3> HIDE DEF Content
    <3> QED BY <3>1, <3>2, WrittenFits
  <2> QED BY <2>3, <2>4
<1> HIDE DEF written, Content
<1>5. \A p \in DOMAIN tree.files : FileFits(p, tree.files[p])
  BY <1>1, <1>3, <1>4
<1>6. DOMAIN tree.record = Installations
  BY <1>1
<1>7. edits \in Nat /\ \A p \in Procs : ~pending[p].busy
  BY DEF Init, Idle
<1> QED BY <1>2, <1>5, <1>6, <1>7 DEF FittingInvariant, Fitting

(* A user's file fits if what it becomes does.                             *)
LEMMA EditFits ==
    ASSUME Fitting(tree), Shaped(tree), NEW p, NEW c, Edit(p, c), FileFits(p, c)
    PROVE  Fitting(tree')
<1>1. tree' = [tree EXCEPT !.files = Put(tree.files, p, c)]
  BY DEF Edit
<1>2. tree'.files = Put(tree.files, p, c) /\ tree'.record = tree.record
  BY <1>1 DEF Shaped
<1>3. \A f \in DOMAIN tree'.files : FileFits(f, tree'.files[f])
  BY <1>2 DEF Put, Fitting
<1> QED BY <1>2, <1>3 DEF Fitting

(* Whatever users do, files fit.                                           *)
LEMMA WriteOwnFits ==
    ASSUME Fitting(tree), Shaped(tree), WriteOwn
    PROVE  Fitting(tree')
<1> DEFINE Becomes(p) == IF Present(tree, p) THEN [tree.files[p] EXCEPT !.own = TRUE] ELSE UserText
<1>1. PICK p \in UserFiles : /\ ~Present(tree, p) \/ ManagedInstallStatus(tree, p) # "absent"
                             /\ Edit(p, Becomes(p))
  BY DEF WriteOwn
<1>2. FileFits(p, Becomes(p))
  <2>1. CASE ~Present(tree, p)
    <3>1. Becomes(p) = [body |-> 0, marks |-> "none", own |-> TRUE]
      BY <2>1 DEF UserText
    <3> HIDE DEF Becomes
    <3> QED BY <3>1 DEF FileFits, FileTyped
  <2>2. CASE Present(tree, p)
    <3> DEFINE c == tree.files[p]
    <3>1. FileFits(p, c) /\ c.marks # "none"
      BY <1>1, <2>2 DEF Fitting, Present, ManagedInstallStatus
    <3>2. Becomes(p) = [c EXCEPT !.own = TRUE]
      BY <2>2
    <3> HIDE DEF Becomes, c
    <3> QED BY <3>1, <3>2 DEF FileFits, FileTyped
  <2> QED BY <2>1, <2>2
<1> HIDE DEF Becomes
<1> QED BY <1>1, <1>2, EditFits

(* The same of what they change in what OAW wrote.                         *)
LEMMA EditBodyFits ==
    ASSUME Fitting(tree), Shaped(tree), EditBody
    PROVE  Fitting(tree')
<1>1. PICK p \in DOMAIN tree.files : Ours(p) /\ Edit(p, [tree.files[p] EXCEPT !.body = Edited])
  BY DEF EditBody
<1> DEFINE c == tree.files[p]
           w == [c EXCEPT !.body = Edited]
<1>2. FileFits(p, c) /\ c.body # 0
  BY <1>1, PolicySetAssumption DEF Fitting, Ours
<1>3. FileFits(p, w)
  <2> HIDE DEF c
  <2>1. DOMAIN w = DOMAIN c /\ w.body = Edited /\ w.marks = c.marks /\ w.own = c.own
    BY <1>2 DEF FileFits
  <2> HIDE DEF w
  <2> QED BY <1>2, <2>1 DEF FileFits, FileTyped
<1>4. Edit(p, w)
  BY <1>1
<1> HIDE DEF w
<1> QED BY <1>3, <1>4, EditFits

(* The same of the markers they break.                                     *)
LEMMA BreakMarkersFits ==
    ASSUME Fitting(tree), Shaped(tree), BreakMarkers
    PROVE  Fitting(tree')
<1>1. PICK p \in DOMAIN tree.files :
         /\ tree.files[p].marks = "whole"
         /\ \/ Edit(p, [tree.files[p] EXCEPT !.marks = "torn"])
            \/ Edit(p, [tree.files[p] EXCEPT !.marks = "garbled"])
            \/ Edit(p, [tree.files[p] EXCEPT !.marks = "none", !.body = 0])
  BY DEF BreakMarkers
<1> DEFINE c == tree.files[p]
<1>2. FileFits(p, c) /\ c.marks = "whole"
  BY <1>1 DEF Fitting
<1>3. /\ FileFits(p, [c EXCEPT !.marks = "torn"]) /\ FileFits(p, [c EXCEPT !.marks = "garbled"])
      /\ FileFits(p, [c EXCEPT !.marks = "none", !.body = 0])
  <2> HIDE DEF c
  <2> QED BY <1>2 DEF FileFits, FileTyped
<1> QED BY <1>1, <1>3, EditFits

(* The same of what they delete.                                           *)
LEMMA DeleteFits ==
    ASSUME Fitting(tree), Delete
    PROVE  Fitting(tree')
<1>1. PICK p : tree' = Do(tree, Unlink(p))
  BY DEF Delete
<1>2. StepFits(Unlink(p)) /\ Unlink(p).op # "record"
  BY DEF StepFits, Unlink
<1>3. Fitting(Do(tree, Unlink(p)))
  BY <1>2, DoFits
<1> QED BY <1>1, <1>3

(* What a command makes of a tree that fits: it fits, and nothing is lost.  *)
LEMMA CommandFits ==
    ASSUME LifecycleInvariant, FittingInvariant, NEW p \in Procs, pending[p].busy, NEW steps,
           steps = Steps(pending[p].seen, pending[p].request),
           StillValid(pending[p].request, pending[p].seen, steps)
    PROVE  /\ Fitting(Run(tree, steps)) /\ Unlost(tree, Run(tree, steps))
           /\ \A n \in 1..(Len(steps) - 1) :
                 LET u == Run(tree, SubSeq(steps, 1, n)) IN Fitting(u) /\ Unlost(tree, u)
<1> DEFINE q == pending[p].request
           seen == pending[p].seen
<1>1. Good(tree) /\ Fitting(tree) /\ q \in Requests /\ Good(seen) /\ Accepted(seen, q) /\ Fitting(seen)
  BY DEF LifecycleInvariant, FittingInvariant
<1>2. Sound(tree, steps)
  BY <1>1, PlanSound
<1>3. PICK X : steps \in Seq(X) /\ StepsFit(X) /\ Careful(tree, steps)
  BY <1>2 DEF Sound
<1>4. Fitting(Run(tree, steps)) /\ Unlost(tree, Run(tree, steps))
  BY <1>1, <1>3, RunFits, CarefulRun DEF StepsFit
<1>5. ASSUME NEW n \in 1..(Len(steps) - 1)
      PROVE  Fitting(Run(tree, SubSeq(steps, 1, n))) /\ Unlost(tree, Run(tree, SubSeq(steps, 1, n)))
  <2>1. n \in 1..Len(steps) /\ SubSeq(steps, 1, n) \in Seq(X)
    BY <1>3
  <2>2. Unlost(tree, Run(tree, SubSeq(steps, 1, n)))
    BY <1>3, <2>1, CarefulPart
  <2> QED BY <1>1, <1>3, <2>1, <2>2, RunFits DEF StepsFit
<1> QED BY <1>4, <1>5

(* Each step keeps files and records fitting, and, unless a user takes it,  *)
(* loses nothing.                                                          *)
LEMMA NextFitting ==
    LifecycleInvariant /\ FittingInvariant /\ [Next]_vars =>
        FittingInvariant' /\ (edits' = edits => Unlost(tree, tree'))
<1> SUFFICES ASSUME LifecycleInvariant, FittingInvariant, [Next]_vars
             PROVE  FittingInvariant' /\ (edits' = edits => Unlost(tree, tree'))
  OBVIOUS
<1>1. DOMAIN pending = Procs /\ Shaped(tree) /\ Fitting(tree) /\ edits \in Nat
  BY DEF LifecycleInvariant, FittingInvariant, Good, Standing
<1>2. \A p \in Procs : pending[p].busy => Fitting(pending[p].seen)
  BY DEF FittingInvariant
<1>3. ASSUME tree' = tree PROVE Unlost(tree, tree')
  BY <1>3 DEF Unlost
<1>4. ASSUME NEW p \in Procs, Prepare(p) PROVE FittingInvariant' /\ Unlost(tree, tree')
  <2>1. PICK q : pending' = [pending EXCEPT ![p] = [busy |-> TRUE, request |-> q, seen |-> tree]]
    BY <1>4 DEF Prepare
  <2>2. tree' = tree /\ edits' = edits
    BY <1>4 DEF Prepare
  <2>3. ASSUME NEW r \in Procs, pending'[r].busy PROVE Fitting(pending'[r].seen)
    <3>1. CASE r = p
      <4>1. pending'[r].seen = tree
        BY <1>1, <2>1, <3>1
      <4> QED BY <1>1, <4>1
    <3>2. CASE r # p
      <4>1. pending'[r] = pending[r]
        BY <1>1, <2>1, <3>2
      <4> QED BY <1>2, <2>3, <4>1
    <3> QED BY <3>1, <3>2
  <2> QED BY <1>1, <1>3, <2>2, <2>3 DEF FittingInvariant
<1>5. ASSUME NEW p \in Procs, pending' = [pending EXCEPT ![p] = Idle], edits' = edits, Fitting(tree')
      PROVE  FittingInvariant'
  <2>1. ASSUME NEW r \in Procs, pending'[r].busy PROVE Fitting(pending'[r].seen)
    <3>1. CASE r = p
      <4>1. pending'[r] = Idle
        BY <1>1, <1>5, <3>1
      <4> QED BY <2>1, <4>1 DEF Idle
    <3>2. CASE r # p
      <4>1. pending'[r] = pending[r]
        BY <1>1, <1>5, <3>2
      <4> QED BY <1>2, <2>1, <4>1
    <3> QED BY <3>1, <3>2
  <2> QED BY <1>1, <1>5, <2>1 DEF FittingInvariant
<1>6. ASSUME NEW p \in Procs, Apply(p) PROVE FittingInvariant' /\ Unlost(tree, tree')
  <2> DEFINE q == pending[p].request
             seen == pending[p].seen
             steps == Steps(seen, q)
  <2>1. pending[p].busy /\ pending' = [pending EXCEPT ![p] = Idle] /\ edits' = edits
    BY <1>6 DEF Apply
  <2>2. CASE StillValid(q, seen, steps) /\ Applicable(tree, steps)
    <3>1. tree' = Run(tree, steps)
      BY <1>6, <2>2 DEF Apply
    <3>2. Fitting(tree') /\ Unlost(tree, tree')
      BY <2>1, <2>2, <3>1, CommandFits
    <3> QED BY <1>5, <2>1, <3>2
  <2>3. CASE ~(StillValid(q, seen, steps) /\ Applicable(tree, steps))
    <3>1. tree' = tree
      BY <1>6, <2>3 DEF Apply
    <3> QED BY <1>1, <1>3, <1>5, <2>1, <3>1
  <2> QED BY <2>2, <2>3
<1>7. ASSUME NEW p \in Procs, Kill(p) PROVE FittingInvariant' /\ Unlost(tree, tree')
  <2> DEFINE q == pending[p].request
             seen == pending[p].seen
             steps == Steps(seen, q)
  <2>1. /\ pending[p].busy /\ pending' = [pending EXCEPT ![p] = Idle] /\ edits' = edits
        /\ StillValid(q, seen, steps)
        /\ \E n \in 1..(Len(steps) - 1) : tree' = Run(tree, SubSeq(steps, 1, n))
    BY <1>7 DEF Kill
  <2>2. PICK n \in 1..(Len(steps) - 1) : tree' = Run(tree, SubSeq(steps, 1, n))
    BY <2>1
  <2>3. Fitting(tree') /\ Unlost(tree, tree')
    BY <2>1, <2>2, CommandFits
  <2> QED BY <1>5, <2>1, <2>3
<1>8. ASSUME edits' = edits + 1, pending' = pending, Fitting(tree') PROVE FittingInvariant' /\ edits' # edits
  BY <1>1, <1>2, <1>8 DEF FittingInvariant
<1>9. CASE WriteOwn
  <2>1. edits' = edits + 1 /\ pending' = pending
    BY <1>9 DEF WriteOwn, Edit
  <2> QED BY <1>1, <1>8, <1>9, <2>1, WriteOwnFits
<1>10. CASE EditBody
  <2>1. edits' = edits + 1 /\ pending' = pending
    BY <1>10 DEF EditBody, Edit
  <2> QED BY <1>1, <1>8, <1>10, <2>1, EditBodyFits
<1>11. CASE BreakMarkers
  <2>1. edits' = edits + 1 /\ pending' = pending
    BY <1>11 DEF BreakMarkers, Edit
  <2> QED BY <1>1, <1>8, <1>11, <2>1, BreakMarkersFits
<1>12. CASE Delete
  <2>1. edits' = edits + 1 /\ pending' = pending
    BY <1>12 DEF Delete
  <2> QED BY <1>1, <1>8, <1>12, <2>1, DeleteFits
<1>13. CASE UNCHANGED vars
  <2>1. tree' = tree /\ pending' = pending /\ edits' = edits
    BY <1>13 DEF vars
  <2> QED BY <1>1, <1>2, <1>3, <2>1 DEF FittingInvariant
<1> QED BY <1>4, <1>6, <1>7, <1>9, <1>10, <1>11, <1>12, <1>13 DEF Next

(* Files and records always fit: markers stand only where blocks go, and   *)
(* records vouch for what the registry and the releases put somewhere.     *)
THEOREM FilesFit == Spec => []FittingInvariant
<1>1. Init => FittingInvariant
  BY InitFitting
<1>2. LifecycleInvariant /\ FittingInvariant /\ [Next]_vars => FittingInvariant'
  BY NextFitting
<1>3. Spec => []LifecycleInvariant
  BY LifecycleHolds
<1> QED BY <1>1, <1>2, <1>3, PTL DEF Spec

(* No command, applied or killed, drops what users wrote or changed: it     *)
(* stays, or was copied before (force.go, backup.go).                      *)
THEOREM UsersLoseNothing == Spec => NoUserLoss
<1>1. LifecycleInvariant /\ FittingInvariant /\ [Next]_vars => [edits' = edits => Unlost(tree, tree')]_vars
  BY NextFitting
<1>2. Spec => []LifecycleInvariant /\ []FittingInvariant
  BY LifecycleHolds, FilesFit
<1> QED BY <1>1, <1>2, PTL DEF Spec, NoUserLoss
=============================================================================
