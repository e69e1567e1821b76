------------------------- MODULE LifecycleTreeProofs -------------------------
(***************************************************************************)
(* Proofs about what commands leave: an applied install or update leaves   *)
(* its targets clean, and so does a forced update; the tree hangs; a clean *)
(* installation can be updated and uninstalled; check sees what one        *)
(* process leaves, killed or not; and the last uninstall leaves nothing of *)
(* OAW's.  For any installations, targets, releases, requests, edits and   *)
(* number of processes, but for the check's one process.                   *)
(***************************************************************************)
EXTENDS LifecycleProofs

-----------------------------------------------------------------------------
(* What an install or update leaves.                                       *)

(* A path below one that begins with another path begins with it too.      *)
LEMMA PrefixBelow ==
    ASSUME NEW a \in Path, NEW b \in Path, NEW c \in Path, IsPrefix(a, b), Below(b, c)
    PROVE  IsPrefix(a, c)
<1>1. Len(a) <= Len(b) /\ SubSeq(a, 1, Len(a)) = SubSeq(b, 1, Len(a))
  BY DEF IsPrefix
<1>2. Len(b) <= Len(c) /\ SubSeq(b, 1, Len(b)) = SubSeq(c, 1, Len(b))
  BY DEF Below, IsStrictPrefix, IsPrefix
<1>3. a \in Seq(Name) /\ b \in Seq(Name) /\ c \in Seq(Name)
  BY DEF Path
<1>4. Len(a) <= Len(c)
  BY <1>1, <1>2, <1>3
<1>5. ASSUME NEW n \in 1..Len(a) PROVE a[n] = c[n]
  <2>1. SubSeq(a, 1, Len(a))[n] = a[n] /\ SubSeq(b, 1, Len(a))[n] = b[n]
    BY <1>1, <1>3
  <2>2. n \in 1..Len(b) /\ SubSeq(b, 1, Len(b))[n] = b[n] /\ SubSeq(c, 1, Len(b))[n] = c[n]
    BY <1>1, <1>2, <1>3
  <2> QED BY <1>1, <1>2, <2>1, <2>2
<1>6. SubSeq(a, 1, Len(a)) = SubSeq(c, 1, Len(a))
  BY <1>3, <1>4, <1>5
<1> QED BY <1>4, <1>6 DEF IsPrefix

(* Such a path has the same root.                                          *)
LEMMA PrefixRoot ==
    ASSUME NEW a \in Path, Len(a) >= 1, NEW b \in Path, IsPrefix(a, b)
    PROVE  b[1] = a[1]
<1>1. Len(a) <= Len(b) /\ SubSeq(a, 1, Len(a)) = SubSeq(b, 1, Len(a))
  BY DEF IsPrefix
<1>2. SubSeq(a, 1, Len(a))[1] = a[1] /\ SubSeq(b, 1, Len(a))[1] = b[1]
  BY <1>1 DEF Path
<1> QED BY <1>1, <1>2

(* What the tree of a Policy Set is.                                       *)
InPolicyTree(i, p) == IsPrefix(PolicyDir(i), p) /\ ~(i = "user" /\ p # CustomProfilesDir(i) /\ UserCustomProfilePath(p))
PolicyDirectories(i, P) == {PolicyDir(i)} \union {d \in UNION {Parents(f) : f \in P} : Below(PolicyDir(i), d)}

(* A Policy Set tree is valid when its root is there and everything in it  *)
(* is recorded.                                                            *)
LEMMA TreeValid ==
    ASSUME NEW i, NEW t, NEW P, P = DOMAIN t.record[i].policy
    PROVE  ValidatePolicySetTree(i, t) <=>
              /\ PolicyDir(i) \in t.dirs
              /\ \A d \in t.dirs : InPolicyTree(i, d) => d \in PolicyDirectories(i, P)
              /\ \A p \in DOMAIN t.files : InPolicyTree(i, p) => p \in P
<1> DEFINE Inside(S) == {p \in S : InPolicyTree(i, p)}
<1>1. ValidatePolicySetTree(i, t) <=>
         /\ PolicyDir(i) \in t.dirs
         /\ Inside(t.dirs) \subseteq PolicyDirectories(i, P)
         /\ Inside(DOMAIN t.files) \subseteq P
  BY DEF ValidatePolicySetTree, PolicyDirectories, InPolicyTree
<1> QED BY <1>1

(* A path with another below it is among the directories above that one.    *)
LEMMA BelowParents ==
    ASSUME NEW d \in Path, Len(d) >= 2, NEW p \in Path, Below(d, p)
    PROVE  d \in Parents(p)
<1>1. d \in Seq(Name) /\ p \in Seq(Name) /\ Len(d) >= 2 /\ Len(d) <= Len(p) /\ d # p
      /\ SubSeq(d, 1, Len(d)) = SubSeq(p, 1, Len(d))
  BY DEF Path, Below, IsStrictPrefix, IsPrefix
<1>2. d = SubSeq(p, 1, Len(d))
  <2>1. SubSeq(d, 1, Len(d)) = d
    BY <1>1
  <2> QED BY <1>1, <2>1
<1>3. Len(d) # Len(p)
  <2>1. SUFFICES ASSUME Len(d) = Len(p) PROVE FALSE
    OBVIOUS
  <2>2. SubSeq(p, 1, Len(p)) = p
    BY <1>1
  <2> QED BY <1>1, <1>2, <2>1, <2>2
<1>4. Len(d) \in 2..(Len(p) - 1)
  BY <1>1, <1>3
<1> QED BY <1>2, <1>4 DEF Parents

(* A release's Policy Set has POLICY.md.                                   *)
LEMMA ReleasePolicy ==
    ASSUME NEW i \in Installations, NEW v \in Versions
    PROVE  /\ PolicyPath(i) \in DOMAIN SourcePolicySet(i, v)
           /\ PolicyDir(i) \in Parents(PolicyPath(i))
<1>1. PolicyPath(i) \in DOMAIN SourcePolicySet(i, v)
  BY PolicySetAssumption DEF PolicyPath, SourcePolicySet
<1>2. Below(PolicyDir(i), PolicyPath(i)) /\ PolicyPath(i) \in Path
  BY PolicyPlaced DEF Placed
<1> QED BY <1>1, <1>2, PolicyDirOf, BelowParents

(* One that begins with others above a path is above it.                   *)
LEMMA PrefixOf ==
    ASSUME NEW a \in Path, NEW b \in Path, Len(a) < Len(b), \A n \in 1..Len(a) : b[n] = a[n]
    PROVE  Below(a, b)
<1>1. SubSeq(a, 1, Len(a)) = SubSeq(b, 1, Len(a))
  BY DEF Path
<1>2. a # b
  OBVIOUS
<1>3. Len(a) <= Len(b)
  BY DEF Path
<1> QED BY <1>1, <1>2, <1>3 DEF Below, IsStrictPrefix, IsPrefix

(* In user scope the release's profiles are below the directory of the      *)
(* user's own and one of its own there; these belong to the Policy Set.    *)
LEMMA ProfileDirectories ==
    ASSUME "user" \in Installations, NEW v \in Versions
    PROVE  {CustomProfilesDir("user"), CustomProfilesDir("user") \o <<"builtin">>}
               \subseteq PolicyDirectories("user", DOMAIN SourcePolicySet("user", v))
<1> DEFINE profiles == <<"config", "oaw", "profiles">>
           builtin == <<"config", "oaw", "profiles", "builtin">>
           dir == <<"config", "oaw">>
<1> "config" \in Name /\ "oaw" \in Name /\ "profiles" \in Name /\ "builtin" \in Name
  BY DEF Name
<1>1. /\ CustomProfilesDir("user") = profiles /\ CustomProfilesDir("user") \o <<"builtin">> = builtin
      /\ PolicyDir("user") = dir
  <2>1. CustomProfilesDir("user") = dir \o <<"profiles">> /\ PolicyDir("user") = dir
    BY DEF CustomProfilesDir, ConfigDir, PolicyDir
  <2>2. dir \o <<"profiles">> = profiles
    BY Joined2
  <2>3. profiles \o <<"builtin">> = builtin
    BY Joined3
  <2> HIDE DEF dir, profiles, builtin
  <2> QED BY <2>1, <2>2, <2>3
<1>2. dir \in Path /\ profiles \in Path /\ builtin \in Path
  BY DEF Path
<1>3. PICK f \in PolicySet[v] : f[1] = "profiles"
  BY PolicySetAssumption
<1>4. f \in Seq(Name) /\ f # <<>> /\ f # <<"profiles">>
  <2>1. PolicySet[v] \subseteq Seq(STRING) \ {<<>>, <<"profiles">>}
    BY PolicySetAssumption
  <2> QED BY <2>1 DEF Name
<1>5. Len(f) >= 2
  <2>1. Len(f) # 1
    <3>1. SUFFICES ASSUME Len(f) = 1 PROVE FALSE
      OBVIOUS
    <3>2. f = <<"profiles">>
      BY <1>3, <1>4, <3>1
    <3> QED BY <1>4, <3>2
  <2>2. Len(f) \in Nat /\ Len(f) # 0
    BY <1>4
  <2> DEFINE n == Len(f)
  <2>3. n \in Nat /\ n # 0 /\ n # 1
    BY <2>1, <2>2
  <2> HIDE DEF n
  <2>4. n >= 2
    BY <2>3
  <2> QED BY <2>4 DEF n
<1> DEFINE g == <<"profiles", "builtin">> \o Tail(f)
           p == dir \o g
<1>6. p = PolicySetDestination("user", f) /\ p \in DOMAIN SourcePolicySet("user", v)
  <2>1. p = PolicySetDestination("user", f)
    BY <1>1, <1>3 DEF PolicySetDestination
  <2> QED BY <2>1 DEF SourcePolicySet
<1>7. g \in Seq(Name) /\ Len(g) >= 3 /\ g[1] = "profiles" /\ g[2] = "builtin"
  <2>1. <<"profiles", "builtin">> \in Seq(Name) /\ Tail(f) \in Seq(Name) /\ Len(Tail(f)) >= 1
    BY <1>4, <1>5
  <2> QED BY <2>1
<1> HIDE DEF g
<1>8. p \in Path /\ Len(p) >= 5 /\ p[1] = "config" /\ p[2] = "oaw" /\ p[3] = "profiles" /\ p[4] = "builtin"
  <2>1. p \in Seq(Name) /\ Len(p) = 2 + Len(g) /\ p[1] = "config" /\ p[2] = "oaw" /\ p[2 + 1] = g[1] /\ p[2 + 2] = g[2]
    BY <1>2, <1>7 DEF Path
  <2> QED BY <1>7, <2>1 DEF Path
<1> HIDE DEF p
<1>9. Below(profiles, p) /\ Below(builtin, p) /\ Below(dir, profiles) /\ Below(dir, builtin)
  <2>1. /\ Len(dir) = 2 /\ dir[1] = "config" /\ dir[2] = "oaw"
        /\ Len(profiles) = 3 /\ profiles[1] = "config" /\ profiles[2] = "oaw" /\ profiles[3] = "profiles"
        /\ Len(builtin) = 4 /\ builtin[1] = "config" /\ builtin[2] = "oaw" /\ builtin[3] = "profiles" /\ builtin[4] = "builtin"
    OBVIOUS
  <2>2. 1..2 = {1, 2} /\ 1..3 = {1, 2, 3} /\ 1..4 = {1, 2, 3, 4}
    OBVIOUS
  <2> HIDE DEF dir, profiles, builtin
  <2>3. (\A n \in 1..Len(profiles) : p[n] = profiles[n]) /\ Len(profiles) < Len(p)
    BY <1>8, <2>1, <2>2 DEF Path
  <2>4. (\A n \in 1..Len(builtin) : p[n] = builtin[n]) /\ Len(builtin) < Len(p)
    BY <1>8, <2>1, <2>2 DEF Path
  <2>5. (\A n \in 1..Len(dir) : profiles[n] = dir[n]) /\ Len(dir) < Len(profiles)
    BY <2>1, <2>2
  <2>6. (\A n \in 1..Len(dir) : builtin[n] = dir[n]) /\ Len(dir) < Len(builtin)
    BY <2>1, <2>2
  <2>7. Below(profiles, p)
    BY <1>2, <1>8, <2>3, PrefixOf
  <2>8. Below(builtin, p)
    BY <1>2, <1>8, <2>4, PrefixOf
  <2>9. Below(dir, profiles)
    BY <1>2, <2>5, PrefixOf
  <2>10. Below(dir, builtin)
    BY <1>2, <2>6, PrefixOf
  <2> QED BY <2>7, <2>8, <2>9, <2>10
<1>10. Len(profiles) >= 2 /\ Len(builtin) >= 2
  OBVIOUS
<1> HIDE DEF dir, profiles, builtin
<1>11. profiles \in Parents(p) /\ builtin \in Parents(p)
  BY <1>2, <1>8, <1>9, <1>10, BelowParents
<1> QED BY <1>1, <1>6, <1>9, <1>11 DEF PolicyDirectories

(* The steps of a command that renews the targets S and the Policy Set of  *)
(* a release, removes the files D, and writes the record R that says so:   *)
(* all of them on what there is, the directories it planned to make, and   *)
(* copies at most.                                                         *)
Renewal(i, seen, S, R, D) ==
    Rendered(seen, S, R.version) \union PolicyWrites(i, R) \union {Unlink(p) : p \in D} \union {Record(i, R)}
Renewing(i, S, R, D) ==
    /\ R.version \in Versions /\ R.policy = SourcePolicySet(i, R.version)
    /\ \A x \in S : TargetFits(i, x) /\ x.checksum = R.version
    /\ \A p \in D : Placed(i, p) /\ p \in Path /\ p \notin DOMAIN R.policy
Copying(B) == \A y \in B : y.op = "backup"
Renews(steps, X, planned) ==
    /\ \E B : Copying(B) /\ steps \in Seq(X \union Made(planned \intersect Above(X)) \union B)
    /\ X \union Made(planned \intersect Above(X)) \subseteq ToSet(steps)

(* What such steps do to files: targets outside the Policy Set, files of   *)
(* the release in it, and those of it that go.                             *)
RenewedTarget(i, seen, S, R, y) ==
    ~IsPrefix(PolicyDir(i), y.path) /\ \E x \in S : y = Write(x.path, Render(seen, x, R.version))
RenewedFile(i, R, y) ==
    IsPrefix(PolicyDir(i), y.path) /\ y.path \in DOMAIN R.policy /\ y = Write(y.path, Written(R.version))
DroppedFile(i, R, D, y) ==
    IsPrefix(PolicyDir(i), y.path) /\ y.path \in D /\ y.path \notin DOMAIN R.policy /\ y.op = "remove"

(* What an update does to files is to renew, or drop, files of the Policy  *)
(* Set.                                                                    *)
LEMMA RenewalTouches ==
    ASSUME NEW i \in Installations, NEW seen, NEW S, NEW R, NEW D, Renewing(i, S, R, D),
           NEW planned, NEW B, Copying(B),
           NEW X, X = Renewal(i, seen, S, R, D),
           NEW y \in X \union Made(planned \intersect Above(X)) \union B
    PROVE  /\ y.op \in {"write", "remove", "mkdir", "record", "backup"}
           /\ y.op = "record" => y = Record(i, R)
           /\ y.op = "mkdir" => y.path \in planned \intersect Above(X)
           /\ Touches(y) => RenewedTarget(i, seen, S, R, y) \/ RenewedFile(i, R, y) \/ DroppedFile(i, R, D, y)
<1>1. DOMAIN R.policy \union {PolicyPath(i)} = DOMAIN R.policy
  BY ReleasePolicy DEF Renewing
<1>2. \A p \in DOMAIN R.policy : IsPrefix(PolicyDir(i), p)
  BY PolicyPlaced DEF Renewing, Placed, Below, IsStrictPrefix
<1>3. \A p \in D : IsPrefix(PolicyDir(i), p) /\ p \notin DOMAIN R.policy
  BY DEF Renewing, Placed, Below, IsStrictPrefix
<1>4. \A x \in S : ~IsPrefix(PolicyDir(i), x.path)
  BY DestinationApart DEF Renewing, TargetFits
<1>5. CASE y \in Rendered(seen, S, R.version)
  <2>1. PICK x \in S : y = Write(x.path, Render(seen, x, R.version))
    BY <1>5 DEF Rendered
  <2>2. y.op = "write" /\ y.path = x.path
    BY <2>1 DEF Write
  <2> QED BY <1>4, <2>1, <2>2 DEF RenewedTarget
<1>6. CASE y \in PolicyWrites(i, R)
  <2>1. PICK p \in DOMAIN R.policy : y = Write(p, Written(R.version))
    BY <1>1, <1>6 DEF PolicyWrites
  <2>2. y.op = "write" /\ y.path = p
    BY <2>1 DEF Write
  <2> QED BY <1>2, <2>1, <2>2 DEF RenewedFile
<1>7. CASE y \in {Unlink(p) : p \in D}
  <2>1. PICK p \in D : y = Unlink(p)
    BY <1>7
  <2>2. y.op = "remove" /\ y.path = p
    BY <2>1 DEF Unlink
  <2> QED BY <1>3, <2>1, <2>2 DEF DroppedFile
<1>8. CASE y = Record(i, R)
  <2>1. y.op = "record"
    BY <1>8 DEF Record
  <2> QED BY <1>8, <2>1 DEF Touches
<1>9. CASE y \in Made(planned \intersect Above(X))
  <2>1. PICK d \in planned \intersect Above(X) : y = Mkdir(d)
    BY <1>9 DEF Made
  <2>2. y.op = "mkdir" /\ y.path = d
    BY <2>1 DEF Mkdir
  <2> QED BY <2>1, <2>2 DEF Touches
<1>10. CASE y \in B
  <2>1. y.op = "backup"
    BY <1>10 DEF Copying
  <2> QED BY <2>1 DEF Touches
<1> QED BY <1>5, <1>6, <1>7, <1>8, <1>9, <1>10 DEF Renewal

(* The files such steps leave: what they wrote for the targets and for the  *)
(* release; none that had to go; and beside these only ones that were there.*)
LEMMA RenewalFiles ==
    ASSUME NEW i \in Installations, NEW seen, NEW S, NEW R, NEW D, Renewing(i, S, R, D), NEW planned,
           NEW steps, Renews(steps, Renewal(i, seen, S, R, D), planned), NEW t
    PROVE  LET u == Run(t, steps)
           IN /\ \A x \in S : ValidateLiveTargetRecord(u, x)
              /\ \A p \in DOMAIN R.policy : PolicyFileClean(u, R, p)
              /\ \A p \in D : p \notin DOMAIN u.files
              /\ \A p \in DOMAIN u.files : IsPrefix(PolicyDir(i), p) => p \in DOMAIN t.files \union DOMAIN R.policy
<1> DEFINE X == Renewal(i, seen, S, R, D)
           M == Made(planned \intersect Above(X))
           u == Run(t, steps)
<1>1. PICK B : Copying(B) /\ steps \in Seq(X \union M \union B)
  BY DEF Renews
<1>2. X \union M \subseteq ToSet(steps)
  BY DEF Renews
<1> DEFINE Y == X \union M \union B
<1>3. \A y \in Y : Touches(y) => RenewedTarget(i, seen, S, R, y) \/ RenewedFile(i, R, y) \/ DroppedFile(i, R, D, y)
  BY <1>1, RenewalTouches
<1>4. /\ \A x \in S : Write(x.path, Render(seen, x, R.version)) \in ToSet(steps)
      /\ \A p \in DOMAIN R.policy : Write(p, Written(R.version)) \in ToSet(steps)
      /\ \A p \in D : Unlink(p) \in ToSet(steps)
  <2>1. \A x \in S : Write(x.path, Render(seen, x, R.version)) \in X
    BY DEF Renewal, Rendered
  <2>2. \A p \in DOMAIN R.policy : Write(p, Written(R.version)) \in X
    BY DEF Renewal, PolicyWrites
  <2>3. \A p \in D : Unlink(p) \in X
    BY DEF Renewal
  <2> QED BY <1>2, <2>1, <2>2, <2>3
<1>5. steps \in Seq(Y)
  BY <1>1
<1> HIDE DEF Y, M, X, u
<1>6. \A p : /\ \A x \in ToSet(steps) : \A c :
                   x = Write(p, c) /\ (\A y \in Y : Touches(y) /\ y.path = p => y.op = "write" /\ y.to = c) =>
                       p \in DOMAIN u.files /\ u.files[p] = c
             /\ Unlink(p) \in ToSet(steps) /\ (\A y \in Y : Touches(y) /\ y.path = p => y.op = "remove") =>
                   p \notin DOMAIN u.files
             /\ p \in DOMAIN u.files => p \in DOMAIN t.files \/ \E y \in Y : y.op = "write" /\ y.path = p
  BY <1>5, RunLeaves DEF u
<1>7. \A p, c : Write(p, c).op = "write" /\ Write(p, c).path = p /\ Write(p, c).to = c
  BY DEF Write
<1>8. /\ \A x \in S : ~IsPrefix(PolicyDir(i), x.path) /\ TargetFits(i, x) /\ x.checksum = R.version
      /\ \A p \in DOMAIN R.policy \union D : IsPrefix(PolicyDir(i), p)
      /\ R.version \in Versions
  <2>1. \A x \in S : ~IsPrefix(PolicyDir(i), x.path)
    BY DestinationApart DEF Renewing, TargetFits
  <2>2. \A p \in DOMAIN R.policy : IsPrefix(PolicyDir(i), p)
    BY PolicyPlaced DEF Renewing, Placed, Below, IsStrictPrefix
  <2>3. \A p \in D : IsPrefix(PolicyDir(i), p)
    BY DEF Renewing, Placed, Below, IsStrictPrefix
  <2> QED BY <2>1, <2>2, <2>3 DEF Renewing
<1>9. ASSUME NEW x \in S PROVE ValidateLiveTargetRecord(u, x)
  <2> DEFINE c == Render(seen, x, R.version)
  <2>1. ASSUME NEW y \in S, y.path = x.path PROVE Render(seen, y, R.version) = c
    <3>1. y.mode = x.mode
      BY <1>8, <2>1, FittingMode
    <3> QED BY <2>1, <3>1 DEF Render
  <2>2. ASSUME NEW y \in Y, Touches(y), y.path = x.path PROVE y.op = "write" /\ y.to = c
    <3>1. RenewedTarget(i, seen, S, R, y)
      BY <1>3, <1>8, <2>2 DEF RenewedFile, DroppedFile
    <3>2. PICK z \in S : y = Write(z.path, Render(seen, z, R.version))
      BY <3>1 DEF RenewedTarget
    <3>3. z.path = x.path
      BY <1>7, <2>2, <3>2
    <3> QED BY <1>7, <2>1, <3>2, <3>3
  <2>3. Write(x.path, c) \in ToSet(steps)
    BY <1>4
  <2> HIDE DEF c
  <2>4. x.path \in DOMAIN u.files /\ u.files[x.path] = c
    BY <1>6, <2>2, <2>3
  <2>5. c.body = R.version /\ (x.mode = "managed-block" => c.marks = "whole")
    BY DEF c, Render, Written, RenderManagedFile
  <2> QED BY <1>8, <2>4, <2>5 DEF ValidateLiveTargetRecord, Present, ManagedInstallStatus
<1>10. ASSUME NEW p \in DOMAIN R.policy PROVE PolicyFileClean(u, R, p)
  <2>1. ASSUME NEW y \in Y, Touches(y), y.path = p PROVE y.op = "write" /\ y.to = Written(R.version)
    <3>1. RenewedFile(i, R, y)
      BY <1>3, <1>8, <2>1 DEF RenewedTarget, DroppedFile
    <3> QED BY <1>7, <3>1 DEF RenewedFile
  <2>2. Write(p, Written(R.version)) \in ToSet(steps)
    BY <1>4
  <2>3. p \in DOMAIN u.files /\ u.files[p] = Written(R.version)
    BY <1>6, <2>1, <2>2
  <2>4. R.policy[p] = R.version
    BY PolicyPlaced DEF Renewing
  <2> QED BY <2>3, <2>4 DEF PolicyFileClean, Present, Written
<1>11. ASSUME NEW p \in D PROVE p \notin DOMAIN u.files
  <2>1. p \notin DOMAIN R.policy
    BY DEF Renewing
  <2>2. ASSUME NEW y \in Y, Touches(y), y.path = p PROVE y.op = "remove"
    BY <1>3, <1>8, <2>1, <2>2 DEF RenewedTarget, RenewedFile, DroppedFile
  <2> QED BY <1>4, <1>6, <2>2
<1>12. ASSUME NEW p \in DOMAIN u.files, IsPrefix(PolicyDir(i), p) PROVE p \in DOMAIN t.files \union DOMAIN R.policy
  <2>1. CASE p \in DOMAIN t.files
    BY <2>1
  <2>2. CASE p \notin DOMAIN t.files
    <3>1. PICK y \in Y : y.op = "write" /\ y.path = p
      BY <1>6, <2>2, <1>12
    <3>2. Touches(y)
      BY <3>1 DEF Touches
    <3> QED BY <1>3, <1>12, <3>1, <3>2 DEF RenewedTarget, RenewedFile, DroppedFile
  <2> QED BY <2>1, <2>2
<1> QED BY <1>9, <1>10, <1>11, <1>12 DEF u

(* The directories they make and the targets they write lie in place.      *)
Sensible(i, S, D, planned) ==
    /\ D = {} \/ \A d \in planned : IsPrefix(PolicyDir(i), d) => d = PolicyDir(i)
    /\ \A x \in S : x.path \in Path

(* The directories they leave: those that were there and those they needed, *)
(* in the Policy Set only ones above its files.  And they leave the record. *)
LEMMA RenewalDirectories ==
    ASSUME NEW i \in Installations, NEW seen, NEW S, NEW R, NEW D, Renewing(i, S, R, D), NEW planned,
           Sensible(i, S, D, planned),
           NEW steps, Renews(steps, Renewal(i, seen, S, R, D), planned), NEW t
    PROVE  LET u == Run(t, steps)
           IN /\ t.dirs \union (planned \intersect Above(PolicyWrites(i, R))) \subseteq u.dirs
              /\ \A d \in u.dirs : IsPrefix(PolicyDir(i), d) =>
                    d \in t.dirs \union PolicyDirectories(i, DOMAIN R.policy)
              /\ i \in DOMAIN t.record => u.record[i] = R
<1> DEFINE X == Renewal(i, seen, S, R, D)
           M == Made(planned \intersect Above(X))
           u == Run(t, steps)
<1>1. PICK B : Copying(B) /\ steps \in Seq(X \union M \union B)
  BY DEF Renews
<1>2. X \union M \subseteq ToSet(steps)
  BY DEF Renews
<1> DEFINE Y == X \union M \union B
<1>3. \A y \in Y : /\ y.op \in {"write", "remove", "mkdir", "record", "backup"}
                   /\ y.op = "record" => y = Record(i, R)
                   /\ y.op = "mkdir" => y.path \in planned \intersect Above(X)
  BY <1>1, RenewalTouches
<1>4. Record(i, R) \in ToSet(steps) /\ \A d \in planned \intersect Above(X) : Mkdir(d) \in ToSet(steps)
  BY <1>2 DEF Renewal, Made
<1>5. steps \in Seq(Y) /\ Above(PolicyWrites(i, R)) \subseteq Above(X)
  BY <1>1 DEF Above, Renewal
<1> HIDE DEF Y, M, X, u
<1>6. \A y \in Y : y.op # "rmdir"
  BY <1>3
<1>7. /\ t.dirs \subseteq u.dirs
      /\ \A d : Mkdir(d) \in ToSet(steps) => d \in u.dirs
      /\ \A d \in u.dirs : d \in t.dirs \union {StateDir, BackupRoot} \/ \E y \in Y : y.op = "mkdir" /\ y.path = d
      /\ (\A x \in Y : x.op = "record" => x = Record(i, R)) /\ Record(i, R) \in ToSet(steps)
             /\ i \in DOMAIN t.record => u.record[i] = R
  BY <1>5, <1>6, RunKeeps DEF u
<1>8. i \in DOMAIN t.record => u.record[i] = R
  BY <1>3, <1>4, <1>7
<1>9. t.dirs \union (planned \intersect Above(PolicyWrites(i, R))) \subseteq u.dirs
  BY <1>4, <1>5, <1>7
<1>10. PolicyDir(i) \in Path /\ Len(PolicyDir(i)) >= 2 /\ PolicyDir(i)[1] # "state"
  BY PolicyDirOf, InstallationsAssumption DEF Scope
<1>11. ASSUME NEW d \in Path, d[1] = "state" PROVE ~IsPrefix(PolicyDir(i), d)
  BY <1>10, <1>11, PrefixRoot
<1>12. /\ BackupRoot \in Path /\ BackupRoot[1] = "state" /\ StateFile(i) \in Path /\ StateFile(i)[1] = "state"
       /\ StateDir \in Path /\ StateDir[1] = "state"
  <2>1. "state" \in Name /\ "oaw" \in Name /\ "backups" \in Name
    BY DEF Name
  <2>2. BackupRoot = <<"state", "oaw", "backups">>
    BY <2>1, Joined2 DEF BackupRoot, StateDir
  <2>3. BackupRoot \in Path /\ BackupRoot[1] = "state"
    BY <2>1, <2>2 DEF Path
  <2>4. StateFile(i) \in Path /\ StateDir \in Parents(StateFile(i)) /\ StateDir[1] = "state"
    BY NamespacesOf DEF Namespaces
  <2>5. StateDir \in Path
    BY <2>4, ParentsOf
  <2> QED BY <2>3, <2>4, <2>5, ParentsOf
<1>13. ASSUME NEW d \in planned \intersect Above(X), IsPrefix(PolicyDir(i), d)
       PROVE  d \in PolicyDirectories(i, DOMAIN R.policy)
  <2>1. PICK x \in X : d \in Parents(x.path)
    BY <1>13 DEF Above
  <2>2. CASE x \in Rendered(seen, S, R.version)
    <3>1. PICK y \in S : x = Write(y.path, Render(seen, y, R.version))
      BY <2>2 DEF Rendered
    <3>2. x.path = y.path /\ y.path \in Path
      BY <3>1 DEF Write, Sensible
    <3>3. d \in Path /\ Below(d, x.path)
      BY <2>1, <3>2, ParentsOf
    <3>4. ~IsPrefix(PolicyDir(i), y.path)
      BY DestinationApart DEF Renewing, TargetFits
    <3> QED BY <1>10, <1>13, <3>2, <3>3, <3>4, PrefixBelow
  <2>3. CASE x \in PolicyWrites(i, R)
    <3>1. DOMAIN R.policy \union {PolicyPath(i)} = DOMAIN R.policy
      BY ReleasePolicy DEF Renewing
    <3>2. PICK p \in DOMAIN R.policy : x = Write(p, Written(R.version))
      BY <2>3, <3>1 DEF PolicyWrites
    <3>3. x.path = p
      BY <3>2 DEF Write
    <3>4. d \in UNION {Parents(f) : f \in DOMAIN R.policy}
      BY <2>1, <3>3
    <3>5. d = PolicyDir(i) \/ Below(PolicyDir(i), d)
      BY <1>13 DEF Below, IsStrictPrefix
    <3> QED BY <3>4, <3>5 DEF PolicyDirectories
  <2>4. CASE x \in {Unlink(p) : p \in D}
    <3>1. d = PolicyDir(i)
      BY <1>13, <2>4 DEF Sensible
    <3> QED BY <3>1 DEF PolicyDirectories
  <2>5. CASE x = Record(i, R)
    <3>1. x.path = StateFile(i)
      BY <2>5 DEF Record
    <3>2. d \in Path /\ d[1] = "state"
      BY <1>12, <2>1, <3>1, ParentsOf
    <3> QED BY <1>11, <1>13, <3>2
  <2> QED BY <2>2, <2>3, <2>4, <2>5 DEF X, Renewal
<1>14. ASSUME NEW d \in u.dirs, IsPrefix(PolicyDir(i), d) PROVE d \in t.dirs \union PolicyDirectories(i, DOMAIN R.policy)
  BY <1>3, <1>7, <1>11, <1>12, <1>13, <1>14
<1> QED BY <1>8, <1>9, <1>14 DEF u

(* What must be so of a tree for such steps to leave the Policy Set in      *)
(* order: in it only what goes or is of the release.                       *)
Orderly(i, t, D, R, planned) ==
    /\ PolicyDir(i) \in t.dirs \union planned
    /\ \A d \in t.dirs : InPolicyTree(i, d) => d \in PolicyDirectories(i, DOMAIN R.policy)
    /\ \A p \in DOMAIN t.files : InPolicyTree(i, p) => p \in D \union DOMAIN R.policy
    /\ i \in DOMAIN t.record
Recordable(i, R) == ~R.legacy /\ ParseInstallationState(i, R) /\ ValidateOwnedDirectories(i, R)

(* Then check finds every target clean whose records were all renewed.     *)
LEMMA RenewedClean ==
    ASSUME NEW i \in Installations, NEW seen, NEW S, NEW R, NEW D, Renewing(i, S, R, D), NEW planned,
           Sensible(i, S, D, planned), Recordable(i, R),
           NEW steps, Renews(steps, Renewal(i, seen, S, R, D), planned), NEW t, Orderly(i, t, D, R, planned),
           NEW id, \E x \in R.targets : x.target = id, \A x \in R.targets : x.target = id => x \in S
    PROVE  TargetStatus(Run(t, steps), i, id) = "clean"
<1> DEFINE u == Run(t, steps)
<1>1. /\ \A x \in S : ValidateLiveTargetRecord(u, x)
      /\ \A p \in DOMAIN R.policy : PolicyFileClean(u, R, p)
      /\ \A p \in D : p \notin DOMAIN u.files
      /\ \A p \in DOMAIN u.files : IsPrefix(PolicyDir(i), p) => p \in DOMAIN t.files \union DOMAIN R.policy
  BY RenewalFiles
<1>2. /\ t.dirs \union (planned \intersect Above(PolicyWrites(i, R))) \subseteq u.dirs
      /\ \A d \in u.dirs : IsPrefix(PolicyDir(i), d) => d \in t.dirs \union PolicyDirectories(i, DOMAIN R.policy)
      /\ i \in DOMAIN t.record => u.record[i] = R
  BY RenewalDirectories
<1> HIDE DEF u
<1>3. u.record[i] = R
  BY <1>2 DEF Orderly
<1>4. PolicyDir(i) \in u.dirs
  <2>1. Write(PolicyPath(i), Written(R.version)) \in PolicyWrites(i, R)
    BY DEF PolicyWrites
  <2>2. PolicyDir(i) \in Parents(PolicyPath(i))
    BY ReleasePolicy DEF Renewing
  <2>3. Write(PolicyPath(i), Written(R.version)).path = PolicyPath(i)
    BY DEF Write
  <2>4. PolicyDir(i) \in Above(PolicyWrites(i, R))
    BY <2>1, <2>2, <2>3 DEF Above
  <2> QED BY <1>2, <2>4 DEF Orderly
<1>5. ASSUME NEW d \in u.dirs, InPolicyTree(i, d) PROVE d \in PolicyDirectories(i, DOMAIN R.policy)
  BY <1>2, <1>5 DEF InPolicyTree, Orderly
<1>6. ASSUME NEW p \in DOMAIN u.files, InPolicyTree(i, p) PROVE p \in DOMAIN R.policy
  BY <1>1, <1>6 DEF InPolicyTree, Orderly
<1>7. ValidatePolicySetTree(i, u)
  BY <1>3, <1>4, <1>5, <1>6, TreeValid
<1>8. ValidatePolicySetFiles(i, u)
  BY <1>1, <1>3, <1>7 DEF ValidatePolicySetFiles
<1>9. Installed(u, i)
  <2>1. NoRecord.version = 0
    BY DEF NoRecord
  <2> QED BY <1>3, <2>1, PolicySetAssumption DEF Renewing, Installed
<1> DEFINE mine == {x \in R.targets : x.target = id}
<1>10. mine # {} /\ ~\E x \in mine : ~ValidateLiveTargetRecord(u, x)
  BY <1>1
<1> HIDE DEF mine
<1> QED BY <1>3, <1>8, <1>9, <1>10 DEF TargetStatus, Recordable, u, mine

(* The records of a target whose artifacts a command renews are all new.   *)
LEMMA MineRenewed ==
    ASSUME NEW i \in Installations, NEW old, \A x \in old : TargetFits(i, x),
           NEW T, NEW id \in T, id \in Targets, NEW selected,
           \A e \in ArtifactsOf(T) : \E y \in selected : y.target = e.target /\ y.artifact = e.artifact
    PROVE  /\ \E x \in MergeRecords(old, selected) : x.target = id
           /\ \A x \in MergeRecords(old, selected) : x.target = id => x \in selected
<1> DEFINE kept == {x \in old : ~\E y \in selected : y.target = x.target /\ y.artifact = x.artifact}
           newer(x) == CHOOSE y \in selected : y.path = x.path
           sum(x) == IF \E y \in selected : y.path = x.path THEN newer(x).checksum ELSE x.checksum
<1>1. MergeRecords(old, selected) = selected \union {[x EXCEPT !.checksum = sum(x)] : x \in kept}
  BY DEF MergeRecords
<1> HIDE DEF sum
<1>2. ASSUME NEW e \in ToSet(Registry), e.target = id PROVE e \in ArtifactsOf(T)
  <2>1. PICK n \in DOMAIN Registry : e = Registry[n]
    BY DEF ToSet
  <2>2. n \in InPlay
    BY <1>2, <2>1 DEF InPlay
  <2>3. n \in {m \in InPlay : Registry[m].target \in T}
    BY <1>2, <2>1, <2>2
  <2> QED BY <2>1, <2>3 DEF ArtifactsOf
<1>3. ASSUME NEW x \in kept, x.target = id PROVE FALSE
  <2>1. PICK e \in RegistryEntry : x.target = e.target /\ x.artifact = e.artifact
    BY DEF TargetFits
  <2>2. e \in ArtifactsOf(T)
    BY <1>2, <1>3, <2>1 DEF RegistryEntry
  <2> QED BY <2>1, <2>2
<1>4. \E x \in selected : x.target = id
  <2>1. PICK n \in DOMAIN Registry : Registry[n].target = id
    BY TargetsAssumption
  <2>2. Registry[n] \in ArtifactsOf(T)
    BY <1>2, <2>1 DEF ToSet
  <2> QED BY <2>1, <2>2
<1>5. ASSUME NEW x \in kept PROVE [x EXCEPT !.checksum = sum(x)].target = x.target
  <2>1. DOMAIN x = {"target", "artifact", "path", "mode", "checksum", "origin"}
    BY DEF TargetFits
  <2> QED BY <2>1
<1> DEFINE kind(x) == [x EXCEPT !.checksum = sum(x)]
           M == MergeRecords(old, selected)
<1>6. M = selected \union {kind(x) : x \in kept}
  BY <1>1
<1>7. \A x \in kept : kind(x).target # id
  BY <1>3, <1>5
<1> HIDE DEF kept, kind, M
<1>8. (\E x \in M : x.target = id) /\ \A x \in M : x.target = id => x \in selected
  BY <1>4, <1>6, <1>7
<1> QED BY <1>8 DEF M

(* The records that an install or an update makes anew.                    *)
LEMMA SelectedRecords ==
    ASSUME NEW t, NEW q, q.owner \in Installations, q.version \in Versions
    PROVE  /\ \A x \in Selected(t, q) : TargetFits(q.owner, x) /\ x.checksum = q.version /\ x.path \in Path
           /\ \A e \in ArtifactsOf(Wanted(t, q)) :
                 \E y \in Selected(t, q) : y.target = e.target /\ y.artifact = e.artifact
<1> DEFINE new(e) == InstalledArtifact(t, q.owner, e, q.version)
<1>1. ASSUME NEW e \in ArtifactsOf(Wanted(t, q))
      PROVE  /\ TargetFits(q.owner, new(e)) /\ new(e).checksum = q.version /\ new(e).path \in Path
             /\ new(e).target = e.target /\ new(e).artifact = e.artifact
  <2>1. e \in RegistryEntry
    BY ArtifactsFinite
  <2>2. TargetFits(q.owner, new(e))
    BY <2>1, InstalledFits
  <2>3. new(e).path \in Path
    BY <2>1, ArtifactDestinationOf DEF InstalledArtifact
  <2>4. new(e).checksum = q.version /\ new(e).target = e.target /\ new(e).artifact = e.artifact
    BY DEF InstalledArtifact
  <2> HIDE DEF new
  <2> QED BY <2>2, <2>3, <2>4
<1>2. Selected(t, q) = {new(e) : e \in ArtifactsOf(Wanted(t, q))}
  BY DEF Selected
<1> HIDE DEF new
<1> QED BY <1>1, <1>2

(* Renewed targets fit the registry, and all wanted artifacts are          *)
(* renewed.                                                                *)
LEMMA RenewedRecords ==
    ASSUME NEW t, NEW q, q.owner \in Installations, q.version \in Versions,
           RecordFits(q.owner, t.record[q.owner])
    PROVE  /\ \A x \in Renewed(t, q) : TargetFits(q.owner, x) /\ x.checksum = q.version /\ x.path \in Path
           /\ \A e \in ArtifactsOf(Wanted(t, q)) :
                 \E y \in Renewed(t, q) : y.target = e.target /\ y.artifact = e.artifact
<1> DEFINE new(e) == UpdatedArtifact(t, q.owner, e, q.version)
           i == q.owner
<1>1. ASSUME NEW e \in ArtifactsOf(Wanted(t, q))
      PROVE  /\ TargetFits(q.owner, new(e)) /\ new(e).checksum = q.version /\ new(e).path \in Path
             /\ new(e).target = e.target /\ new(e).artifact = e.artifact
  <2>1. e \in RegistryEntry
    BY ArtifactsFinite
  <2>2. TargetFits(q.owner, new(e))
    BY <2>1, UpdatedFits
  <2>3. new(e).path \in Path
    BY <2>2, ArtifactDestinationOf DEF TargetFits
  <2>4. new(e).checksum = q.version /\ new(e).target = e.target /\ new(e).artifact = e.artifact
    <3> DEFINE old == RecordedArtifact(t.record[i], e)
               c == CHOOSE x \in old : TRUE
    <3>1. CASE old # {}
      <4>1. c \in old
        BY <3>1
      <4>2. c.target = e.target /\ c.artifact = e.artifact /\ TargetFits(i, c)
        BY <4>1 DEF RecordedArtifact, RecordFits
      <4>3. new(e) = [c EXCEPT !.checksum = q.version]
        BY <3>1 DEF UpdatedArtifact
      <4>4. DOMAIN c = {"target", "artifact", "path", "mode", "checksum", "origin"}
        BY <4>2 DEF TargetFits
      <4> HIDE DEF c, new
      <4> QED BY <4>2, <4>3, <4>4
    <3>2. CASE old = {}
      <4>1. new(e) = InstalledArtifact(t, i, e, q.version)
        BY <3>2 DEF UpdatedArtifact
      <4> QED BY <4>1 DEF InstalledArtifact
    <3> QED BY <3>1, <3>2
  <2> HIDE DEF new
  <2> QED BY <2>2, <2>3, <2>4
<1>2. Renewed(t, q) = {new(e) : e \in ArtifactsOf(Wanted(t, q))}
  BY DEF Renewed
<1> HIDE DEF new
<1> QED BY <1>1, <1>2

(* The directories an update may make in the Policy Set: only its own.     *)
LEMMA UpdatePlanned ==
    ASSUME NEW t, NEW q, q.owner \in Installations, q.version \in Versions,
           RecordFits(q.owner, t.record[q.owner]),
           NEW d \in UpdateRecord(t, q).dirs \ t.record[q.owner].dirs, IsPrefix(PolicyDir(q.owner), d)
    PROVE  d = PolicyDir(q.owner)
<1> DEFINE i == q.owner
           updated == Renewed(t, q)
<1>1. d \in MissingNamespaces(t, i) \union MissingParents(t, {x.path : x \in updated})
  BY DEF UpdateRecord, Renewed
<1>2. PolicyDir(i) \in Path /\ Len(PolicyDir(i)) >= 2 /\ PolicyDir(i)[1] # "state"
  BY PolicyDirOf, InstallationsAssumption DEF Scope
<1>3. CASE d \in MissingNamespaces(t, i)
  <2>1. d = PolicyDir(i) \/ d \in Namespaces(i)
    BY <1>3 DEF MissingNamespaces, Namespaces
  <2>2. d \in Namespaces(i) => d \in Path /\ d[1] = "state"
    BY NamespacesOf
  <2> QED BY <1>2, <2>1, <2>2, PrefixRoot
<1>4. CASE d \in MissingParents(t, {x.path : x \in updated})
  <2>1. PICK x \in updated : d \in Parents(x.path)
    BY <1>4 DEF MissingParents
  <2>2. x.path \in Path /\ TargetFits(i, x)
    BY RenewedRecords
  <2>3. ~IsPrefix(PolicyDir(i), x.path)
    BY <2>2, DestinationApart DEF TargetFits
  <2>4. d \in Path /\ Below(d, x.path)
    BY <2>1, <2>2, ParentsOf
  <2> QED BY <1>2, <2>2, <2>3, <2>4, PrefixBelow
<1> QED BY <1>1, <1>3, <1>4

(* A plan with at most a copy in front renews what the plan does.          *)
LEMMA BackupRenews ==
    ASSUME NEW t, NEW q, NEW X, NEW planned, NEW plan, Performs(plan, X, planned)
    PROVE  Renews(WithBackup(t, q, plan), X, planned)
<1> DEFINE b == Backup(Saved(t, {plan[n].path : n \in {m \in DOMAIN plan : Destroys(t, plan[m])}}))
           Y == X \union Made(planned \intersect Above(X))
           B == {b}
           steps == WithBackup(t, q, plan)
<1>1. steps = (IF BackupRequired(t, q) THEN <<b>> ELSE <<>>) \o plan
  BY DEF WithBackup
<1>2. Copying(B)
  BY DEF Copying, Backup
<1>3. plan \in Seq(Y) /\ Y \subseteq ToSet(plan)
  BY DEF Performs
<1> HIDE DEF b, Y, steps
<1>4. plan \in Seq(Y \union B) /\ <<b>> \in Seq(Y \union B)
  BY <1>3
<1>5. steps \in Seq(Y \union B) /\ Y \subseteq ToSet(steps)
  <2>1. CASE BackupRequired(t, q)
    <3>1. steps = <<b>> \o plan
      BY <1>1, <2>1
    <3>2. <<b>> \o plan \in Seq(Y \union B) /\ ToSet(<<b>> \o plan) = ToSet(<<b>>) \union ToSet(plan)
      <4> DEFINE a == <<b>>
                 Z == Y \union B
      <4>1. a \in Seq(Z) /\ plan \in Seq(Z)
        BY <1>4
      <4> HIDE DEF a, Z
      <4>2. a \o plan \in Seq(Z) /\ ToSet(a \o plan) = ToSet(a) \union ToSet(plan)
        BY <4>1, JoinedSet
      <4> QED BY <4>2 DEF a, Z
    <3> QED BY <1>3, <3>1, <3>2
  <2>2. CASE ~BackupRequired(t, q)
    <3>1. steps = plan
      BY <1>1, <1>4, <2>2
    <3> QED BY <1>3, <1>4, <3>1
  <2> QED BY <2>1, <2>2
<1>6. \E C : Copying(C) /\ steps \in Seq(Y \union C)
  BY <1>2, <1>5
<1> QED BY <1>5, <1>6 DEF Renews, steps, Y

(* An update leaves the targets it was asked for clean, if the Policy Set   *)
(* of the record that it updates is in order, and its directories are ones *)
(* of the release.                                                         *)
LEMMA UpdateCleans ==
    ASSUME NEW q, q.owner \in Installations, q.version \in Versions, q.targets \subseteq Targets,
           NEW seen, Good(seen), Fitting(seen),
           SerializeInstallState(q.owner, UpdateRecord(seen, q)),
           ValidateOwnedDirectories(q.owner, UpdateRecord(seen, q)),
           NEW t, q.owner \in DOMAIN t.record, t.record[q.owner] = seen.record[q.owner],
           ValidatePolicySetTree(q.owner, t),
           PolicyDirectories(q.owner, DOMAIN t.record[q.owner].policy)
               \subseteq PolicyDirectories(q.owner, DOMAIN SourcePolicySet(q.owner, q.version)),
           NEW id \in q.targets
    PROVE  TargetStatus(Run(t, UpdateSteps(seen, q)), q.owner, id) = "clean"
<1> DEFINE i == q.owner
           r == seen.record[i]
           R == UpdateRecord(seen, q)
           S == Renewed(seen, q)
           D == Obsolete(r, R)
           planned == R.dirs \ r.dirs
           steps == UpdateSteps(seen, q)
           X == Renewal(i, seen, S, R, D)
<1>1. Sized(r) /\ InScope(i, r) /\ RecordFits(i, r)
  BY DEF Good, Kept, Fitting
<1>2. Sized(R) /\ InScope(i, R) /\ ParseInstallationState(i, R) /\ ValidateOwnedDirectories(i, R)
  BY <1>1, UpdateRecordOf
<1>3. R.version = q.version /\ R.policy = SourcePolicySet(i, q.version) /\ ~R.legacy /\ R.targets = MergeRecords(r.targets, S)
  BY DEF UpdateRecord, Renewed
<1>4. /\ \A x \in S : TargetFits(i, x) /\ x.checksum = q.version /\ x.path \in Path
      /\ \A e \in ArtifactsOf(Wanted(seen, q)) : \E y \in S : y.target = e.target /\ y.artifact = e.artifact
  BY <1>1, RenewedRecords
<1>5. Renewing(i, S, R, D)
  <2>1. \A p \in D : Placed(i, p) /\ p \in Path /\ p \notin DOMAIN R.policy
    BY <1>1, FittingPolicy DEF Obsolete
  <2> HIDE DEF S, R, D
  <2> QED BY <1>3, <1>4, <2>1 DEF Renewing
<1>6. UpdatePart(seen, q) = X
  <2>1. UpdatePart(seen, q) = Rendered(seen, S, q.version) \union PolicyWrites(i, R) \union {Unlink(p) : p \in D} \union {Record(i, R)}
    BY DEF UpdatePart
  <2> QED BY <1>3, <2>1 DEF Renewal
<1>7. Renews(steps, X, planned)
  <2>1. PICK plan : Performs(plan, UpdatePart(seen, q), planned) /\ steps = WithBackup(seen, q, plan)
    BY <1>1, <1>2, UpdateStepsIn
  <2> HIDE DEF steps, X, planned
  <2>2. Performs(plan, X, planned)
    BY <1>6, <2>1
  <2> QED BY <2>1, <2>2, BackupRenews
<1>8. Sensible(i, S, D, planned)
  <2>1. \A d \in planned : IsPrefix(PolicyDir(i), d) => d = PolicyDir(i)
    BY <1>1, UpdatePlanned
  <2> HIDE DEF S, D, planned
  <2> QED BY <1>4, <2>1 DEF Sensible
<1>9. Orderly(i, t, D, R, planned)
  <2>1. /\ PolicyDir(i) \in t.dirs
        /\ \A d \in t.dirs : InPolicyTree(i, d) => d \in PolicyDirectories(i, DOMAIN r.policy)
        /\ \A p \in DOMAIN t.files : InPolicyTree(i, p) => p \in DOMAIN r.policy
    BY TreeValid
  <2>2. DOMAIN r.policy \subseteq D \union DOMAIN R.policy
    BY DEF Obsolete
  <2> HIDE DEF D, R, planned
  <2> QED BY <1>3, <2>1, <2>2 DEF Orderly
<1>10. id \in Wanted(seen, q) /\ id \in Targets
  BY DEF Wanted
<1> HIDE DEF S, R, D, planned, steps, X
<1>11. (\E x \in R.targets : x.target = id) /\ \A x \in R.targets : x.target = id => x \in S
  <2>1. \A x \in r.targets : TargetFits(i, x)
    BY <1>1 DEF RecordFits
  <2> QED BY <1>3, <1>4, <1>10, <2>1, MineRenewed
<1>12. Recordable(i, R)
  BY <1>2, <1>3 DEF Recordable
<1>13. TargetStatus(Run(t, steps), i, id) = "clean"
  BY <1>5, <1>7, <1>8, <1>9, <1>11, <1>12, RenewedClean DEF X
<1> QED BY <1>13 DEF steps

(* An accepted install finds the Policy Set directory in order, or missing,  *)
(* or without anything in it but the user's own profiles.                   *)
LEMMA InstallOrderly ==
    ASSUME NEW t, NEW q, q.owner \in Installations, q.version \in Versions, DOMAIN t.record = Installations,
           InstallAccepted(t, q)
    PROVE  Orderly(q.owner, t, {}, InstallRecord(t, q), InstallRecord(t, q).dirs \ t.dirs)
<1> DEFINE i == q.owner
           R == InstallRecord(t, q)
           planned == R.dirs \ t.dirs
<1>1. R.policy = SourcePolicySet(i, q.version)
  BY DEF InstallRecord
<1>2. PolicyDir(i) \in t.dirs \union planned
  <2>1. PolicyDir(i) \in t.dirs \/ PolicyDir(i) \in MissingNamespaces(t, i)
    BY DEF MissingNamespaces
  <2>2. MissingNamespaces(t, i) \subseteq R.dirs
    BY DEF InstallRecord
  <2> QED BY <2>1, <2>2
<1> HIDE DEF R, planned
<1>3. CASE Installed(t, i)
  <2>1. ValidateClean(i, t) /\ t.record[i].policy = R.policy
    BY <1>1, <1>3 DEF InstallAccepted
  <2>2. ValidatePolicySetTree(i, t)
    BY <2>1 DEF ValidateClean, ValidatePolicySetFiles
  <2>3. /\ \A d \in t.dirs : InPolicyTree(i, d) => d \in PolicyDirectories(i, DOMAIN R.policy)
        /\ \A p \in DOMAIN t.files : InPolicyTree(i, p) => p \in DOMAIN R.policy
    BY <2>1, <2>2, TreeValid
  <2>4. Orderly(i, t, {}, R, planned)
    BY <1>2, <2>3 DEF Orderly
  <2> QED BY <2>4 DEF R, planned
<1>4. CASE ~Installed(t, i)
  <2>1. RequireUnclaimedPolicySetDirectory(t, i)
    BY <1>4 DEF InstallAccepted
  <2>2. ASSUME NEW p \in DOMAIN t.files, InPolicyTree(i, p) PROVE FALSE
    BY <2>1, <2>2 DEF InPolicyTree, RequireUnclaimedPolicySetDirectory
  <2>3. ASSUME NEW d \in t.dirs, InPolicyTree(i, d) PROVE d \in PolicyDirectories(i, DOMAIN R.policy)
    <3>1. CASE d = PolicyDir(i)
      BY <3>1 DEF PolicyDirectories
    <3>2. CASE d # PolicyDir(i)
      <4>1. Below(PolicyDir(i), d)
        BY <2>3, <3>2 DEF InPolicyTree, Below, IsStrictPrefix
      <4>2. i = "user" /\ (UserCustomProfilePath(d) \/ d = CustomProfilesDir(i) \o <<"builtin">>)
        BY <2>1, <4>1 DEF RequireUnclaimedPolicySetDirectory
      <4>3. d \in {CustomProfilesDir("user"), CustomProfilesDir("user") \o <<"builtin">>}
        BY <2>3, <4>2 DEF InPolicyTree
      <4>4. {CustomProfilesDir("user"), CustomProfilesDir("user") \o <<"builtin">>}
               \subseteq PolicyDirectories("user", DOMAIN SourcePolicySet("user", q.version))
        BY <4>2, ProfileDirectories
      <4> QED BY <1>1, <4>2, <4>3, <4>4
    <3> QED BY <3>1, <3>2
  <2>4. Orderly(i, t, {}, R, planned)
    BY <1>2, <2>2, <2>3 DEF Orderly
  <2> QED BY <2>4 DEF R, planned
<1> QED BY <1>3, <1>4

(* An accepted install leaves the targets it was asked for clean.          *)
LEMMA InstallCleans ==
    ASSUME NEW q, q.owner \in Installations, q.version \in Versions, q.targets \subseteq Targets,
           NEW t, Good(t), Fitting(t), InstallAccepted(t, q), NEW id \in q.targets
    PROVE  TargetStatus(Run(t, InstallSteps(t, q)), q.owner, id) = "clean"
<1> DEFINE i == q.owner
           r == t.record[i]
           R == InstallRecord(t, q)
           S == Selected(t, q)
           D == {}
           planned == R.dirs \ t.dirs
           steps == InstallSteps(t, q)
           X == Renewal(i, t, S, R, D)
<1>1. Sized(r) /\ InScope(i, r) /\ RecordFits(i, r)
  BY DEF Good, Kept, Fitting
<1>2. Sized(R) /\ InScope(i, R) /\ ParseInstallationState(i, R) /\ ValidateOwnedDirectories(i, R)
  <2>1. SerializeInstallState(i, R) /\ ValidateOwnedDirectories(i, R)
    BY DEF InstallAccepted
  <2> QED BY <1>1, <2>1, InstallRecordOf
<1>3. R.version = q.version /\ R.policy = SourcePolicySet(i, q.version) /\ ~R.legacy /\ R.targets = MergeRecords(r.targets, S)
  BY DEF InstallRecord, Selected
<1>4. /\ \A x \in S : TargetFits(i, x) /\ x.checksum = q.version /\ x.path \in Path
      /\ \A e \in ArtifactsOf(Wanted(t, q)) : \E y \in S : y.target = e.target /\ y.artifact = e.artifact
  BY SelectedRecords
<1>5. Renewing(i, S, R, D)
  <2> HIDE DEF S, R
  <2> QED BY <1>3, <1>4 DEF Renewing
<1>6. InstallPart(t, q) = X
  <2>1. InstallPart(t, q) = Rendered(t, S, q.version) \union PolicyWrites(i, R) \union {Unlink(p) : p \in D} \union {Record(i, R)}
    BY DEF InstallPart
  <2> QED BY <1>3, <2>1 DEF Renewal
<1>7. Renews(steps, X, planned)
  <2>1. Performs(steps, InstallPart(t, q), planned)
    BY <1>1, <1>2, InstallStepsIn
  <2> HIDE DEF steps, X, planned
  <2>2. steps \in Seq(X \union Made(planned \intersect Above(X)) \union {}) /\ Copying({})
    BY <1>6, <2>1 DEF Performs, Copying
  <2>3. X \union Made(planned \intersect Above(X)) \subseteq ToSet(steps)
    BY <1>6, <2>1 DEF Performs
  <2>4. \E B : Copying(B) /\ steps \in Seq(X \union Made(planned \intersect Above(X)) \union B)
    BY <2>2
  <2> QED BY <2>3, <2>4 DEF Renews
<1>8. Sensible(i, S, D, planned)
  <2> HIDE DEF S, planned
  <2> QED BY <1>4 DEF Sensible
<1>9. Orderly(i, t, D, R, planned)
  BY InstallOrderly DEF Good
<1>10. id \in Wanted(t, q) /\ id \in Targets
  BY DEF Wanted
<1> HIDE DEF S, R, D, planned, steps, X
<1>11. (\E x \in R.targets : x.target = id) /\ \A x \in R.targets : x.target = id => x \in S
  <2>1. \A x \in r.targets : TargetFits(i, x)
    BY <1>1 DEF RecordFits
  <2> QED BY <1>3, <1>4, <1>10, <2>1, MineRenewed
<1>12. Recordable(i, R)
  BY <1>2, <1>3 DEF Recordable
<1>13. TargetStatus(Run(t, steps), i, id) = "clean"
  BY <1>5, <1>7, <1>8, <1>9, <1>11, <1>12, RenewedClean DEF X
<1> QED BY <1>13 DEF steps

(* The files of all releases lie in the same directories, as the patterns   *)
(* that embed them and the files that a Policy Set must have say           *)
(* (policy_set.go: canonicalPolicySetFS, ValidatePolicySet).               *)
SameDirectories ==
    \A i \in Installations : \A v, w \in Versions :
        PolicyDirectories(i, DOMAIN SourcePolicySet(i, v)) = PolicyDirectories(i, DOMAIN SourcePolicySet(i, w))

(* What an application leaves of the targets that were asked for.          *)
LEMMA AppliedCleans ==
    ASSUME SameDirectories, LifecycleInvariant, FittingInvariant, NEW p \in Procs, Apply(p),
           last'.kind = "install" \/ (last'.kind = "update" /\ ValidatePolicySetTree(last'.owner, tree)),
           NEW id \in last'.targets
    PROVE  TargetStatus(tree', last'.owner, id) = "clean"
<1> DEFINE q == pending[p].request
           seen == pending[p].seen
           steps == Steps(seen, q)
           i == q.owner
<1>1. pending[p].busy
  BY DEF Apply
<1>2. Good(tree) /\ Fitting(tree) /\ q \in Requests /\ Good(seen) /\ Accepted(seen, q) /\ Fitting(seen)
  BY <1>1 DEF LifecycleInvariant, FittingInvariant
<1>3. i \in Installations /\ q.version \in Versions /\ q.targets \subseteq Targets
  BY <1>2, RequestsAssumption
<1>4. NoCommand.kind = "none"
  BY DEF NoCommand
<1>5. /\ StillValid(q, seen, steps) /\ ~Manual(seen, q)
      /\ tree' = Run(tree, steps) /\ last' = q
  BY <1>4 DEF Apply
<1>6. CASE q.kind = "install"
  <2>1. InstallAccepted(tree, q) /\ steps = InstallSteps(tree, q)
    BY <1>5, <1>6 DEF StillValid, PreparedAgain
  <2> HIDE DEF steps
  <2> QED BY <1>2, <1>3, <1>5, <2>1, InstallCleans
<1>7. CASE q.kind = "update" /\ ValidatePolicySetTree(i, tree)
  <2>1. UpdateAccepted(seen, q) /\ steps = UpdateSteps(seen, q)
    BY <1>2, <1>5, <1>7 DEF Accepted, Steps
  <2>2. Installed(seen, i) /\ ForceVerdict(seen, q) # "manual"
    BY <1>5, <1>7, <2>1 DEF UpdateAccepted, Manual
  <2>3. SerializeInstallState(i, UpdateRecord(seen, q)) /\ ValidateOwnedDirectories(i, UpdateRecord(seen, q))
    BY <2>1, <2>2 DEF UpdateAccepted
  <2>4. Sized(seen.record[i]) /\ InScope(i, seen.record[i])
    BY <1>2, <1>3 DEF Good, Kept
  <2>5. Sized(UpdateRecord(seen, q)) /\ InScope(i, UpdateRecord(seen, q))
    BY <1>3, <2>3, <2>4, UpdateRecordOf
  <2>6. RecordsOnly(steps, Record(i, UpdateRecord(seen, q)))
    BY <1>3, <2>1, <2>4, <2>5, UpdatePlan
  <2>7. tree.record[i] = seen.record[i]
    BY <1>5, <2>6, RecordSeen
  <2>8. i \in DOMAIN tree.record
    BY <1>2, <1>3 DEF Good
  <2>9. PolicyDirectories(i, DOMAIN tree.record[i].policy) = PolicyDirectories(i, DOMAIN SourcePolicySet(i, q.version))
    <3>1. RecordFits(i, seen.record[i]) /\ seen.record[i] # NoRecord
      BY <1>2, <1>3, <2>2 DEF Fitting, Installed
    <3>2. seen.record[i].version \in Versions /\ seen.record[i].policy = SourcePolicySet(i, seen.record[i].version)
      BY <3>1 DEF RecordFits
    <3> QED BY <1>3, <2>7, <3>2 DEF SameDirectories
  <2>10. id \in q.targets
    BY <1>5
  <2> HIDE DEF steps, q, seen
  <2>11. TargetStatus(Run(tree, UpdateSteps(seen, q)), i, id) = "clean"
    BY <1>2, <1>3, <1>7, <2>3, <2>7, <2>8, <2>9, <2>10, UpdateCleans
  <2> QED BY <1>5, <2>1, <2>11
<1> QED BY <1>5, <1>6, <1>7

(* An install or update that is applied leaves the targets it was asked for *)
(* clean for check (install_prepare.go, update.go, health.go), where all    *)
(* releases have the same directories: a directory that a release no longer *)
(* has would stay.                                                         *)
THEOREM AppliedIsClean == SameDirectories => (Spec => AppliedMeansClean)
<1> SUFFICES ASSUME SameDirectories PROVE Spec => AppliedMeansClean
  OBVIOUS
<1> DEFINE Clean == last'.kind = "install" \/ (last'.kind = "update" /\ ValidatePolicySetTree(last'.owner, tree)) =>
                        \A id \in last'.targets : TargetStatus(tree', last'.owner, id) = "clean"
<1>1. LifecycleInvariant /\ FittingInvariant /\ [Next]_vars => [Clean]_vars
  <2> SUFFICES ASSUME LifecycleInvariant, FittingInvariant, Next PROVE Clean
    OBVIOUS
  <2>1. CASE \E p \in Procs : Apply(p)
    BY <2>1, AppliedCleans
  <2>2. CASE ~\E p \in Procs : Apply(p)
    <3>1. last' = NoCommand
      BY <2>2 DEF Next, Prepare, Kill, WriteOwn, EditBody, BreakMarkers, Delete, Edit
    <3> QED BY <3>1 DEF NoCommand
  <2> QED BY <2>1, <2>2
<1>2. Spec => []LifecycleInvariant /\ []FittingInvariant
  BY LifecycleHolds, FilesFit
<1> QED BY <1>1, <1>2, PTL DEF Spec, AppliedMeansClean

(* An update to the release of the record itself, of all its targets: the   *)
(* same records, with the checksum of the release.                         *)
WholeUpdate(t, i, q) ==
    /\ i \in Installations /\ q.owner = i /\ q.version = t.record[i].version /\ q.version \in Versions
    /\ q.targets = {x.target : x \in t.record[i].targets} /\ ~t.record[i].legacy /\ Installed(t, i)
    /\ ValidateTargetRecords(i, t.record[i]) /\ RecordFits(i, t.record[i])
Refreshed(x, v) == [x EXCEPT !.checksum = v]

(* Refreshing changes the checksum alone.                                  *)
LEMMA RefreshedRecord ==
    ASSUME NEW i, NEW x, TargetFits(i, x), NEW v
    PROVE  LET y == Refreshed(x, v)
           IN /\ y.target = x.target /\ y.artifact = x.artifact /\ y.path = x.path
              /\ y.mode = x.mode /\ y.origin = x.origin /\ y.checksum = v
<1>1. DOMAIN x = {"target", "artifact", "path", "mode", "checksum", "origin"}
  BY DEF TargetFits
<1> QED BY <1>1 DEF Refreshed

(* The targets on record are those of the wanted artifacts.                *)
LEMMA WholeUpdateArtifacts ==
    ASSUME NEW t, NEW i, NEW q, WholeUpdate(t, i, q)
    PROVE  /\ Wanted(t, q) = q.targets /\ q.targets \subseteq Targets
           /\ \A x \in t.record[i].targets : \E e \in ArtifactsOf(q.targets) :
                 x.target = e.target /\ x.artifact = e.artifact
           /\ \A e \in ArtifactsOf(q.targets) : \E x \in t.record[i].targets :
                 /\ x.target = e.target /\ x.artifact = e.artifact
                 /\ RecordedArtifact(t.record[i], e) = {x} /\ UpdatedArtifact(t, i, e, q.version) = Refreshed(x, q.version)
<1> DEFINE r == t.record[i]
<1>1. Wanted(t, q) = q.targets
  BY DEF Wanted, WholeUpdate
<1>2. q.targets \subseteq Targets
  BY DEF WholeUpdate, ValidateTargetRecords, Supported
<1>3. ASSUME NEW x \in r.targets
      PROVE  \E e \in ArtifactsOf(q.targets) : x.target = e.target /\ x.artifact = e.artifact
  <2>1. PICK e \in RegistryEntry : x.target = e.target /\ x.artifact = e.artifact
    BY DEF WholeUpdate, RecordFits, TargetFits
  <2>2. PICK n \in DOMAIN Registry : e = Registry[n]
    BY DEF RegistryEntry, ToSet
  <2>3. x.target \in q.targets /\ x.target \in Targets
    BY <1>2 DEF WholeUpdate
  <2>4. n \in InPlay
    BY <2>1, <2>2, <2>3 DEF InPlay
  <2>5. n \in {m \in InPlay : Registry[m].target \in q.targets}
    BY <2>1, <2>2, <2>3, <2>4
  <2>6. e \in ArtifactsOf(q.targets)
    BY <2>2, <2>5 DEF ArtifactsOf
  <2> QED BY <2>1, <2>6
<1>4. ASSUME NEW e \in ArtifactsOf(q.targets)
      PROVE  \E x \in r.targets :
                /\ x.target = e.target /\ x.artifact = e.artifact
                /\ RecordedArtifact(r, e) = {x} /\ UpdatedArtifact(t, i, e, q.version) = Refreshed(x, q.version)
  <2>1. PICK n \in InPlay : e = Registry[n] /\ e.target \in q.targets
    BY DEF ArtifactsOf
  <2>2. \E x \in r.targets : x.target = e.target
    BY <2>1 DEF WholeUpdate
  <2>3. RecordedArtifact(r, e) # {}
    BY <2>1, <2>2 DEF WholeUpdate, ValidateTargetRecords
  <2>4. PICK x \in RecordedArtifact(r, e) : TRUE
    BY <2>3
  <2>5. x \in r.targets /\ x.target = e.target /\ x.artifact = e.artifact
    BY <2>4 DEF RecordedArtifact
  <2>6. RecordedArtifact(r, x) = {x}
    BY <2>5 DEF WholeUpdate, ValidateTargetRecords
  <2>7. RecordedArtifact(r, e) = {x}
    BY <2>5, <2>6 DEF RecordedArtifact
  <2>8. UpdatedArtifact(t, i, e, q.version) = Refreshed(x, q.version)
    <3> DEFINE old == RecordedArtifact(t.record[i], e)
               c == CHOOSE y \in old : TRUE
    <3>1. old = {x}
      BY <2>7
    <3>2. UpdatedArtifact(t, i, e, q.version) = [c EXCEPT !.checksum = q.version]
      BY <3>1 DEF UpdatedArtifact
    <3> HIDE DEF old
    <3>3. c = x
      BY <3>1
    <3> QED BY <3>2, <3>3 DEF Refreshed
  <2> QED BY <2>5, <2>7, <2>8
<1> QED BY <1>1, <1>2, <1>3, <1>4

(* Updating to the recorded release refreshes the targets on record.       *)
LEMMA WholeUpdateTargets ==
    ASSUME NEW t, NEW i, NEW q, WholeUpdate(t, i, q)
    PROVE  UpdateRecord(t, q).targets = {Refreshed(x, q.version) : x \in t.record[i].targets}
<1> DEFINE r == t.record[i]
           v == q.version
           updated == {UpdatedArtifact(t, i, e, v) : e \in ArtifactsOf(q.targets)}
           all == {Refreshed(x, v) : x \in r.targets}
           kept == {x \in r.targets : ~\E y \in updated : y.target = x.target /\ y.artifact = x.artifact}
           newer(x) == IF \E y \in updated : y.path = x.path THEN (CHOOSE y \in updated : y.path = x.path).checksum ELSE x.checksum
<1>1. UpdateRecord(t, q).targets = MergeRecords(r.targets, updated)
  <2>1. Wanted(t, q) = q.targets /\ q.owner = i
    BY DEF Wanted, WholeUpdate
  <2>2. UpdateRecord(t, q).targets =
            MergeRecords(t.record[q.owner].targets, {UpdatedArtifact(t, q.owner, e, q.version) : e \in ArtifactsOf(Wanted(t, q))})
    BY DEF UpdateRecord
  <2> QED BY <2>1, <2>2
<1>2. MergeRecords(r.targets, updated) = updated \union {[x EXCEPT !.checksum = newer(x)] : x \in kept}
  BY DEF MergeRecords
<1> HIDE DEF newer
<1>3. /\ \A x \in r.targets : TargetFits(i, x)
      /\ \A x \in r.targets : \A y \in RecordedArtifact(r, x) : y = x
  BY DEF WholeUpdate, RecordFits, ValidateTargetRecords
<1>4. ASSUME NEW x \in r.targets PROVE Refreshed(x, v) \in updated
  <2>1. PICK e \in ArtifactsOf(q.targets) : x.target = e.target /\ x.artifact = e.artifact
    BY WholeUpdateArtifacts
  <2>2. PICK z \in r.targets : z.target = e.target /\ z.artifact = e.artifact /\ UpdatedArtifact(t, i, e, v) = Refreshed(z, v)
    BY WholeUpdateArtifacts
  <2>3. z = x
    BY <1>3, <2>1, <2>2 DEF RecordedArtifact
  <2> QED BY <2>2, <2>3
<1>5. updated \subseteq all
  BY WholeUpdateArtifacts
<1>6. all \subseteq updated
  BY <1>4
<1>7. ASSUME NEW x \in kept PROVE FALSE
  <2>1. Refreshed(x, v).target = x.target /\ Refreshed(x, v).artifact = x.artifact
    BY <1>3, RefreshedRecord
  <2> QED BY <1>4, <2>1
<1> HIDE DEF updated, all, kept
<1>8. kept = {}
  BY <1>7
<1>9. {[x EXCEPT !.checksum = newer(x)] : x \in kept} = {}
  BY <1>8
<1> QED BY <1>1, <1>2, <1>5, <1>6, <1>9 DEF all

(* Such an update is accepted, as far as the record goes.                  *)
LEMMA WholeUpdateRecord ==
    ASSUME NEW t, NEW i, NEW q, WholeUpdate(t, i, q),
           ParseInstallationState(i, t.record[i]), ValidateOwnedDirectories(i, t.record[i])
    PROVE  /\ SerializeInstallState(i, UpdateRecord(t, q)) /\ ValidateOwnedDirectories(i, UpdateRecord(t, q))
           /\ \A e \in ArtifactsOf(Wanted(t, q)) : MayUpdate(t, i, e)
           /\ \A id \in Wanted(t, q) : \E x \in t.record[i].targets : x.target = id
<1> DEFINE r == t.record[i]
           v == q.version
           R == UpdateRecord(t, q)
           f(x) == Refreshed(x, v)
<1>1. R.targets = {f(x) : x \in r.targets}
  BY WholeUpdateTargets
<1>2. /\ R.version = v /\ ~R.legacy /\ R.policy = SourcePolicySet(i, v) /\ R.dirs = r.dirs
  BY DEF UpdateRecord, WholeUpdate
<1>3. Wanted(t, q) = q.targets /\ v \in Versions /\ i \in Installations
  BY DEF Wanted, WholeUpdate
<1>4. \A x \in r.targets : /\ f(x).target = x.target /\ f(x).artifact = x.artifact /\ f(x).path = x.path
                           /\ f(x).mode = x.mode /\ f(x).origin = x.origin /\ f(x).checksum = v
  BY RefreshedRecord DEF WholeUpdate, RecordFits
<1>5. /\ \A x \in r.targets : /\ x.target \in Supported(i)
                              /\ x.mode = "owned-file" => x.origin = "created-file"
                              /\ RecordedArtifact(r, x) = {x}
                              /\ \A y \in At(r, x.path) : x.mode = y.mode /\ x.origin = y.origin
      /\ \A n \in InPlay : (\E x \in r.targets : x.target = Registry[n].target) => RecordedArtifact(r, Registry[n]) # {}
      /\ r.targets # {}
  BY DEF WholeUpdate, ValidateTargetRecords, ParseInstallationState
<1> HIDE DEF R, f
<1>6. ASSUME NEW x \in R.targets
      PROVE  /\ x.target \in Supported(i)
             /\ x.mode = "owned-file" => x.origin = "created-file"
             /\ RecordedArtifact(R, x) = {x}
             /\ \A y \in At(R, x.path) : x.mode = y.mode /\ x.origin = y.origin /\ x.checksum = y.checksum
  <2>1. PICK a \in r.targets : x = f(a)
    BY <1>1
  <2>2. ASSUME NEW y \in R.targets, y.target = x.target, y.artifact = x.artifact PROVE y = x
    <3>1. PICK b \in r.targets : y = f(b)
      BY <1>1
    <3>2. b \in RecordedArtifact(r, a)
      BY <1>4, <2>1, <2>2, <3>1 DEF RecordedArtifact
    <3> QED BY <1>5, <2>1, <3>1, <3>2
  <2>3. RecordedArtifact(R, x) = {x}
    BY <2>2 DEF RecordedArtifact
  <2>4. ASSUME NEW y \in At(R, x.path) PROVE x.mode = y.mode /\ x.origin = y.origin /\ x.checksum = y.checksum
    <3>1. PICK b \in r.targets : y = f(b)
      BY <1>1 DEF At
    <3>2. b \in At(r, a.path)
      BY <1>4, <2>1, <3>1 DEF At
    <3>3. a.mode = b.mode /\ a.origin = b.origin
      BY <1>5, <3>2
    <3> QED BY <1>4, <2>1, <3>1, <3>3
  <2>5. x.target \in Supported(i) /\ (x.mode = "owned-file" => x.origin = "created-file")
    BY <1>4, <1>5, <2>1
  <2> QED BY <2>3, <2>4, <2>5
<1>7. ASSUME NEW n \in InPlay, \E x \in R.targets : x.target = Registry[n].target
      PROVE  RecordedArtifact(R, Registry[n]) # {}
  <2>1. \E a \in r.targets : a.target = Registry[n].target
    BY <1>1, <1>4, <1>7
  <2>2. PICK b \in r.targets : b.target = Registry[n].target /\ b.artifact = Registry[n].artifact
    BY <1>5, <2>1 DEF RecordedArtifact
  <2>3. f(b) \in RecordedArtifact(R, Registry[n])
    BY <1>1, <1>4, <2>2 DEF RecordedArtifact
  <2> QED BY <2>3
<1>8. ValidateTargetRecords(i, R)
  BY <1>2, <1>6, <1>7 DEF ValidateTargetRecords
<1>9. DOMAIN R.policy # {}
  BY <1>2, <1>3, ReleasePolicy
<1>10. R.targets # {}
  BY <1>1, <1>5
<1>11. SerializeInstallState(i, R)
  BY <1>2, <1>3, <1>8, <1>9, <1>10 DEF SerializeInstallState, ValidatePolicyFileRecords
<1>12. ValidateOwnedDirectories(i, R)
  <2>1. ASSUME NEW d \in R.dirs PROVE OwnedDirectory(i, R.targets, d)
    <3>1. OwnedDirectory(i, r.targets, d)
      BY <1>2, <2>1 DEF ValidateOwnedDirectories
    <3>2. CASE InstallNamespaceDirectory(i, d)
      BY <3>2 DEF OwnedDirectory
    <3>3. CASE \E x \in r.targets : x.origin = "created-file" /\ Below(d, x.path)
      <4>1. PICK x \in r.targets : x.origin = "created-file" /\ Below(d, x.path)
        BY <3>3
      <4>2. f(x) \in R.targets /\ f(x).origin = "created-file" /\ Below(d, f(x).path)
        BY <1>1, <1>4, <4>1
      <4> QED BY <4>2 DEF OwnedDirectory
    <3> QED BY <3>1, <3>2, <3>3 DEF OwnedDirectory
  <2> QED BY <2>1 DEF ValidateOwnedDirectories
<1>13. \A e \in ArtifactsOf(Wanted(t, q)) : MayUpdate(t, i, e)
  <2>1. ASSUME NEW e \in ArtifactsOf(q.targets) PROVE RecordedArtifact(r, e) # {}
    <3>1. PICK x \in r.targets : x.target = e.target /\ x.artifact = e.artifact
      BY WholeUpdateArtifacts
    <3> QED BY <3>1 DEF RecordedArtifact
  <2> QED BY <1>3, <2>1 DEF MayUpdate
<1>14. \A id \in Wanted(t, q) : \E x \in r.targets : x.target = id
  BY <1>3 DEF WholeUpdate
<1> QED BY <1>11, <1>12, <1>13, <1>14 DEF R

(* A forced update of targets that can all be repaired is not refused.     *)
Repaired(t, x, v) ==
    /\ Present(t, x.path)
    /\ x.mode = "managed-block" => ManagedInstallStatus(t, x.path) = "present" \/ Repairable(t, x, v)

(* Where all is repaired a forced update to the recorded release is fine.  *)
LEMMA RepairedIsFine ==
    ASSUME NEW t, NEW i, NEW q, WholeUpdate(t, i, q), q.force,
           ValidateOwnedDirectories(i, t.record[i]), ValidatePolicySetTree(i, t),
           \A p \in DOMAIN t.record[i].policy : Present(t, p),
           \A x \in t.record[i].targets : Repaired(t, x, q.version)
    PROVE  ForceVerdict(t, q) = "fine"
<1> DEFINE r == t.record[i]
           troubled == {x \in r.targets : ForcedVerdict(t, r, x, q) # "fine"}
<1>1. q.owner = i /\ Wanted(t, q) = q.targets
  BY DEF Wanted, WholeUpdate
<1>2. ASSUME NEW x \in r.targets PROVE ForcedVerdict(t, r, x, q) = "fine"
  <2>1. x.path \in SelectedPaths(r, Wanted(t, q))
    <3>1. x.target \in q.targets
      BY DEF WholeUpdate
    <3>2. x \in {y \in r.targets : y.target \in q.targets}
      BY <3>1
    <3> QED BY <1>1, <3>2 DEF SelectedPaths
  <2>2. x.mode \in {"owned-file", "managed-block"}
    BY FittingMode DEF WholeUpdate, RecordFits
  <2>3. Repaired(t, x, q.version)
    OBVIOUS
  <2> QED BY <2>1, <2>2, <2>3 DEF ForcedVerdict, Repaired
<1>3. troubled = {}
  BY <1>2
<1> HIDE DEF troubled
<1>4. ForcedPreparation(t, q).verdict = "fine"
  BY <1>1, <1>3 DEF ForcedPreparation, troubled
<1> QED BY <1>4 DEF ForceVerdict

(* It is accepted, and leaves every target clean.                          *)
LEMMA RepairedHeals ==
    ASSUME NEW t, Good(t), Fitting(t), NEW i, NEW q, WholeUpdate(t, i, q), q.kind = "update", q.force,
           ValidatePolicySetTree(i, t),
           \A p \in DOMAIN t.record[i].policy : Present(t, p),
           \A x \in t.record[i].targets : Repaired(t, x, q.version)
    PROVE  /\ Accepted(t, q) /\ ~Manual(t, q)
           /\ \A id \in q.targets : TargetStatus(Run(t, Steps(t, q)), i, id) = "clean"
<1>1. i \in Installations /\ q.owner = i /\ q.version \in Versions /\ Installed(t, i)
  BY DEF WholeUpdate
<1>2. ParseInstallationState(i, t.record[i]) /\ ValidateOwnedDirectories(i, t.record[i])
  BY <1>1 DEF Good, Kept, Readable, Installed
<1>3. ForceVerdict(t, q) = "fine"
  BY <1>2, RepairedIsFine
<1>4. /\ SerializeInstallState(i, UpdateRecord(t, q)) /\ ValidateOwnedDirectories(i, UpdateRecord(t, q))
      /\ \A e \in ArtifactsOf(Wanted(t, q)) : MayUpdate(t, i, e)
      /\ \A id \in Wanted(t, q) : \E x \in t.record[i].targets : x.target = id
  BY <1>2, WholeUpdateRecord
<1>5. Accepted(t, q) /\ ~Manual(t, q)
  <2>1. UpdateAccepted(t, q)
    BY <1>1, <1>3, <1>4 DEF UpdateAccepted
  <2>2. Legible(t, q.owner)
    BY <1>1, <1>2 DEF Legible
  <2> QED BY <1>3, <2>1, <2>2 DEF Accepted, Manual
<1>6. Steps(t, q) = UpdateSteps(t, q)
  BY <1>5 DEF Steps
<1>7. q.targets \subseteq Targets
  BY WholeUpdateArtifacts
<1>8. t.record[i].policy = SourcePolicySet(i, q.version)
  BY <1>1 DEF WholeUpdate, RecordFits, Installed
<1>9. i \in DOMAIN t.record
  BY <1>1 DEF Good
<1>10. PolicyDirectories(i, DOMAIN t.record[i].policy) \subseteq PolicyDirectories(i, DOMAIN SourcePolicySet(i, q.version))
  BY <1>8
<1>11. ASSUME NEW id \in q.targets PROVE TargetStatus(Run(t, UpdateSteps(t, q)), i, id) = "clean"
  BY <1>1, <1>4, <1>7, <1>9, <1>10, UpdateCleans
<1> QED BY <1>5, <1>6, <1>11

(* So it is in a good tree where nothing recorded is missing.              *)
LEMMA GoodHeals == Good(tree) /\ Fitting(tree) => ForceHeals
<1>1. ASSUME Good(tree), Fitting(tree), NEW i \in Installations,
             Installed(tree, i), ~tree.record[i].legacy, ValidatePolicySetTree(i, tree),
             \A p \in DOMAIN tree.record[i].policy : Present(tree, p),
             \A x \in tree.record[i].targets : Repaired(tree, x, tree.record[i].version),
             NEW q, q = Request("update", i, InstalledTargets(i), TRUE, tree.record[i].version)
      PROVE  /\ Accepted(tree, q) /\ ~Manual(tree, q)
             /\ \A id \in q.targets : TargetStatus(Run(tree, Steps(tree, q)), i, id) = "clean"
  <2>1. /\ q.kind = "update" /\ q.owner = i /\ q.targets = {x.target : x \in tree.record[i].targets}
        /\ q.force /\ q.version = tree.record[i].version
    BY <1>1 DEF Request, InstalledTargets
  <2>2. ParseInstallationState(i, tree.record[i]) /\ RecordFits(i, tree.record[i])
    BY <1>1 DEF Good, Kept, Readable, Fitting, Installed
  <2>3. WholeUpdate(tree, i, q)
    BY <1>1, <2>1, <2>2 DEF WholeUpdate, ParseInstallationState
  <2>4. \A x \in tree.record[i].targets : Repaired(tree, x, q.version)
    BY <1>1, <2>1
  <2>5. /\ Good(tree) /\ Fitting(tree) /\ ValidatePolicySetTree(i, tree)
        /\ \A p \in DOMAIN tree.record[i].policy : Present(tree, p)
        /\ q.kind = "update" /\ q.force
    BY <1>1, <2>1
  <2> QED BY <2>3, <2>4, <2>5, RepairedHeals
<1>2. ASSUME NEW i \in Installations,
             \A p \in DOMAIN tree.record[i].policy \union {x.path : x \in tree.record[i].targets} : Present(tree, p),
             \A x \in tree.record[i].targets : x.mode = "managed-block" =>
                 ManagedInstallStatus(tree, x.path) = "present" \/ Repairable(tree, x, tree.record[i].version)
      PROVE  /\ \A p \in DOMAIN tree.record[i].policy : Present(tree, p)
             /\ \A x \in tree.record[i].targets : Repaired(tree, x, tree.record[i].version)
  BY <1>2 DEF Repaired
<1> QED BY <1>1, <1>2 DEF ForceHeals

(* As long as nothing recorded is missing and the markers can be told, a    *)
(* forced update is accepted and leaves every target clean (force.go).      *)
THEOREM ForcedUpdateHeals == Spec => []ForceHeals
<1>1. LifecycleInvariant /\ FittingInvariant => ForceHeals
  BY GoodHeals DEF LifecycleInvariant, FittingInvariant
<1> QED BY <1>1, LifecycleHolds, FilesFit, PTL

-----------------------------------------------------------------------------
(* A tree in which every file and directory hangs.                         *)
Rooted(t) == \A p \in DOMAIN t.files \union t.dirs : p \in Path /\ Len(p) >= 2 /\ Parents(p) \subseteq t.dirs

(* The root of the backups, and the state directory it is in.              *)
LEMMA BackupRootOf ==
    /\ StateDir \in Path /\ Len(StateDir) = 2 /\ StateDir[1] = "state" /\ Parents(StateDir) = {}
    /\ BackupRoot \in Path /\ Len(BackupRoot) = 3 /\ BackupRoot[1] = "state" /\ Parents(BackupRoot) = {StateDir}
<1>1. "state" \in Name /\ "oaw" \in Name /\ "backups" \in Name
  BY DEF Name
<1>2. StateDir = <<"state", "oaw">> /\ BackupRoot = <<"state", "oaw", "backups">>
  BY <1>1, Joined2 DEF BackupRoot, StateDir
<1>3. StateDir \in Path /\ BackupRoot \in Path
  BY <1>1, <1>2 DEF Path
<1>4. Len(StateDir) = 2 /\ StateDir[1] = "state" /\ Len(BackupRoot) = 3 /\ BackupRoot[1] = "state"
  BY <1>2
<1>5. 2..(Len(StateDir) - 1) = {} /\ 2..(Len(BackupRoot) - 1) = {2}
  BY <1>4
<1>6. Parents(StateDir) = {} /\ Parents(BackupRoot) = {SubSeq(BackupRoot, 1, 2)}
  BY <1>5 DEF Parents
<1>7. SubSeq(BackupRoot, 1, 2) = StateDir
  <2>1. ASSUME NEW a \in Path, NEW c \in Name PROVE SubSeq(a \o <<c>>, 1, Len(a)) = a
    BY DEF Path
  <2> QED BY <1>1, <1>3, <1>4, <2>1 DEF BackupRoot
<1> QED BY <1>3, <1>4, <1>6, <1>7

(* A step keeps the tree rooted when it writes, or makes a directory, where *)
(* the directories above are; only empty directories go.                   *)
LEMMA DoRooted ==
    ASSUME NEW t, Rooted(t), NEW x,
           x.op \in {"write", "mkdir"} =>
               x.path \in Path /\ Len(x.path) >= 2 /\ Parents(x.path) \subseteq t.dirs
    PROVE  Rooted(Do(t, x))
<1> DEFINE u == Do(t, x)
<1>1. u.dirs = IF x.op = "mkdir" THEN t.dirs \union {x.path}
               ELSE IF x.op = "rmdir" THEN RemoveEmptyDirectory(t, x.path)
               ELSE IF x.op = "backup" THEN t.dirs \union {StateDir, BackupRoot} ELSE t.dirs
  BY DoRecord
<1>2. DOMAIN u.files \subseteq DOMAIN t.files \union (IF x.op = "write" THEN {x.path} ELSE {})
  BY DoFiles
<1> HIDE DEF u
<1>3. ASSUME NEW p \in DOMAIN u.files \union u.dirs
      PROVE  p \in Path /\ Len(p) >= 2 /\ Parents(p) \subseteq t.dirs \union u.dirs
  <2>1. CASE p \in DOMAIN t.files \union t.dirs
    BY <2>1 DEF Rooted
  <2>2. CASE p \notin DOMAIN t.files \union t.dirs
    <3>1. \/ x.op \in {"write", "mkdir"} /\ p = x.path
          \/ x.op = "backup" /\ p \in {StateDir, BackupRoot}
      BY <1>1, <1>2, <1>3, <2>2 DEF RemoveEmptyDirectory
    <3>2. CASE x.op \in {"write", "mkdir"} /\ p = x.path
      BY <3>2
    <3>3. CASE x.op = "backup" /\ p \in {StateDir, BackupRoot}
      <4>1. StateDir \in u.dirs
        BY <1>1, <3>3
      <4>2. /\ StateDir \in Path /\ Len(StateDir) >= 2 /\ Parents(StateDir) = {}
            /\ BackupRoot \in Path /\ Len(BackupRoot) >= 2 /\ Parents(BackupRoot) = {StateDir}
        BY BackupRootOf
      <4>3. CASE p = StateDir
        BY <4>2, <4>3
      <4>4. CASE p = BackupRoot
        BY <4>1, <4>2, <4>4
      <4> QED BY <3>3, <4>3, <4>4
    <3> QED BY <3>1, <3>2, <3>3
  <2> QED BY <2>1, <2>2
<1>4. CASE x.op # "rmdir"
  <2>1. t.dirs \subseteq u.dirs
    BY <1>1, <1>4
  <2> QED BY <1>3, <2>1 DEF Rooted, u
<1>5. CASE x.op = "rmdir"
  <2>1. u.dirs = RemoveEmptyDirectory(t, x.path) /\ DOMAIN u.files \subseteq DOMAIN t.files
    BY <1>1, <1>2, <1>5
  <2>2. CASE ~Empty(t, x.path)
    <3>1. u.dirs = t.dirs
      BY <2>1, <2>2 DEF RemoveEmptyDirectory
    <3> QED BY <1>3, <3>1 DEF Rooted, u
  <2>3. CASE Empty(t, x.path)
    <3>1. u.dirs = t.dirs \ {x.path}
      BY <2>1, <2>3 DEF RemoveEmptyDirectory
    <3>2. ASSUME NEW p \in DOMAIN u.files \union u.dirs PROVE x.path \notin Parents(p)
      <4>1. p \in DOMAIN t.files \union t.dirs
        BY <2>1, <3>1
      <4>2. ~Below(x.path, p)
        BY <2>3, <4>1 DEF Empty
      <4> QED BY <1>3, <4>2, ParentsOf
    <3> QED BY <1>3, <3>1, <3>2 DEF Rooted, u
  <2> QED BY <2>2, <2>3
<1> QED BY <1>4, <1>5

(* Plans of installs and updates: each write and each directory made has   *)
(* the directories above it there, or made before.                         *)
Grounded(t, steps) ==
    \A n \in DOMAIN steps :
        /\ steps[n].op # "rmdir"
        /\ steps[n].op \in {"write", "mkdir"} =>
              /\ steps[n].path \in Path /\ Len(steps[n].path) >= 2
              /\ \A d \in Parents(steps[n].path) : d \in t.dirs \/ \E m \in 1..(n - 1) : steps[m] = Mkdir(d)

(* A grounded plan leaves the tree rooted.                                 *)
LEMMA RunGrounded ==
    ASSUME NEW t, Rooted(t), NEW X, NEW steps \in Seq(X), Grounded(t, steps)
    PROVE  Rooted(Run(t, steps))
<1> DEFINE T == Trail(t, steps)
           G == {n \in Nat : n <= Len(steps) =>
                    /\ Rooted(T[n]) /\ t.dirs \subseteq T[n].dirs
                    /\ \A m \in 1..n : steps[m].op = "mkdir" => steps[m].path \in T[n].dirs}
<1>1. Len(steps) \in Nat /\ DOMAIN steps = 1..Len(steps)
  OBVIOUS
<1>2. Run(t, steps) = T[Len(steps)] /\ T[0] = t /\ \A n \in 1..Len(steps) : T[n] = Do(T[n - 1], steps[n])
  BY <1>1, RunTrail
<1> HIDE DEF T
<1>3. 0 \in G
  BY <1>2
<1>4. ASSUME NEW k \in Nat, k \in G PROVE k + 1 \in G
  <2>1. SUFFICES ASSUME k + 1 <= Len(steps)
                 PROVE  /\ Rooted(T[k + 1]) /\ t.dirs \subseteq T[k + 1].dirs
                        /\ \A m \in 1..(k + 1) : steps[m].op = "mkdir" => steps[m].path \in T[k + 1].dirs
    OBVIOUS
  <2>2. PICK n \in DOMAIN steps : n = k + 1
    BY <1>1, <2>1
  <2> DEFINE x == steps[n]
  <2>3. T[k + 1] = Do(T[k], x) /\ x = steps[k + 1] /\ n - 1 = k
    BY <1>1, <1>2, <2>2
  <2>4. /\ Rooted(T[k]) /\ t.dirs \subseteq T[k].dirs
        /\ \A m \in 1..k : steps[m].op = "mkdir" => steps[m].path \in T[k].dirs
    BY <1>1, <1>4, <2>1
  <2>5. /\ x.op # "rmdir"
        /\ x.op \in {"write", "mkdir"} =>
              /\ x.path \in Path /\ Len(x.path) >= 2
              /\ \A d \in Parents(x.path) : d \in t.dirs \/ \E m \in 1..k : steps[m] = Mkdir(d)
    BY <2>3 DEF Grounded
  <2>6. ASSUME NEW d, NEW m \in 1..k, steps[m] = Mkdir(d) PROVE d \in T[k].dirs
    <3>1. steps[m].op = "mkdir" /\ steps[m].path = d
      BY <2>6 DEF Mkdir
    <3> QED BY <2>4, <3>1
  <2> HIDE DEF x
  <2>7. x.op \in {"write", "mkdir"} => x.path \in Path /\ Len(x.path) >= 2 /\ Parents(x.path) \subseteq T[k].dirs
    BY <2>4, <2>5, <2>6
  <2>8. Rooted(Do(T[k], x))
    BY <2>4, <2>7, DoRooted
  <2>9. T[k].dirs \subseteq Do(T[k], x).dirs /\ (x.op = "mkdir" => x.path \in Do(T[k], x).dirs)
    <3>1. Do(T[k], x).dirs = IF x.op = "mkdir" THEN T[k].dirs \union {x.path}
                             ELSE IF x.op = "rmdir" THEN RemoveEmptyDirectory(T[k], x.path)
                             ELSE IF x.op = "backup" THEN T[k].dirs \union {StateDir, BackupRoot} ELSE T[k].dirs
      BY DoRecord
    <3> QED BY <2>5, <3>1
  <2>10. ASSUME NEW m \in 1..(k + 1), steps[m].op = "mkdir" PROVE steps[m].path \in T[k + 1].dirs
    <3>1. CASE m = k + 1
      BY <2>3, <2>9, <2>10, <3>1
    <3>2. CASE m \in 1..k
      BY <2>3, <2>4, <2>9, <2>10, <3>2
    <3> QED BY <3>1, <3>2
  <2> QED BY <2>3, <2>4, <2>8, <2>9, <2>10
<1>5. Len(steps) \in G
  <2> HIDE DEF G
  <2> QED BY <1>1, <1>3, <1>4, SetInduction
<1> QED BY <1>1, <1>2, <1>5

(* So is each part of such a plan, and such a plan after a backup.         *)
LEMMA GroundedPart ==
    ASSUME NEW t, NEW X, NEW steps \in Seq(X), Grounded(t, steps), NEW n \in 1..Len(steps)
    PROVE  Grounded(t, SubSeq(steps, 1, n))
<1>1. DOMAIN SubSeq(steps, 1, n) = 1..n /\ \A m \in 1..n : SubSeq(steps, 1, n)[m] = steps[m]
  OBVIOUS
<1>2. 1..n \subseteq DOMAIN steps /\ \A m \in 1..n : 1..(m - 1) \subseteq 1..n
  OBVIOUS
<1> DEFINE s == SubSeq(steps, 1, n)
<1> HIDE DEF s
<1>3. DOMAIN s = 1..n /\ \A m \in 1..n : s[m] = steps[m]
  BY <1>1 DEF s
<1>4. Grounded(t, s)
  BY <1>2, <1>3 DEF Grounded
<1> QED BY <1>4 DEF s

(* A backup before the plan leaves it grounded.                            *)
LEMMA GroundedBackup ==
    ASSUME NEW t, NEW X, NEW plan \in Seq(X), Grounded(t, plan), NEW q, NEW seen
    PROVE  Grounded(t, WithBackup(seen, q, plan)) /\ \E Y : WithBackup(seen, q, plan) \in Seq(Y)
<1> DEFINE b == Backup(Saved(seen, {plan[n].path : n \in {m \in DOMAIN plan : Destroys(seen, plan[m])}}))
           s == <<b>> \o plan
<1>1. CASE ~BackupRequired(seen, q)
  <2>1. WithBackup(seen, q, plan) = <<>> \o plan
    BY <1>1 DEF WithBackup
  <2>2. <<>> \o plan = plan
    OBVIOUS
  <2> QED BY <2>1, <2>2
<1>2. CASE BackupRequired(seen, q)
  <2>1. WithBackup(seen, q, plan) = s
    BY <1>2 DEF WithBackup
  <2>2. b.op = "backup"
    BY DEF Backup
  <2> HIDE DEF b
  <2>3. /\ DOMAIN s = 1..(Len(plan) + 1) /\ Len(plan) \in Nat /\ DOMAIN plan = 1..Len(plan)
        /\ s[1] = b /\ \A n \in 1..Len(plan) : s[n + 1] = plan[n]
        /\ s \in Seq(X \union {b})
    OBVIOUS
  <2> HIDE DEF s
  <2>4. ASSUME NEW n \in DOMAIN s
        PROVE  /\ s[n].op # "rmdir"
               /\ s[n].op \in {"write", "mkdir"} =>
                     /\ s[n].path \in Path /\ Len(s[n].path) >= 2
                     /\ \A d \in Parents(s[n].path) : d \in t.dirs \/ \E m \in 1..(n - 1) : s[m] = Mkdir(d)
    <3>1. CASE n = 1
      BY <2>2, <2>3, <3>1
    <3>2. CASE n # 1
      <4>1. PICK k \in 1..Len(plan) : n = k + 1
        <5>1. n - 1 \in 1..Len(plan) /\ n = (n - 1) + 1
          BY <2>3, <3>2
        <5> QED BY <5>1
      <4>2. s[n] = plan[k]
        BY <2>3, <4>1
      <4>3. ASSUME NEW d, NEW m \in 1..(k - 1), plan[m] = Mkdir(d) PROVE \E l \in 1..(n - 1) : s[l] = Mkdir(d)
        <5>1. m \in 1..Len(plan) /\ m + 1 \in 1..(n - 1)
          BY <2>3, <4>1
        <5>2. s[m + 1] = Mkdir(d)
          BY <2>3, <4>3, <5>1
        <5> QED BY <5>1, <5>2
      <4> QED BY <2>3, <4>1, <4>2, <4>3 DEF Grounded
    <3> QED BY <3>1, <3>2
  <2>5. Grounded(t, s)
    BY <2>4 DEF Grounded
  <2> QED BY <2>1, <2>3, <2>5
<1> QED BY <1>1, <1>2

(* A plan that makes the planned directories is such a one, when what it   *)
(* writes has the others above it.                                         *)
LEMMA PerformsGrounded ==
    ASSUME NEW X, \A x \in X : x.path \in Path /\ x.op \notin {"mkdir", "rmdir"},
           NEW planned, NEW s, Performs(s, X, planned), NEW t,
           \A x \in X : x.op = "write" => Len(x.path) >= 2 /\ Parents(x.path) \subseteq t.dirs \union planned,
           \A d \in Above(X) \intersect planned : Parents(d) \subseteq t.dirs \union planned
    PROVE  Grounded(t, s)
<1>1. s \in Seq(X \union Made(planned \intersect Above(X))) /\ Led(s, planned)
  BY DEF Performs
<1>2. ASSUME NEW n \in DOMAIN s
      PROVE  /\ s[n].op # "rmdir"
             /\ s[n].op \in {"write", "mkdir"} =>
                   s[n].path \in Path /\ Len(s[n].path) >= 2 /\ Parents(s[n].path) \subseteq t.dirs \union planned
  <2> DEFINE Y == X \union Made(planned \intersect Above(X))
  <2>1. s[n] \in Y
    <3> HIDE DEF Y
    <3>1. s \in Seq(Y)
      BY <1>1 DEF Y
    <3> QED BY <3>1
  <2>2. CASE s[n] \in X
    BY <2>2
  <2>3. CASE s[n] \notin X
    <3>1. PICK d \in planned \intersect Above(X) : s[n] = Mkdir(d)
      BY <2>1, <2>3 DEF Made
    <3>2. s[n].op = "mkdir" /\ s[n].path = d
      BY <3>1 DEF Mkdir
    <3>3. PICK x \in X : d \in Parents(x.path)
      BY DEF Above
    <3>4. d \in Path /\ Len(d) >= 2
      BY <3>3, ParentsOf
    <3> QED BY <3>2, <3>4
  <2> QED BY <2>2, <2>3
<1> QED BY <1>1, <1>2 DEF Grounded, Led

(* What lies above a path one longer, and above a state record.            *)
LEMMA JoinedParents ==
    ASSUME NEW a \in Path, Len(a) >= 2, NEW c \in Name
    PROVE  a \o <<c>> \in Path /\ Len(a \o <<c>>) = Len(a) + 1 /\ Parents(a \o <<c>>) = Parents(a) \union {a}
<1> DEFINE p == a \o <<c>>
<1>1. p \in Path /\ Len(p) = Len(a) + 1 /\ Len(p) > 2
  BY DEF Path
<1>2. Front(p) = a
  BY DEF Front, Path
<1> HIDE DEF p
<1>3. Parents(p) = Parents(a) \union {a}
  BY <1>1, <1>2, FrontParent
<1> QED BY <1>1, <1>3 DEF p

(* The directories of a state file hang in each other.                     *)
LEMMA NamespacesRooted ==
    ASSUME NEW i \in Installations
    PROVE  /\ Parents(StateFile(i)) = Namespaces(i)
           /\ \A d \in Namespaces(i) : Parents(d) \subseteq Namespaces(i) /\ Len(d) >= 2
<1>1. i \in Name /\ "installations" \in Name /\ "projects" \in Name
  BY InstallationsAssumption DEF Name
<1>2. /\ InstallationsDir \in Path /\ Len(InstallationsDir) = 3
      /\ Parents(InstallationsDir) = {StateDir}
  <2>1. StateDir \in Path /\ Len(StateDir) >= 2 /\ Len(StateDir) + 1 = 3 /\ Parents(StateDir) \union {StateDir} = {StateDir}
    BY BackupRootOf
  <2>2. InstallationsDir = StateDir \o <<"installations">>
    BY DEF InstallationsDir
  <2>3. /\ InstallationsDir \in Path /\ Len(InstallationsDir) = Len(StateDir) + 1
        /\ Parents(InstallationsDir) = Parents(StateDir) \union {StateDir}
    BY <1>1, <2>1, <2>2, JoinedParents, Zenon
  <2> QED BY <2>1, <2>3
<1>3. /\ ProjectsDir \in Path /\ Len(ProjectsDir) = 4
      /\ Parents(ProjectsDir) = {StateDir, InstallationsDir}
  <2>1. Len(InstallationsDir) >= 2
    BY <1>2
  <2>2. ProjectsDir = InstallationsDir \o <<"projects">>
    BY DEF ProjectsDir
  <2>3. /\ ProjectsDir \in Path /\ Len(ProjectsDir) = Len(InstallationsDir) + 1
        /\ Parents(ProjectsDir) = Parents(InstallationsDir) \union {InstallationsDir}
    BY <1>1, <1>2, <2>1, <2>2, JoinedParents, Zenon
  <2> QED BY <1>2, <2>3
<1>4. Parents(StateFile(i)) = Namespaces(i)
  <2> DEFINE top == IF i = "user" THEN InstallationsDir ELSE ProjectsDir
  <2>1. StateFile(i) = top \o <<i>>
    BY Zenon DEF StateFile
  <2>4. top \in Path /\ Len(top) >= 2
    <3>1. top = InstallationsDir \/ top = ProjectsDir
      OBVIOUS
    <3> HIDE DEF top
    <3> QED BY <1>2, <1>3, <3>1
  <2>2. Parents(top) \union {top} = Namespaces(i)
    BY <1>2, <1>3 DEF Namespaces
  <2> HIDE DEF top
  <2>3. Parents(StateFile(i)) = Parents(top) \union {top}
    BY <1>1, <2>1, <2>4, JoinedParents, Zenon
  <2> QED BY <2>2, <2>3
<1> QED BY <1>2, <1>3, <1>4, BackupRootOf DEF Namespaces

(* The files of targets and of the Policy Set are below a root at least.   *)
LEMMA TargetLong ==
    ASSUME NEW i \in Installations, NEW x, TargetFits(i, x), x.path[1] \in Scope(i)
    PROVE  x.path \in Path /\ Len(x.path) >= 2
<1>1. PICK e \in RegistryEntry : x.path = ArtifactDestination(i, e)
  BY DEF TargetFits
<1>2. e.user \in Path /\ e.project \in Path /\ e.project # <<>> /\ e.root \in {"none", "home", "config"}
  BY DEF RegistryEntry, IsEntry
<1>3. e.user = <<>> => e.root = "none"
  <2>1. PICK n \in 1..19 : e = Registry[n]
    BY RegistryTyped DEF RegistryEntry, ToSet
  <2> QED BY <2>1, RegistrySorted DEF SortedEntry
<1>4. x.path \in Path
  BY <1>1, ArtifactDestinationOf
<1>5. CASE i = "user"
  <2>1. x.path = <<e.root>> \o e.user
    BY <1>1, <1>5 DEF ArtifactDestination
  <2>2. x.path[1] = e.root
    BY <1>2, <2>1 DEF Path
  <2>3. e.root # "none"
    BY <1>5, <2>2 DEF Scope
  <2>4. Len(e.user) >= 1
    BY <1>2, <1>3, <2>3 DEF Path
  <2>5. Len(x.path) = 1 + Len(e.user) /\ Len(e.user) \in Nat
    BY <1>2, <2>1 DEF Path
  <2> QED BY <1>4, <2>4, <2>5
<1>6. CASE i # "user"
  <2>1. x.path = <<i>> \o e.project
    BY <1>1, <1>6 DEF ArtifactDestination
  <2>2. Len(x.path) = 1 + Len(e.project) /\ Len(e.project) >= 1
    BY <1>2, <2>1 DEF Path
  <2> QED BY <1>4, <2>2
<1> QED BY <1>5, <1>6

(* Files of the Policy Set lie below its directory.                        *)
LEMMA PlacedLong ==
    ASSUME NEW i \in Installations, NEW p \in Path, Placed(i, p)
    PROVE  Len(p) > 2 /\ PolicyDir(i) \in Parents(p)
<1>1. PolicyDir(i) \in Parents(p)
  BY PolicyDirOf, BelowParents DEF Placed
<1>2. Parents(p) # {} /\ Len(p) \in Nat
  BY <1>1 DEF Path
<1>3. Len(p) > 2
  <2>1. SUFFICES ASSUME Len(p) <= 2 PROVE Parents(p) = {}
    BY <1>2
  <2>2. 2..(Len(p) - 1) = {}
    BY <1>2, <2>1
  <2> QED BY <2>2 DEF Parents
<1> QED BY <1>1, <1>3

(* What a plan that can be applied writes has the directories above it     *)
(* there or planned.                                                       *)
LEMMA AppliedParents ==
    ASSUME NEW X, NEW planned, NEW steps, Renews(steps, X, planned), \A x \in X : x.op # "mkdir",
           NEW t, Applicable(t, steps), NEW x \in X, x.op = "write"
    PROVE  Parents(x.path) \subseteq t.dirs \union planned
<1> DEFINE M == Made(planned \intersect Above(X))
<1>1. PICK B : Copying(B) /\ steps \in Seq(X \union M \union B)
  BY DEF Renews
<1>2. x \in ToSet(steps)
  BY DEF Renews
<1> DEFINE Y == X \union M \union B
<1>3. \A y \in Y : y.op = "mkdir" => y.path \in planned
  BY <1>1 DEF Copying, Made, Mkdir
<1>4. steps \in Seq(Y)
  BY <1>1
<1> HIDE DEF Y
<1>5. PICK n \in DOMAIN steps : steps[n] = x
  BY <1>2 DEF ToSet
<1>6. ASSUME NEW d \in Parents(x.path), d \notin t.dirs PROVE d \in planned
  <2>1. Contains(steps, Mkdir(d))
    BY <1>5, <1>6 DEF Applicable
  <2>2. PICK m \in 1..Len(steps) : steps[m] = Mkdir(d)
    BY <2>1 DEF Contains
  <2>3. Mkdir(d) \in Y
    BY <1>4, <2>2
  <2> QED BY <1>3, <2>3 DEF Mkdir
<1> QED BY <1>6

(* So a plan that renews, and can be applied, is grounded, when that goes  *)
(* for the directories it makes for other steps.                           *)
LEMMA RenewalGrounded ==
    ASSUME NEW X, NEW planned, NEW plan, Performs(plan, X, planned),
           \A x \in X : x.path \in Path /\ x.op \notin {"mkdir", "rmdir"},
           \A x \in X : x.op = "write" => Len(x.path) >= 2,
           NEW steps, Renews(steps, X, planned), NEW t, Applicable(t, steps),
           \A x \in X : x.op # "write" =>
               \A d \in Parents(x.path) \intersect planned : Parents(d) \subseteq t.dirs \union planned
    PROVE  Grounded(t, plan) /\ \E Y : plan \in Seq(Y)
<1>1. \A x \in X : x.op = "write" => Parents(x.path) \subseteq t.dirs \union planned
  BY AppliedParents
<1>2. ASSUME NEW d \in Above(X) \intersect planned PROVE Parents(d) \subseteq t.dirs \union planned
  <2>1. PICK x \in X : d \in Parents(x.path)
    BY DEF Above
  <2>2. CASE x.op = "write"
    BY <1>1, <2>1, <2>2, ParentsNested
  <2>3. CASE x.op # "write"
    BY <2>1, <2>3
  <2> QED BY <2>2, <2>3
<1>3. Grounded(t, plan)
  BY <1>1, <1>2, PerformsGrounded
<1> QED BY <1>3 DEF Performs

(* An install that is applied is grounded.                                 *)
LEMMA InstallGrounded ==
    ASSUME NEW t, Good(t), Fitting(t), NEW q \in Requests, InstallAccepted(t, q), Applicable(t, InstallSteps(t, q))
    PROVE  Grounded(t, InstallSteps(t, q)) /\ \E Y : InstallSteps(t, q) \in Seq(Y)
<1> DEFINE i == q.owner
           r == t.record[i]
           R == InstallRecord(t, q)
           X == InstallPart(t, q)
           steps == InstallSteps(t, q)
           planned == R.dirs \ t.dirs
<1>1. i \in Installations /\ q.version \in Versions
  BY RequestsAssumption
<1>2. Kept(i, r) /\ RecordFits(i, r)
  BY <1>1 DEF Good, Fitting
<1>3. SerializeInstallState(i, R) /\ ValidateOwnedDirectories(i, R)
  BY DEF InstallAccepted
<1>4. Sized(R) /\ InScope(i, R) /\ Namespaces(i) \subseteq t.dirs \union R.dirs
  BY <1>1, <1>2, <1>3, InstallRecordOf DEF Kept
<1>5. Performs(steps, X, planned) /\ \A x \in X : x.path \in Path
  BY <1>1, <1>4, InstallStepsIn
<1>6. R.policy = SourcePolicySet(i, q.version) /\ \A x \in Selected(t, q) : x \in R.targets /\ TargetFits(i, x)
  <2>1. R.policy = SourcePolicySet(i, q.version) /\ Selected(t, q) \subseteq R.targets
    BY DEF InstallRecord, Selected, MergeRecords
  <2> HIDE DEF R
  <2> QED BY <1>1, <2>1, SelectedRecords
<1>7. ASSUME NEW x \in X
      PROVE  /\ x.op \in {"write", "record"} /\ (x.op = "write" => Len(x.path) >= 2)
             /\ x.op = "record" => x.path = StateFile(i)
  <2>1. CASE x \in PolicyWrites(i, R)
    <3>1. PICK p \in DOMAIN R.policy \union {PolicyPath(i)} : x = Write(p, Written(R.version))
      BY <2>1 DEF PolicyWrites
    <3>2. Placed(i, p) /\ p \in Path
      <4> HIDE DEF R
      <4> QED BY <1>1, <1>6, <3>1, PolicyPlaced
    <3>3. Len(p) > 2 /\ Len(p) \in Nat
      BY <1>1, <3>2, PlacedLong DEF Path
    <3> HIDE DEF R
    <3> QED BY <3>1, <3>3 DEF Write
  <2>2. CASE x \in Rendered(t, Selected(t, q), q.version)
    <3>1. PICK y \in Selected(t, q) : x = Write(y.path, Render(t, y, q.version))
      BY <2>2 DEF Rendered
    <3>2. TargetFits(i, y) /\ y.path[1] \in Scope(i)
      BY <1>4, <1>6, <3>1 DEF InScope, TargetInScope
    <3>3. Len(y.path) >= 2
      BY <1>1, <3>2, TargetLong
    <3> QED BY <3>1, <3>3 DEF Write
  <2>3. CASE x = Record(i, R)
    BY <2>3 DEF Record
  <2> QED BY <2>1, <2>2, <2>3 DEF InstallPart
<1>8. Renews(steps, X, planned)
  <2>1. Copying({})
    BY DEF Copying
  <2>2. steps \in Seq(X \union Made(planned \intersect Above(X)) \union {})
    BY <1>5 DEF Performs
  <2> HIDE DEF X, steps, planned
  <2> QED BY <1>5, <2>1, <2>2 DEF Performs, Renews
<1>9. ASSUME NEW x \in X, x.op # "write", NEW d \in Parents(x.path) \intersect planned
      PROVE  Parents(d) \subseteq t.dirs \union planned
  <2>1. d \in Namespaces(i)
    BY <1>1, <1>7, <1>9, NamespacesRooted
  <2>2. Parents(d) \subseteq Namespaces(i)
    BY <1>1, <2>1, NamespacesRooted
  <2> QED BY <1>4, <2>2
<1>10. /\ \A x \in X : x.path \in Path /\ x.op \notin {"mkdir", "rmdir"}
       /\ \A x \in X : x.op = "write" => Len(x.path) >= 2
  BY <1>5, <1>7
<1>11. Applicable(t, steps)
  OBVIOUS
<1> HIDE DEF X, steps, planned
<1>12. Grounded(t, steps) /\ \E Y : steps \in Seq(Y)
  BY <1>5, <1>8, <1>9, <1>10, <1>11, RenewalGrounded
<1> QED BY <1>12 DEF steps

(* Two directories above a path lie one above the other.                   *)
LEMMA ParentsComparable ==
    ASSUME NEW p \in Path, NEW d \in Parents(p), NEW e \in Parents(p)
    PROVE  d = e \/ d \in Parents(e) \/ IsPrefix(e, d)
<1>1. PICK n \in 2..(Len(p) - 1) : d = SubSeq(p, 1, n)
  BY DEF Parents
<1>2. PICK m \in 2..(Len(p) - 1) : e = SubSeq(p, 1, m)
  BY DEF Parents
<1>3. /\ d \in Path /\ Len(d) = n /\ \A k \in 1..n : d[k] = p[k]
      /\ e \in Path /\ Len(e) = m /\ \A k \in 1..m : e[k] = p[k]
  BY <1>1, <1>2 DEF Path
<1>4. CASE n < m
  <2>1. \A k \in 1..n : e[k] = d[k]
    BY <1>3, <1>4
  <2>2. Below(d, e)
    BY <1>3, <1>4, <2>1, PrefixOf
  <2> QED BY <1>3, <2>2, BelowParents
<1>5. CASE n = m
  BY <1>1, <1>2, <1>5
<1>6. CASE m < n
  <2>1. \A k \in 1..m : d[k] = e[k]
    BY <1>3, <1>6
  <2>2. Below(e, d)
    BY <1>3, <1>6, <2>1, PrefixOf
  <2> QED BY <2>2 DEF Below, IsStrictPrefix
<1> QED BY <1>4, <1>5, <1>6

(* And an update that is applied.                                          *)
LEMMA UpdateGrounded ==
    ASSUME NEW t, NEW seen, Good(seen), Fitting(seen), NEW q \in Requests, UpdateAccepted(seen, q),
           ForceVerdict(seen, q) # "manual", Applicable(t, UpdateSteps(seen, q))
    PROVE  Grounded(t, UpdateSteps(seen, q)) /\ \E Y : UpdateSteps(seen, q) \in Seq(Y)
<1> DEFINE i == q.owner
           r == seen.record[i]
           R == UpdateRecord(seen, q)
           X == UpdatePart(seen, q)
           steps == UpdateSteps(seen, q)
           planned == R.dirs \ r.dirs
<1>1. i \in Installations /\ q.version \in Versions
  BY RequestsAssumption
<1>2. Kept(i, r) /\ RecordFits(i, r) /\ Installed(seen, i)
  BY <1>1 DEF Good, Fitting, UpdateAccepted
<1>3. SerializeInstallState(i, R) /\ ValidateOwnedDirectories(i, R)
  BY DEF UpdateAccepted
<1>4. Sized(R) /\ InScope(i, R)
  BY <1>1, <1>2, <1>3, UpdateRecordOf DEF Kept
<1>5. PICK plan : Performs(plan, X, planned) /\ steps = WithBackup(seen, q, plan)
  BY <1>1, <1>2, <1>4, UpdateStepsIn DEF Kept
<1>6. \A x \in X : x.path \in Path
  BY <1>1, <1>2, <1>4, UpdateStepsIn DEF Kept
<1>7. /\ R.policy = SourcePolicySet(i, q.version)
      /\ \A x \in Renewed(seen, q) : x \in R.targets /\ TargetFits(i, x)
  <2>1. R.policy = SourcePolicySet(i, q.version) /\ Renewed(seen, q) \subseteq R.targets
    BY DEF UpdateRecord, Renewed, MergeRecords
  <2> HIDE DEF R
  <2> QED BY <1>1, <1>2, <2>1, RenewedRecords
<1>8. Namespaces(i) \intersect planned = {}
  <2>1. Namespaces(i) \subseteq seen.dirs
    BY <1>1, <1>2, ReadableVersion DEF Good, Standing, Kept, Installed
  <2>2. planned \intersect seen.dirs = {}
    BY DEF UpdateRecord, MissingNamespaces, MissingParents
  <2> QED BY <2>1, <2>2
<1>9. ASSUME NEW x \in X
      PROVE  \/ x.op = "write" /\ Len(x.path) >= 2
             \/ x.op = "record" /\ x.path = StateFile(i)
             \/ x.op = "remove" /\ x.path \in Path /\ Placed(i, x.path)
  <2>1. CASE x \in PolicyWrites(i, R)
    <3>1. PICK p \in DOMAIN R.policy \union {PolicyPath(i)} : x = Write(p, Written(R.version))
      BY <2>1 DEF PolicyWrites
    <3>2. Placed(i, p) /\ p \in Path
      <4> HIDE DEF R
      <4> QED BY <1>1, <1>7, <3>1, PolicyPlaced
    <3>3. Len(p) > 2 /\ Len(p) \in Nat
      BY <1>1, <3>2, PlacedLong DEF Path
    <3> HIDE DEF R
    <3> QED BY <3>1, <3>3 DEF Write
  <2>2. CASE x \in Rendered(seen, Renewed(seen, q), q.version)
    <3>1. PICK y \in Renewed(seen, q) : x = Write(y.path, Render(seen, y, q.version))
      BY <2>2 DEF Rendered
    <3>2. TargetFits(i, y) /\ y.path[1] \in Scope(i)
      BY <1>4, <1>7, <3>1 DEF InScope, TargetInScope
    <3>3. Len(y.path) >= 2
      BY <1>1, <3>2, TargetLong
    <3> QED BY <3>1, <3>3 DEF Write
  <2>3. CASE x = Record(i, R)
    BY <2>3 DEF Record
  <2>4. CASE x \in {Unlink(p) : p \in Obsolete(r, R)}
    <3>1. PICK p \in DOMAIN r.policy : x = Unlink(p)
      BY <2>4 DEF Obsolete
    <3>2. p \in Path /\ Placed(i, p)
      BY <1>1, <1>2, FittingPolicy
    <3> QED BY <3>1, <3>2 DEF Unlink
  <2> QED BY <2>1, <2>2, <2>3, <2>4 DEF UpdatePart
<1>10. Renews(steps, X, planned)
  BY <1>5, BackupRenews
<1>11. Applicable(t, steps)
  OBVIOUS
<1>12. Parents(PolicyPath(i)) \subseteq t.dirs \union planned
  <2> DEFINE x == Write(PolicyPath(i), Written(R.version))
  <2>1. x \in X
    BY DEF UpdatePart, PolicyWrites
  <2>2. x.op = "write" /\ x.path = PolicyPath(i)
    BY DEF Write
  <2> HIDE DEF x, X, steps, planned
  <2>3. \A y \in X : y.op # "mkdir"
    BY <1>9
  <2>4. Parents(x.path) \subseteq t.dirs \union planned
    BY <1>10, <1>11, <2>1, <2>2, <2>3, AppliedParents
  <2> QED BY <2>2, <2>4
<1>13. ASSUME NEW x \in X, x.op # "write", NEW d \in Parents(x.path) \intersect planned
       PROVE  Parents(d) \subseteq t.dirs \union planned
  <2>1. CASE x.op = "record"
    BY <1>1, <1>8, <1>9, <1>13, <2>1, NamespacesRooted
  <2>2. CASE x.op = "remove"
    <3>1. x.path \in Path /\ Placed(i, x.path)
      BY <1>9, <2>2
    <3>2. PolicyDir(i) \in Parents(x.path)
      BY <1>1, <3>1, PlacedLong
    <3>3. d = PolicyDir(i) \/ d \in Parents(PolicyDir(i)) \/ IsPrefix(PolicyDir(i), d)
      BY <1>13, <3>1, <3>2, ParentsComparable
    <3>4. d = PolicyDir(i) \/ d \in Parents(PolicyDir(i))
      BY <1>1, <1>2, <1>13, <3>3, UpdatePlanned
    <3>5. PolicyPath(i) \in Path /\ PolicyDir(i) \in Parents(PolicyPath(i)) /\ PolicyDir(i) \in Path
      BY <1>1, PolicyPlaced, PlacedLong, PolicyDirOf
    <3>6. d \in Parents(PolicyPath(i))
      BY <3>4, <3>5, ParentsNested
    <3> QED BY <1>12, <3>5, <3>6, ParentsNested
  <2> QED BY <1>9, <1>13, <2>1, <2>2
<1>14. /\ \A x \in X : x.path \in Path /\ x.op \notin {"mkdir", "rmdir"}
       /\ \A x \in X : x.op = "write" => Len(x.path) >= 2
  BY <1>6, <1>9
<1> HIDE DEF X, steps, planned
<1>15. Grounded(t, plan) /\ \E Y : plan \in Seq(Y)
  BY <1>5, <1>10, <1>11, <1>13, <1>14, RenewalGrounded
<1>16. Grounded(t, steps) /\ \E Y : steps \in Seq(Y)
  BY <1>5, <1>15, GroundedBackup
<1> QED BY <1>16 DEF steps

(* Plans of uninstalls: they write only to files that are there and stay.  *)
Settled(t, steps) ==
    \A n \in DOMAIN steps :
        /\ steps[n].op # "mkdir"
        /\ steps[n].op = "write" =>
              /\ Present(t, steps[n].path)
              /\ \A m \in DOMAIN steps : steps[m].op = "remove" => steps[m].path # steps[n].path

(* A settled plan leaves the tree rooted.                                  *)
LEMMA RunSettled ==
    ASSUME NEW t, Rooted(t), NEW X, NEW steps \in Seq(X), Settled(t, steps)
    PROVE  Rooted(Run(t, steps))
<1> DEFINE T == Trail(t, steps)
           G == {n \in Nat : n <= Len(steps) =>
                    /\ Rooted(T[n])
                    /\ \A m \in DOMAIN steps : steps[m].op = "write" => steps[m].path \in DOMAIN T[n].files}
<1>1. Len(steps) \in Nat /\ DOMAIN steps = 1..Len(steps)
  OBVIOUS
<1>2. Run(t, steps) = T[Len(steps)] /\ T[0] = t /\ \A n \in 1..Len(steps) : T[n] = Do(T[n - 1], steps[n])
  BY <1>1, RunTrail
<1> HIDE DEF T
<1>3. 0 \in G
  BY <1>2 DEF Settled, Present
<1>4. ASSUME NEW k \in Nat, k \in G PROVE k + 1 \in G
  <2>1. SUFFICES ASSUME k + 1 <= Len(steps)
                 PROVE  /\ Rooted(T[k + 1])
                        /\ \A m \in DOMAIN steps : steps[m].op = "write" => steps[m].path \in DOMAIN T[k + 1].files
    OBVIOUS
  <2>2. PICK n \in DOMAIN steps : n = k + 1
    BY <1>1, <2>1
  <2> DEFINE x == steps[n]
  <2>3. T[k + 1] = Do(T[k], x) /\ n - 1 = k
    BY <1>1, <1>2, <2>2
  <2>4. /\ Rooted(T[k])
        /\ \A m \in DOMAIN steps : steps[m].op = "write" => steps[m].path \in DOMAIN T[k].files
    BY <1>1, <1>4, <2>1
  <2>5. /\ x.op # "mkdir" /\ (x.op = "write" => x.path \in DOMAIN T[k].files)
        /\ \A m \in DOMAIN steps : steps[m].op = "write" /\ x.op = "remove" => steps[m].path # x.path
    BY <2>4 DEF Settled
  <2> HIDE DEF x
  <2>6. x.op \in {"write", "mkdir"} => x.path \in Path /\ Len(x.path) >= 2 /\ Parents(x.path) \subseteq T[k].dirs
    BY <2>4, <2>5 DEF Rooted
  <2>7. Rooted(Do(T[k], x))
    BY <2>4, <2>6, DoRooted
  <2>8. \A m \in DOMAIN steps : steps[m].op = "write" => steps[m].path \in DOMAIN Do(T[k], x).files
    BY <2>4, <2>5, DoFiles
  <2> QED BY <2>3, <2>7, <2>8
<1>5. Len(steps) \in G
  <2> HIDE DEF G
  <2> QED BY <1>1, <1>3, <1>4, SetInduction
<1> QED BY <1>1, <1>2, <1>5

(* What was applied of a settled plan is settled.                          *)
LEMMA SettledPart ==
    ASSUME NEW t, NEW X, NEW steps \in Seq(X), Settled(t, steps), NEW n \in 1..Len(steps)
    PROVE  Settled(t, SubSeq(steps, 1, n))
<1>1. DOMAIN SubSeq(steps, 1, n) = 1..n /\ \A m \in 1..n : SubSeq(steps, 1, n)[m] = steps[m]
  OBVIOUS
<1>2. 1..n \subseteq DOMAIN steps
  OBVIOUS
<1> DEFINE s == SubSeq(steps, 1, n)
<1> HIDE DEF s
<1>3. DOMAIN s = 1..n /\ \A m \in 1..n : s[m] = steps[m]
  BY <1>1 DEF s
<1>4. Settled(t, s)
  BY <1>2, <1>3 DEF Settled
<1> QED BY <1>4 DEF s

(* A recorded target has a place in the registry.                          *)
LEMMA PositionOf ==
    ASSUME NEW i \in Installations, NEW r, Kept(i, r), RecordFits(i, r), NEW x \in r.targets
    PROVE  TargetArtifactPosition(x) \in Nat /\ x.target \in Targets
<1>1. x.target \in Supported(i)
  <2>1. r # NoRecord
    BY DEF NoRecord
  <2> QED BY <2>1 DEF Kept, Readable, ParseInstallationState, ValidateTargetRecords
<1>2. x.target \in Targets
  BY <1>1 DEF Supported
<1>3. PICK e \in RegistryEntry : x.target = e.target /\ x.artifact = e.artifact
  BY DEF RecordFits, TargetFits
<1>4. PICK n \in DOMAIN Registry : Registry[n] = e
  BY <1>3 DEF RegistryEntry, ToSet
<1>5. n \in InPlay /\ InPlay \subseteq Nat
  BY <1>2, <1>3, <1>4, RegistryTyped DEF InPlay
<1>6. TargetArtifactPosition(x) \in InPlay
  BY <1>3, <1>4, <1>5 DEF TargetArtifactPosition
<1> QED BY <1>2, <1>5, <1>6

(* Each file that an accepted uninstall or update vouches for is there.    *)
LEMMA FinePresent ==
    ASSUME NEW t, NEW q, ForceVerdict(t, q) = "fine", q.owner \in Installations,
           Kept(q.owner, t.record[q.owner]), RecordFits(q.owner, t.record[q.owner])
    PROVE  /\ \A x \in t.record[q.owner].targets : Present(t, x.path)
           /\ \A p \in DOMAIN t.record[q.owner].policy : Present(t, p)
<1> DEFINE i == q.owner
           r == t.record[i]
<1>1. CASE ~q.force
  <2>1. ValidateClean(i, t)
    BY <1>1 DEF ForceVerdict
  <2> QED BY <2>1 DEF ValidateClean, ValidateLiveTargetRecord, ValidatePolicySetFiles, PolicyFileClean
<1>2. CASE q.force
  <2> DEFINE troubled == {x \in r.targets : ForcedVerdict(t, r, x, q) # "fine"}
             first == CHOOSE x \in troubled : \A y \in troubled : TargetArtifactPosition(x) <= TargetArtifactPosition(y)
             rank == [x \in troubled |-> TargetArtifactPosition(x)]
  <2>1. ForcedPreparation(t, q).verdict = "fine"
    BY <1>2 DEF ForceVerdict
  <2>2. ~(~ValidatePolicySetTree(i, t) \/ \E p \in DOMAIN r.policy : ~Present(t, p))
    <3>1. SUFFICES ASSUME ~ValidatePolicySetTree(i, t) \/ \E p \in DOMAIN r.policy : ~Present(t, p) PROVE FALSE
      OBVIOUS
    <3>2. ForcedPreparation(t, q) = [verdict |-> "refused", record |-> {}]
      BY <3>1 DEF ForcedPreparation
    <3> QED BY <2>1, <3>2
  <2>3. troubled = {}
    <3>1. SUFFICES ASSUME troubled # {} PROVE FALSE
      OBVIOUS
    <3>2. ForcedPreparation(t, q) = [verdict |-> ForcedVerdict(t, r, first, q), record |-> {first}]
      BY <2>2, <3>1 DEF ForcedPreparation
    <3>3. ForcedVerdict(t, r, first, q) = "fine"
      BY <2>1, <3>2
    <3>4. \A x \in troubled : rank[x] \in Nat
      BY PositionOf
    <3>5. \E x \in troubled : \A y \in troubled : rank[x] <= rank[y]
      <4> HIDE DEF troubled, rank
      <4> QED BY <3>1, <3>4, LeastOfSet
    <3>6. \E x \in troubled : \A y \in troubled : TargetArtifactPosition(x) <= TargetArtifactPosition(y)
      BY <3>5
    <3>7. first \in troubled
      <4> HIDE DEF troubled
      <4> QED BY <3>6
    <3> QED BY <3>3, <3>7
  <2>4. ASSUME NEW x \in r.targets PROVE Present(t, x.path)
    <3>1. ForcedVerdict(t, r, x, q) = "fine"
      BY <2>3
    <3> QED BY <3>1 DEF ForcedVerdict, ValidateLiveTargetRecord
  <2> QED BY <2>2, <2>4
<1> QED BY <1>1, <1>2

(* A plan with at most a copy in front has the steps of the plan.          *)
LEMMA BackupIn ==
    ASSUME NEW t, NEW q, NEW X, NEW plan \in Seq(X)
    PROVE  \E b : b.op = "backup" /\ WithBackup(t, q, plan) \in Seq(X \union {b})
<1> DEFINE b == Backup(Saved(t, {plan[n].path : n \in {m \in DOMAIN plan : Destroys(t, plan[m])}}))
           steps == WithBackup(t, q, plan)
<1>1. steps = (IF BackupRequired(t, q) THEN <<b>> ELSE <<>>) \o plan
  BY DEF WithBackup
<1>2. b.op = "backup"
  BY DEF Backup
<1> HIDE DEF b
<1>3. steps \in Seq(X \union {b})
  <2> HIDE DEF steps
  <2>1. plan \in Seq(X \union {b}) /\ <<b>> \in Seq(X \union {b})
    OBVIOUS
  <2>2. <<b>> \o plan \in Seq(X \union {b}) /\ <<>> \o plan = plan
    BY <2>1
  <2> QED BY <1>1, <2>1, <2>2
<1> QED BY <1>2, <1>3

(* What an accepted uninstall writes are files with a block, which it does *)
(* not remove.                                                             *)
LEMMA UninstallSettled ==
    ASSUME NEW seen, Good(seen), Fitting(seen), NEW q \in Requests, UninstallAccepted(seen, q),
           Installed(seen, q.owner), ForceVerdict(seen, q) # "manual",
           \A n \in DOMAIN UninstallSteps(seen, q) : SameAsSeen(seen, UninstallSteps(seen, q)[n])
    PROVE  Settled(tree, UninstallSteps(seen, q)) /\ \E Y : UninstallSteps(seen, q) \in Seq(Y)
<1> DEFINE i == q.owner
           r == seen.record[i]
           R == UninstallRecord(seen, q)
           P == DOMAIN r.policy \union {PolicyPath(i)}
           X == UninstallPart(seen, q)
           steps == UninstallSteps(seen, q)
<1>1. i \in Installations
  BY RequestsAssumption
<1>2. Kept(i, r) /\ RecordFits(i, r) /\ r # NoRecord
  BY <1>1 DEF Good, Fitting, Installed
<1>3. ForceVerdict(seen, q) = "fine"
  BY DEF UninstallAccepted
<1>4. PICK plan \in Seq(X) : steps = WithBackup(seen, q, plan)
  BY <1>1, <1>2, UninstallStepsIn
<1>5. PICK b : b.op = "backup" /\ steps \in Seq(X \union {b})
  <2> HIDE DEF X, steps
  <2> QED BY <1>4, BackupIn
<1>6. ASSUME NEW x \in X
      PROVE  /\ x.op # "mkdir"
             /\ x.op = "write" => \E y \in r.targets : x = UninstallTarget(seen, y) /\ x.path = y.path
                                                       /\ ~(y.mode = "owned-file" \/ (y.origin = "created-file" /\ ~OwnText(seen, y.path)))
             /\ x.op = "remove" => \/ \E y \in r.targets : x = UninstallTarget(seen, y) /\ x.path = y.path
                                       /\ (y.mode = "owned-file" \/ (y.origin = "created-file" /\ ~OwnText(seen, y.path)))
                                   \/ x.path \in P
  <2>1. CASE x \in {UninstallTarget(seen, y) : y \in {z \in r.targets : z.target \in q.targets}}
    <3>1. PICK y \in r.targets : x = UninstallTarget(seen, y)
      BY <2>1
    <3>2. CASE y.mode = "owned-file" \/ (y.origin = "created-file" /\ ~OwnText(seen, y.path))
      <4>1. UninstallTarget(seen, y) = Unlink(y.path)
        BY <3>2 DEF UninstallTarget
      <4>2. x.op = "remove" /\ x.path = y.path
        BY <3>1, <4>1 DEF Unlink
      <4> QED BY <3>1, <3>2, <4>2
    <3>3. CASE ~(y.mode = "owned-file" \/ (y.origin = "created-file" /\ ~OwnText(seen, y.path)))
      <4>1. UninstallTarget(seen, y) = Write(y.path, RenderManagedFileWithoutBlock(seen, y.path))
        BY <3>3 DEF UninstallTarget
      <4>2. x.op = "write" /\ x.path = y.path
        BY <3>1, <4>1 DEF Write
      <4> QED BY <3>1, <3>3, <4>2
    <3> QED BY <3>2, <3>3
  <2>2. CASE x \in {Unlink(p) : p \in P}
    BY <2>2 DEF Unlink
  <2>3. CASE x \in {Retain(p) : p \in P} \union {Record(i, R)} \union Dropped(r.dirs)
    BY <2>3 DEF Retain, Record, Dropped, Rmdir
  <2> QED BY <2>1, <2>2, <2>3 DEF UninstallPart
<1>7. /\ \A y \in r.targets : TargetFits(i, y) /\ Present(seen, y.path)
      /\ \A y, z \in r.targets : y.path = z.path => y.mode = z.mode /\ y.origin = z.origin
  <2>1. \A y \in r.targets : TargetFits(i, y) /\ Present(seen, y.path)
    BY <1>1, <1>2, <1>3, FinePresent DEF RecordFits
  <2>2. ValidateTargetRecords(i, r)
    BY <1>2 DEF Kept, Readable, ParseInstallationState
  <2>3. \A y, z \in r.targets : y.path = z.path => y.mode = z.mode /\ y.origin = z.origin
    BY <2>2 DEF ValidateTargetRecords, At
  <2> QED BY <2>1, <2>3
<1>8. \A p \in P : ~BlockPath(p)
  BY <1>1, <1>2, FittingPolicy, PolicyPlaced DEF Placed
<1>9. \A n \in DOMAIN steps : SameAsSeen(seen, steps[n])
  OBVIOUS
<1> HIDE DEF X, steps, P
<1>10. ASSUME NEW n \in DOMAIN steps
       PROVE  /\ steps[n].op # "mkdir"
              /\ steps[n].op = "write" =>
                    /\ Present(tree, steps[n].path)
                    /\ \A m \in DOMAIN steps : steps[m].op = "remove" => steps[m].path # steps[n].path
  <2>1. steps[n] \in X \union {b}
    BY <1>5
  <2>2. steps[n].op # "mkdir"
    BY <1>5, <1>6, <2>1
  <2>3. ASSUME steps[n].op = "write"
        PROVE  /\ Present(tree, steps[n].path)
               /\ \A m \in DOMAIN steps : steps[m].op = "remove" => steps[m].path # steps[n].path
    <3>1. PICK y \in r.targets : /\ steps[n].path = y.path
                                 /\ ~(y.mode = "owned-file" \/ (y.origin = "created-file" /\ ~OwnText(seen, y.path)))
      BY <1>5, <1>6, <2>1, <2>3
    <3>2. Present(tree, steps[n].path)
      BY <1>7, <1>9, <2>3, <3>1 DEF SameAsSeen
    <3>3. BlockPath(y.path)
      BY <1>1, <1>7, <3>1, FittingMode
    <3>4. ASSUME NEW m \in DOMAIN steps, steps[m].op = "remove", steps[m].path = steps[n].path PROVE FALSE
      <4>1. steps[m] \in X \union {b}
        BY <1>5
      <4>2. steps[m] \in X
        BY <1>5, <3>4, <4>1
      <4>3. \/ \E z \in r.targets : steps[m].path = z.path
                   /\ (z.mode = "owned-file" \/ (z.origin = "created-file" /\ ~OwnText(seen, z.path)))
            \/ steps[m].path \in P
        BY <1>6, <3>4, <4>2
      <4>4. CASE steps[m].path \in P
        BY <1>8, <3>1, <3>3, <3>4, <4>4
      <4>5. CASE \E z \in r.targets : steps[m].path = z.path
                   /\ (z.mode = "owned-file" \/ (z.origin = "created-file" /\ ~OwnText(seen, z.path)))
        BY <1>7, <3>1, <3>4, <4>5
      <4> QED BY <4>3, <4>4, <4>5
    <3> QED BY <3>2, <3>4
  <2> QED BY <2>2, <2>3
<1>11. Settled(tree, steps)
  BY <1>10 DEF Settled
<1> QED BY <1>5, <1>11 DEF steps

(* A plan that is applied, or a part of it, leaves the tree hanging.        *)
LEMMA PlanRooted ==
    ASSUME Good(tree), Fitting(tree), Rooted(tree), NEW seen, Good(seen), Fitting(seen), NEW q \in Requests,
           Accepted(seen, q), NEW steps, steps = Steps(seen, q),
           StillValid(q, seen, steps), Applicable(tree, steps)
    PROVE  /\ Rooted(Run(tree, steps))
           /\ \A n \in 1..(Len(steps) - 1) : Rooted(Run(tree, SubSeq(steps, 1, n)))
<1> DEFINE i == q.owner
<1>1. \A n \in DOMAIN steps : SameAsSeen(seen, steps[n])
  BY DEF StillValid
<1> SUFFICES (Grounded(tree, steps) \/ Settled(tree, steps)) /\ \E Y : steps \in Seq(Y)
  <2>1. PICK Y : steps \in Seq(Y)
    OBVIOUS
  <2>2. Rooted(Run(tree, steps))
    BY <2>1, RunGrounded, RunSettled
  <2>3. ASSUME NEW n \in 1..(Len(steps) - 1) PROVE Rooted(Run(tree, SubSeq(steps, 1, n)))
    <3>1. n \in 1..Len(steps) /\ SubSeq(steps, 1, n) \in Seq(Y)
      BY <2>1
    <3>2. Grounded(tree, SubSeq(steps, 1, n)) \/ Settled(tree, SubSeq(steps, 1, n))
      BY <2>1, <3>1, GroundedPart, SettledPart
    <3> QED BY <3>1, <3>2, RunGrounded, RunSettled
  <2> QED BY <2>2, <2>3
<1>2. CASE Manual(seen, q)
  <2> DEFINE x == Backup(Saved(seen, {y.path : y \in ForcedPreparation(seen, q).record} \union {PolicyPath(i)}))
  <2>1. steps = <<x>>
    BY <1>2 DEF Steps, ManualRecovery
  <2>2. x.op = "backup"
    BY DEF Backup
  <2> HIDE DEF x
  <2>3. steps \in Seq({x}) /\ \A n \in DOMAIN steps : steps[n].op = "backup"
    BY <2>1, <2>2
  <2>4. Settled(tree, steps)
    BY <2>3 DEF Settled
  <2> QED BY <2>3, <2>4
<1>3. CASE ~Manual(seen, q) /\ q.kind = "install"
  <2>1. steps = InstallSteps(tree, q) /\ InstallAccepted(tree, q)
    BY <1>3 DEF StillValid, PreparedAgain
  <2> QED BY <2>1, InstallGrounded
<1>4. CASE ~Manual(seen, q) /\ q.kind = "update"
  <2>1. steps = UpdateSteps(seen, q) /\ UpdateAccepted(seen, q)
    BY <1>4 DEF Steps, Accepted
  <2>2. ForceVerdict(seen, q) # "manual"
    BY <1>4, <2>1 DEF Manual, UpdateAccepted
  <2> QED BY <2>1, <2>2, UpdateGrounded
<1>5. CASE ~Manual(seen, q) /\ q.kind = "uninstall"
  <2>1. steps = UninstallSteps(seen, q) /\ UninstallAccepted(seen, q)
    BY <1>5 DEF Steps, Accepted
  <2>2. CASE ~Installed(seen, i)
    <3>1. steps = <<>>
      BY <2>1, <2>2 DEF UninstallSteps
    <3>2. steps \in Seq({})
      BY <3>1
    <3>3. Settled(tree, steps)
      BY <3>1 DEF Settled
    <3> QED BY <3>2, <3>3
  <2>3. CASE Installed(seen, i)
    <3>1. ForceVerdict(seen, q) # "manual"
      BY <1>5, <2>3 DEF Manual
    <3> QED BY <1>1, <2>1, <2>3, <3>1, UninstallSettled
  <2> QED BY <2>2, <2>3
<1>6. q.kind \in {"install", "update", "uninstall"}
  BY DEF Accepted
<1> QED BY <1>2, <1>3, <1>4, <1>5, <1>6

(* A legacy installation hangs in the tree.                                *)
LEMMA LegacyRooted ==
    ASSUME NEW i \in Legacy
    PROVE  LET r == LegacyRecord(i)
               D == UserDirs \union r.dirs
           IN \A p \in DOMAIN r.policy \union {x.path : x \in r.targets} \union r.dirs :
                 p \in Path /\ Len(p) >= 2 /\ Parents(p) \subseteq D
<1> DEFINE r == LegacyRecord(i)
           D == UserDirs \union r.dirs
           P == DOMAIN r.policy \union {x.path : x \in r.targets}
<1>1. i \in Installations /\ 1 \in Versions
  BY LegacyAssumption
<1>2. Kept(i, r) /\ Namespaces(i) \subseteq D /\ RecordFits(i, r) /\ r.policy = SourcePolicySet(i, 1)
  BY LegacyRecordOf, LegacyRecordFits
<1>3. r.dirs = MissingNamespaces(LegacyTree, i) \union MissingParents(LegacyTree, P)
  BY DEF LegacyRecord, LegacyTree
<1>4. LegacyTree.dirs = UserDirs
  BY DEF LegacyTree
<1> HIDE DEF r
<1>5. ASSUME NEW p \in P PROVE p \in Path /\ Len(p) >= 2 /\ Parents(p) \subseteq D
  <2>1. p \in Path /\ Len(p) >= 2
    <3>1. CASE p \in DOMAIN r.policy
      <4>1. p \in Path /\ Placed(i, p)
        BY <1>1, <1>2, <3>1, PolicyPlaced
      <4> QED BY <1>1, <4>1, PlacedLong DEF Path
    <3>2. CASE p \notin DOMAIN r.policy
      <4>1. PICK x \in r.targets : p = x.path
        BY <3>2
      <4>2. TargetFits(i, x) /\ x.path[1] \in Scope(i)
        BY <1>2, <4>1 DEF RecordFits, Kept, InScope, TargetInScope
      <4> QED BY <1>1, <4>1, <4>2, TargetLong
    <3> QED BY <3>1, <3>2
  <2>2. Parents(p) \subseteq LegacyTree.dirs \union MissingParents(LegacyTree, P)
    BY DEF MissingParents
  <2> QED BY <1>3, <1>4, <2>1, <2>2
<1>6. ASSUME NEW d \in r.dirs PROVE d \in Path /\ Len(d) >= 2 /\ Parents(d) \subseteq D
  <2>1. CASE d \in MissingParents(LegacyTree, P)
    <3>1. PICK p \in P : d \in Parents(p)
      BY <2>1 DEF MissingParents
    <3>2. Parents(d) \subseteq Parents(p) /\ d \in Path /\ Len(d) >= 2
      BY <1>5, <3>1, ParentsNested, ParentsOf
    <3> QED BY <1>5, <3>2
  <2>2. CASE d \in MissingNamespaces(LegacyTree, i)
    <3>1. d = PolicyDir(i) \/ d \in Namespaces(i)
      BY <2>2 DEF MissingNamespaces, Namespaces
    <3>2. CASE d = PolicyDir(i)
      <4>1. PolicyPath(i) \in P /\ d \in Parents(PolicyPath(i))
        BY <1>1, <1>2, <3>2, ReleasePolicy
      <4>2. Parents(d) \subseteq Parents(PolicyPath(i)) /\ d \in Path /\ Len(d) >= 2
        BY <1>5, <4>1, ParentsNested, ParentsOf
      <4> QED BY <1>5, <4>1, <4>2
    <3>3. CASE d \in Namespaces(i)
      BY <1>1, <1>2, <3>3, NamespacesRooted, NamespacesOf
    <3> QED BY <3>1, <3>2, <3>3
  <2> QED BY <1>3, <2>1, <2>2
<1> QED BY <1>5, <1>6 DEF r

(* The tree hangs together, and counters stay in their bounds.             *)
RootedInvariant ==
    /\ Rooted(tree)
    /\ commands \in 0..MaxCommands /\ edits \in 0..MaxEdits /\ kills \in 0..MaxKills

(* So it is at first.                                                      *)
LEMMA InitRooted == Init => RootedInvariant
<1> SUFFICES ASSUME Init PROVE RootedInvariant
  OBVIOUS
<1>1. /\ tree.files = InitialFiles
      /\ tree.dirs = UserDirs \union UNION {LegacyRecord(i).dirs : i \in Legacy}
      /\ commands = 0 /\ edits = 0 /\ kills = 0
  BY DEF Init
<1>2. commands \in 0..MaxCommands /\ edits \in 0..MaxEdits /\ kills \in 0..MaxKills
  BY <1>1, BoundsAssumption
<1>3. DOMAIN InitialFiles = UNION {DOMAIN LegacyRecord(i).policy \union {x.path : x \in LegacyRecord(i).targets} : i \in Legacy}
  BY DEF InitialFiles
<1>4. ASSUME NEW p \in UserDirs PROVE p \in Path /\ Len(p) >= 2 /\ Parents(p) \subseteq tree.dirs
  <2>1. p \in Seq(STRING) /\ Len(p) > 1 /\ Parents(p) \subseteq UserDirs
    BY UserAssumption
  <2>2. p \in Path
    BY <2>1 DEF Path, Name
  <2>3. Len(p) \in Nat
    BY <2>1
  <2> QED BY <1>1, <2>1, <2>2, <2>3
<1>5. ASSUME NEW i \in Legacy,
             NEW p \in DOMAIN LegacyRecord(i).policy \union {x.path : x \in LegacyRecord(i).targets} \union LegacyRecord(i).dirs
      PROVE  p \in Path /\ Len(p) >= 2 /\ Parents(p) \subseteq tree.dirs
  <2>1. p \in Path /\ Len(p) >= 2 /\ Parents(p) \subseteq UserDirs \union LegacyRecord(i).dirs
    BY LegacyRooted
  <2> QED BY <1>1, <2>1
<1>6. Rooted(tree)
  BY <1>1, <1>3, <1>4, <1>5 DEF Rooted
<1> QED BY <1>2, <1>6 DEF RootedInvariant

(* A user's edit of a file that is there, or in a directory that is, keeps *)
(* the tree hanging.                                                       *)
LEMMA EditRooted ==
    ASSUME Rooted(tree), Shaped(tree), NEW p, NEW c, Edit(p, c),
           p \in DOMAIN tree.files \/ (p \in Path /\ Len(p) >= 2 /\ Parents(p) \subseteq tree.dirs)
    PROVE  Rooted(tree')
<1>1. tree' = [tree EXCEPT !.files = Put(tree.files, p, c)]
  BY DEF Edit
<1>2. tree'.files = Put(tree.files, p, c) /\ tree'.dirs = tree.dirs
  BY <1>1 DEF Shaped
<1>3. DOMAIN tree'.files = DOMAIN tree.files \union {p}
  BY <1>2 DEF Put
<1> QED BY <1>2, <1>3 DEF Rooted

(* Every step keeps it.                                                    *)
LEMMA NextRooted ==
    LifecycleInvariant /\ FittingInvariant /\ RootedInvariant /\ [Next]_vars => RootedInvariant'
<1> SUFFICES ASSUME LifecycleInvariant, FittingInvariant, RootedInvariant, [Next]_vars PROVE RootedInvariant'
  OBVIOUS
<1>1. /\ Good(tree) /\ Fitting(tree) /\ Shaped(tree) /\ Rooted(tree)
      /\ commands \in 0..MaxCommands /\ edits \in 0..MaxEdits /\ kills \in 0..MaxKills
  BY DEF LifecycleInvariant, FittingInvariant, RootedInvariant, Good, Standing
<1>2. ASSUME NEW p \in Procs, pending[p].busy
      PROVE  /\ pending[p].request \in Requests /\ Good(pending[p].seen) /\ Fitting(pending[p].seen)
             /\ Accepted(pending[p].seen, pending[p].request)
  BY <1>2 DEF LifecycleInvariant, FittingInvariant
<1>3. ASSUME NEW p \in Procs, Prepare(p) PROVE RootedInvariant'
  <2>1. tree' = tree /\ commands < MaxCommands /\ commands' = commands + 1 /\ edits' = edits /\ kills' = kills
    BY <1>3 DEF Prepare
  <2>2. commands' \in 0..MaxCommands
    BY <1>1, <2>1, BoundsAssumption
  <2> QED BY <1>1, <2>1, <2>2 DEF RootedInvariant
<1>4. ASSUME NEW p \in Procs, Apply(p) PROVE RootedInvariant'
  <2> DEFINE q == pending[p].request
             seen == pending[p].seen
             steps == Steps(seen, q)
  <2>1. pending[p].busy /\ commands' = commands /\ edits' = edits /\ kills' = kills
    BY <1>4 DEF Apply
  <2>2. CASE StillValid(q, seen, steps) /\ Applicable(tree, steps)
    <3>1. tree' = Run(tree, steps)
      BY <1>4, <2>2 DEF Apply
    <3>2. Rooted(tree')
      BY <1>1, <1>2, <2>1, <2>2, <3>1, PlanRooted
    <3> QED BY <1>1, <2>1, <3>2 DEF RootedInvariant
  <2>3. CASE ~(StillValid(q, seen, steps) /\ Applicable(tree, steps))
    <3>1. tree' = tree
      BY <1>4, <2>3 DEF Apply
    <3> QED BY <1>1, <2>1, <3>1 DEF RootedInvariant
  <2> QED BY <2>2, <2>3
<1>5. ASSUME NEW p \in Procs, Kill(p) PROVE RootedInvariant'
  <2> DEFINE q == pending[p].request
             seen == pending[p].seen
             steps == Steps(seen, q)
  <2>1. /\ pending[p].busy /\ commands' = commands /\ edits' = edits
        /\ kills < MaxKills /\ kills' = kills + 1
        /\ StillValid(q, seen, steps) /\ Applicable(tree, steps)
        /\ \E n \in 1..(Len(steps) - 1) : tree' = Run(tree, SubSeq(steps, 1, n))
    BY <1>5 DEF Kill
  <2>2. PICK n \in 1..(Len(steps) - 1) : tree' = Run(tree, SubSeq(steps, 1, n))
    BY <2>1
  <2>3. Rooted(tree')
    BY <1>1, <1>2, <2>1, <2>2, PlanRooted
  <2>4. kills' \in 0..MaxKills
    BY <1>1, <2>1, BoundsAssumption
  <2> QED BY <1>1, <2>1, <2>3, <2>4 DEF RootedInvariant
<1>6. ASSUME edits < MaxEdits, edits' = edits + 1, commands' = commands, kills' = kills, Rooted(tree')
      PROVE  RootedInvariant'
  <2>1. edits' \in 0..MaxEdits
    BY <1>1, <1>6, BoundsAssumption
  <2> QED BY <1>1, <1>6, <2>1 DEF RootedInvariant
<1>7. ASSUME NEW p, NEW c, Edit(p, c), p \in DOMAIN tree.files \/ (p \in Path /\ Len(p) >= 2 /\ Parents(p) \subseteq tree.dirs)
      PROVE  RootedInvariant'
  <2>1. edits < MaxEdits /\ edits' = edits + 1 /\ commands' = commands /\ kills' = kills
    BY <1>7 DEF Edit
  <2> QED BY <1>1, <1>6, <1>7, <2>1, EditRooted
<1>8. CASE WriteOwn
  <2>1. PICK p \in UserFiles : /\ \/ ~Present(tree, p) /\ (Len(p) = 2 \/ Front(p) \in tree.dirs)
                                  \/ ManagedInstallStatus(tree, p) # "absent"
                               /\ \E c : Edit(p, c)
    BY <1>8 DEF WriteOwn
  <2>2. CASE Present(tree, p)
    BY <1>7, <2>1, <2>2 DEF Present
  <2>3. CASE ~Present(tree, p)
    <3>1. Len(p) = 2 \/ Front(p) \in tree.dirs
      BY <2>1, <2>3 DEF ManagedInstallStatus
    <3>2. p \in Path /\ Len(p) > 1 /\ Len(p) \in Nat
      BY UserAssumption DEF Path, Name
    <3>3. Parents(p) \subseteq tree.dirs
      <4>1. CASE Len(p) = 2
        BY <4>1 DEF Parents
      <4>2. CASE Len(p) # 2
        <5>1. Len(p) > 2
          <6>1. \A n \in Nat : n > 1 /\ n # 2 => n > 2
            OBVIOUS
          <6> QED BY <3>2, <4>2, <6>1
        <5>2. Parents(p) = Parents(Front(p)) \union {Front(p)}
          BY <3>2, <5>1, FrontParent
        <5>3. Parents(Front(p)) \subseteq tree.dirs
          BY <1>1, <3>1, <4>2 DEF Rooted
        <5> QED BY <3>1, <4>2, <5>2, <5>3
      <4> QED BY <4>1, <4>2
    <3> QED BY <1>7, <2>1, <3>2, <3>3
  <2> QED BY <2>2, <2>3
<1>9. CASE EditBody
  <2>1. \E p \in DOMAIN tree.files : \E c : Edit(p, c)
    BY <1>9 DEF EditBody
  <2> QED BY <1>7, <2>1
<1>10. CASE BreakMarkers
  <2>1. \E p \in DOMAIN tree.files : \E c : Edit(p, c)
    BY <1>10 DEF BreakMarkers
  <2> QED BY <1>7, <2>1
<1>11. CASE Delete
  <2>1. PICK p : tree' = Do(tree, Unlink(p))
    BY <1>11 DEF Delete
  <2>2. edits < MaxEdits /\ edits' = edits + 1 /\ commands' = commands /\ kills' = kills
    BY <1>11 DEF Delete
  <2>3. Unlink(p).op = "remove"
    BY DEF Unlink
  <2>4. Rooted(tree')
    BY <1>1, <2>1, <2>3, DoRooted
  <2> QED BY <1>6, <2>2, <2>4
<1>12. CASE UNCHANGED vars
  <2>1. tree' = tree /\ commands' = commands /\ edits' = edits /\ kills' = kills
    BY <1>12 DEF vars
  <2> QED BY <1>1, <2>1 DEF RootedInvariant
<1> QED BY <1>3, <1>4, <1>5, <1>8, <1>9, <1>10, <1>11, <1>12 DEF Next

(* The tree always hangs together: nothing is written where no directory   *)
(* is, and no directory goes from under what it holds, wherever a command  *)
(* is killed.                                                              *)
THEOREM TreeHangs == Spec => []RootedInvariant
<1>1. Spec => []LifecycleInvariant /\ []FittingInvariant
  BY LifecycleHolds, FilesFit
<1>2. Init => RootedInvariant
  BY InitRooted
<1>3. LifecycleInvariant /\ FittingInvariant /\ RootedInvariant /\ [Next]_vars => RootedInvariant'
  BY NextRooted
<1> QED BY <1>1, <1>2, <1>3, PTL DEF Spec

(* Every file and directory has its directory, files are what OAW and its  *)
(* users write, records name releases (TypeOK).                            *)
THEOREM LifecycleTyped == Spec => []TypeOK
<1>1. LifecycleInvariant /\ FittingInvariant /\ RootedInvariant => TypeOK
  <2> SUFFICES ASSUME LifecycleInvariant, FittingInvariant, RootedInvariant PROVE TypeOK
    OBVIOUS
  <2>1. ASSUME NEW p \in DOMAIN tree.files \union tree.dirs PROVE Len(p) = 2 \/ Front(p) \in tree.dirs
    <3>1. p \in Path /\ Len(p) >= 2 /\ Parents(p) \subseteq tree.dirs
      BY DEF RootedInvariant, Rooted
    <3>2. Len(p) \in Nat
      BY <3>1 DEF Path
    <3>3. CASE Len(p) # 2
      <4>1. Len(p) > 2
        <5>1. \A n \in Nat : n >= 2 /\ n # 2 => n > 2
          OBVIOUS
        <5> QED BY <3>1, <3>2, <3>3, <5>1
      <4>2. Front(p) \in Parents(p)
        BY <3>1, <4>1, FrontParent
      <4> QED BY <3>1, <4>2
    <3> QED BY <3>3
  <2>2. \A p \in DOMAIN tree.files : FileTyped(tree.files[p])
    BY DEF FittingInvariant, Fitting, FileFits
  <2>3. \A i \in Installations : Installed(tree, i) => tree.record[i].version \in Versions
    BY DEF LifecycleInvariant, Good, Kept, Readable, ParseInstallationState, Installed
  <2>4. commands \in 0..MaxCommands /\ edits \in 0..MaxEdits /\ kills \in 0..MaxKills
    BY DEF RootedInvariant
  <2> QED BY <2>1, <2>2, <2>3, <2>4 DEF TypeOK, FileTyped
<1> QED BY <1>1, LifecycleHolds, FilesFit, TreeHangs, PTL
-----------------------------------------------------------------------------
(* An installation that check finds clean, or legacy and ready; an update   *)
(* of all its targets, to whatever release, without --force.               *)
Manageable(t, i) ==
    LET r == t.record[i]
    IN /\ Installed(t, i) /\ ParseInstallationState(i, r) /\ ValidateOwnedDirectories(i, r)
       /\ ValidatePolicySetFiles(i, t) /\ \A x \in r.targets : ValidateLiveTargetRecord(t, x)
       /\ r.legacy => \A x \in r.targets : \A e \in ArtifactsOf({x.target}) :
                         e.artifact # "router" => UntrackedArtifactClean(t, i, e)
Moving(t, i, q) ==
    /\ i \in Installations /\ q.owner = i /\ q.version \in Versions /\ ~q.force
    /\ q.targets = {x.target : x \in t.record[i].targets}
    /\ Manageable(t, i) /\ RecordFits(i, t.record[i])

(* What check says makes it so.                                            *)
LEMMA CheckedManageable ==
    ASSUME NEW t, NEW i \in Installations, Installed(t, i), Readable(i, t.record[i]),
           \A x \in t.record[i].targets : TargetStatus(t, i, x.target) \in {"clean", "upgrade-required"}
    PROVE  Manageable(t, i)
<1> DEFINE r == t.record[i]
           mine(id) == {x \in r.targets : x.target = id}
           natives(id) == {e \in ArtifactsOf({id}) : e.artifact # "router"}
<1>1. ParseInstallationState(i, r) /\ ValidateOwnedDirectories(i, r)
  BY DEF Installed, Readable
<1>2. ASSUME NEW x \in r.targets
      PROVE  /\ ValidatePolicySetFiles(i, t) /\ ValidateLiveTargetRecord(t, x)
             /\ r.legacy => \A e \in natives(x.target) : UntrackedArtifactClean(t, i, e)
  <2>1. x \in mine(x.target)
    OBVIOUS
  <2>2. TargetStatus(t, i, x.target) =
            IF ~ValidatePolicySetFiles(i, t) THEN "drift"
            ELSE IF \E y \in mine(x.target) : ~ValidateLiveTargetRecord(t, y) THEN "drift"
            ELSE IF ~r.legacy THEN "clean"
            ELSE IF \A e \in natives(x.target) : UntrackedArtifactClean(t, i, e) THEN "upgrade-required" ELSE "drift"
    BY <1>1, <2>1 DEF TargetStatus
  <2>3. TargetStatus(t, i, x.target) \in {"clean", "upgrade-required"}
    OBVIOUS
  <2> HIDE DEF mine, natives
  <2> QED BY <2>1, <2>2, <2>3
<1>3. PICK x \in r.targets : TRUE
  BY <1>1 DEF ParseInstallationState
<1> QED BY <1>1, <1>2, <1>3 DEF Manageable

(* Uninstall and update find it clean.                                     *)
LEMMA ManageableFine ==
    ASSUME NEW t, NEW i \in Installations, Manageable(t, i), RecordFits(i, t.record[i])
    PROVE  /\ ValidateClean(i, t)
           /\ PolicyDir(i) \in t.dirs
           /\ \A p \in DOMAIN t.record[i].policy \union {x.path : x \in t.record[i].targets} : Present(t, p)
<1> DEFINE r == t.record[i]
<1>1. PolicyPath(i) \in DOMAIN r.policy
  <2>1. r.version \in Versions /\ r.policy = SourcePolicySet(i, r.version)
    BY DEF Manageable, Installed, RecordFits
  <2> QED BY <2>1, ReleasePolicy
<1>2. \A p \in DOMAIN r.policy : Present(t, p)
  BY DEF Manageable, ValidatePolicySetFiles, PolicyFileClean
<1>3. \A x \in r.targets : Present(t, x.path)
  BY DEF Manageable, ValidateLiveTargetRecord
<1>4. ValidateClean(i, t)
  BY <1>1, <1>2 DEF ValidateClean, Manageable
<1>5. PolicyDir(i) \in t.dirs
  BY DEF Manageable, ValidatePolicySetFiles, ValidatePolicySetTree
<1> QED BY <1>2, <1>3, <1>4, <1>5

(* The artifacts of such an update are those of the targets on record; each *)
(* may be updated.                                                         *)
LEMMA MovingWanted ==
    ASSUME NEW t, NEW i, NEW q, Moving(t, i, q)
    PROVE  /\ Wanted(t, q) = q.targets /\ q.targets \subseteq Targets
           /\ \A x \in t.record[i].targets : \E e \in ArtifactsOf(q.targets) :
                 x.target = e.target /\ x.artifact = e.artifact
           /\ \A e \in ArtifactsOf(q.targets) :
                 e \in RegistryEntry /\ MayUpdate(t, i, e) /\ \E x \in t.record[i].targets : x.target = e.target
<1> DEFINE r == t.record[i]
<1>1. ValidateTargetRecords(i, r)
  BY DEF Moving, Manageable, ParseInstallationState
<1>2. Wanted(t, q) = q.targets
  BY DEF Wanted, Moving
<1>3. q.targets \subseteq Targets
  BY <1>1 DEF Moving, ValidateTargetRecords, Supported
<1>4. ASSUME NEW x \in r.targets
      PROVE  \E e \in ArtifactsOf(q.targets) : x.target = e.target /\ x.artifact = e.artifact
  <2>1. PICK e \in RegistryEntry : x.target = e.target /\ x.artifact = e.artifact
    BY DEF Moving, RecordFits, TargetFits
  <2>2. PICK n \in DOMAIN Registry : e = Registry[n]
    BY DEF RegistryEntry, ToSet
  <2>3. x.target \in q.targets /\ x.target \in Targets
    BY <1>3 DEF Moving
  <2>4. n \in {m \in InPlay : Registry[m].target \in q.targets}
    BY <2>1, <2>2, <2>3 DEF InPlay
  <2>5. e \in ArtifactsOf(q.targets)
    BY <2>2, <2>4 DEF ArtifactsOf
  <2> QED BY <2>1, <2>5
<1>5. ASSUME NEW e \in ArtifactsOf(q.targets)
      PROVE  e \in RegistryEntry /\ MayUpdate(t, i, e) /\ \E x \in r.targets : x.target = e.target
  <2>1. PICK n \in InPlay : e = Registry[n] /\ e.target \in q.targets
    BY DEF ArtifactsOf
  <2>2. PICK x \in r.targets : x.target = e.target
    BY <2>1 DEF Moving
  <2>3. CASE ~r.legacy
    <3>1. RecordedArtifact(r, e) # {}
      BY <1>1, <2>1, <2>2, <2>3 DEF ValidateTargetRecords
    <3> QED BY <3>1, <2>2, ArtifactsFinite DEF MayUpdate
  <2>4. CASE r.legacy
    <3>1. CASE e.artifact = "router"
      <4>1. x.artifact = "router"
        BY <1>1, <2>4 DEF ValidateTargetRecords
      <4>2. x \in RecordedArtifact(r, e)
        BY <2>2, <3>1, <4>1 DEF RecordedArtifact
      <4> QED BY <2>2, <4>2, ArtifactsFinite DEF MayUpdate
    <3>2. CASE e.artifact # "router"
      <4>1. e \in ArtifactsOf({x.target})
        BY <2>1, <2>2 DEF ArtifactsOf
      <4>2. UntrackedArtifactClean(t, i, e)
        BY <2>4, <3>2, <4>1 DEF Moving, Manageable
      <4> QED BY <2>2, <2>4, <3>2, <4>2, ArtifactsFinite DEF MayUpdate
    <3> QED BY <3>1, <3>2
  <2> QED BY <2>3, <2>4
<1> QED BY <1>2, <1>3, <1>4, <1>5

(* A renewed artifact lies at its destination, and has the origin of what   *)
(* is on record there; else that of what was found.                        *)
LEMMA ArtifactFollows ==
    ASSUME NEW t, NEW i \in Installations, ValidateTargetRecords(i, t.record[i]), RecordFits(i, t.record[i]),
           NEW e \in RegistryEntry, NEW v \in Versions,
           NEW y \in {InstalledArtifact(t, i, e, v), UpdatedArtifact(t, i, e, v)}
    PROVE  LET r == t.record[i]
           IN /\ y.target = e.target /\ y.artifact = e.artifact /\ y.mode = e.mode
              /\ y.path = ArtifactDestination(i, e) /\ y.checksum = v
              /\ \A z \in At(r, y.path) : y.origin = z.origin
              /\ At(r, y.path) = {} => y.origin = IF e.mode = "owned-file" \/ ~Present(t, y.path)
                                                  THEN "created-file" ELSE "existing-file"
<1> DEFINE r == t.record[i]
           p == ArtifactDestination(i, e)
           old == RecordedArtifact(r, e)
           c == CHOOSE x \in old : TRUE
<1>1. ValidateTargetRecords(i, r) /\ \A x \in r.targets : TargetFits(i, x)
  BY DEF RecordFits
<1>2. old # {} => UpdatedArtifact(t, i, e, v) = [c EXCEPT !.checksum = v]
  BY DEF UpdatedArtifact
<1>3. old = {} => UpdatedArtifact(t, i, e, v) = InstalledArtifact(t, i, e, v)
  BY DEF UpdatedArtifact
<1>4. CASE old # {} /\ y = [c EXCEPT !.checksum = v]
  <2>1. c \in r.targets /\ c.target = e.target /\ c.artifact = e.artifact
    BY <1>4 DEF RecordedArtifact
  <2> HIDE DEF c
  <2>2. DOMAIN c = {"target", "artifact", "path", "mode", "checksum", "origin"}
    BY <1>1, <2>1 DEF TargetFits
  <2>3. PICK f \in RegistryEntry : c.target = f.target /\ c.artifact = f.artifact
                                   /\ c.path = ArtifactDestination(i, f) /\ c.mode = f.mode
    BY <1>1, <2>1 DEF TargetFits
  <2>4. f = e
    BY <2>1, <2>3, RegistryKeys
  <2>5. /\ y.target = c.target /\ y.artifact = c.artifact /\ y.mode = c.mode
        /\ y.path = c.path /\ y.checksum = v /\ y.origin = c.origin
    BY <1>4, <2>2
  <2>6. c \in At(r, y.path) /\ \A z \in At(r, y.path) : y.origin = z.origin
    BY <1>1, <2>1, <2>5 DEF At, ValidateTargetRecords
  <2> QED BY <2>1, <2>3, <2>4, <2>5, <2>6
<1>5. CASE y = InstalledArtifact(t, i, e, v)
  <2>1. /\ y.target = e.target /\ y.artifact = e.artifact /\ y.mode = e.mode
        /\ y.path = p /\ y.checksum = v /\ y.origin = Origin(t, i, e)
    BY <1>5 DEF InstalledArtifact
  <2>2. ASSUME NEW z \in At(r, p) PROVE Origin(t, i, e) = z.origin
    <3> DEFINE k == CHOOSE x \in At(r, p) : TRUE
    <3>1. k \in At(r, p) /\ Origin(t, i, e) = k.origin
      BY <2>2 DEF Origin
    <3> HIDE DEF k
    <3> QED BY <1>1, <2>2, <3>1 DEF At, ValidateTargetRecords
  <2>3. At(r, p) = {} => Origin(t, i, e) = IF e.mode = "owned-file" \/ ~Present(t, p)
                                           THEN "created-file" ELSE "existing-file"
    BY DEF Origin
  <2> QED BY <2>1, <2>2, <2>3
<1> HIDE DEF c, old
<1> QED BY <1>2, <1>3, <1>4, <1>5

(* The record of an artifact after it: where it goes, and where it came     *)
(* from, which it shares with what is on record for the same file.         *)
LEMMA MovingArtifact ==
    ASSUME NEW t, NEW i, NEW q, Moving(t, i, q), NEW e \in ArtifactsOf(q.targets)
    PROVE  LET y == UpdatedArtifact(t, i, e, q.version)
               r == t.record[i]
           IN /\ y.target = e.target /\ y.artifact = e.artifact /\ y.mode = e.mode
              /\ y.path = ArtifactDestination(i, e) /\ y.checksum = q.version
              /\ \A z \in At(r, y.path) : y.origin = z.origin
              /\ At(r, y.path) = {} => y.origin = IF e.mode = "owned-file" \/ ~Present(t, y.path)
                                                  THEN "created-file" ELSE "existing-file"
<1>1. /\ ValidateTargetRecords(i, t.record[i]) /\ RecordFits(i, t.record[i])
      /\ i \in Installations /\ q.version \in Versions
  BY DEF Moving, Manageable, ParseInstallationState
<1>2. e \in RegistryEntry
  BY MovingWanted
<1> QED BY <1>1, <1>2, ArtifactFollows

(* The update records them and nothing else.                               *)
LEMMA MovingTargets ==
    ASSUME NEW t, NEW i, NEW q, Moving(t, i, q)
    PROVE  /\ Renewed(t, q) = {UpdatedArtifact(t, i, e, q.version) : e \in ArtifactsOf(q.targets)}
           /\ UpdateRecord(t, q).targets = Renewed(t, q)
<1> DEFINE r == t.record[i]
           S == Renewed(t, q)
           kept == {x \in r.targets : ~\E y \in S : y.target = x.target /\ y.artifact = x.artifact}
           newer(x) == IF \E y \in S : y.path = x.path THEN (CHOOSE y \in S : y.path = x.path).checksum ELSE x.checksum
<1>1. q.owner = i /\ S = {UpdatedArtifact(t, i, e, q.version) : e \in ArtifactsOf(q.targets)}
  <2>1. q.owner = i /\ Wanted(t, q) = q.targets
    BY MovingWanted DEF Moving
  <2> QED BY <2>1 DEF Renewed
<1>2. UpdateRecord(t, q).targets = MergeRecords(r.targets, S)
  BY <1>1 DEF UpdateRecord, Renewed
<1>3. MergeRecords(r.targets, S) = S \union {[x EXCEPT !.checksum = newer(x)] : x \in kept}
  BY DEF MergeRecords
<1>4. ASSUME NEW x \in r.targets PROVE \E y \in S : y.target = x.target /\ y.artifact = x.artifact
  <2>1. PICK e \in ArtifactsOf(q.targets) : x.target = e.target /\ x.artifact = e.artifact
    BY MovingWanted
  <2> QED BY <1>1, <2>1, MovingArtifact
<1>5. kept = {}
  BY <1>4
<1> HIDE DEF S, kept, newer
<1>6. {[x EXCEPT !.checksum = newer(x)] : x \in kept} = {}
  BY <1>5
<1> QED BY <1>1, <1>2, <1>3, <1>6 DEF S

(* A file of such an update that is not there is in nobody's record, and    *)
(* OAW creates it.                                                         *)
LEMMA MovingCreated ==
    ASSUME NEW t, NEW i, NEW q, Moving(t, i, q), NEW y \in Renewed(t, q), ~Present(t, y.path)
    PROVE  y.origin = "created-file" /\ t.record[i].legacy
<1> DEFINE r == t.record[i]
<1>1. PICK e \in ArtifactsOf(q.targets) : y = UpdatedArtifact(t, i, e, q.version)
  BY MovingTargets
<1>2. At(r, y.path) = {}
  <2>1. \A x \in r.targets : Present(t, x.path)
    BY ManageableFine DEF Moving
  <2> QED BY <2>1 DEF At
<1>3. y.origin = "created-file"
  <2>1. y.origin = IF e.mode = "owned-file" \/ ~Present(t, y.path) THEN "created-file" ELSE "existing-file"
    BY <1>1, <1>2, MovingArtifact
  <2> QED BY <2>1
<1>4. RecordedArtifact(r, e) = {}
  <2>1. SUFFICES ASSUME NEW x \in RecordedArtifact(r, e) PROVE FALSE
    OBVIOUS
  <2>2. x \in r.targets /\ x.target = e.target /\ x.artifact = e.artifact
    BY DEF RecordedArtifact
  <2>3. PICK f \in RegistryEntry : /\ x.target = f.target /\ x.artifact = f.artifact
                                   /\ x.path = ArtifactDestination(i, f)
    BY <2>2 DEF Moving, RecordFits, TargetFits
  <2>4. f = e
    BY <2>2, <2>3, MovingWanted, RegistryKeys
  <2>5. x.path = y.path
    BY <1>1, <2>3, <2>4, MovingArtifact
  <2> QED BY <1>2, <2>2, <2>5 DEF At
<1>5. MayUpdate(t, i, e)
  BY MovingWanted
<1> QED BY <1>3, <1>4, <1>5 DEF MayUpdate

(* The record of such an update can be written.                            *)
LEMMA MovingRecord ==
    ASSUME NEW t, Rooted(t), NEW i, NEW q, Moving(t, i, q)
    PROVE  SerializeInstallState(i, UpdateRecord(t, q)) /\ ValidateOwnedDirectories(i, UpdateRecord(t, q))
<1> DEFINE r == t.record[i]
           v == q.version
           R == UpdateRecord(t, q)
           A == ArtifactsOf(q.targets)
           f(e) == UpdatedArtifact(t, i, e, v)
           fresh == IF r.legacy THEN MissingNamespaces(t, i) \union MissingParents(t, {x.path : x \in Renewed(t, q)}) ELSE {}
<1>1. Renewed(t, q) = {f(e) : e \in A} /\ R.targets = Renewed(t, q)
  BY MovingTargets
<1>2. R.version = v /\ ~R.legacy /\ R.policy = SourcePolicySet(i, v) /\ R.dirs = r.dirs \union fresh
  <2>1. q.owner = i
    BY DEF Moving
  <2> QED BY <2>1 DEF UpdateRecord, Renewed
<1>3. /\ v \in Versions /\ i \in Installations /\ ValidateTargetRecords(i, r) /\ r.targets # {}
      /\ ValidateOwnedDirectories(i, r)
  BY DEF Moving, Manageable, ParseInstallationState
<1>4. ASSUME NEW e \in A
      PROVE  /\ f(e).target = e.target /\ f(e).artifact = e.artifact /\ f(e).mode = e.mode
             /\ f(e).path = ArtifactDestination(i, e) /\ f(e).checksum = v
             /\ \A z \in At(r, f(e).path) : f(e).origin = z.origin
             /\ At(r, f(e).path) = {} => f(e).origin = IF e.mode = "owned-file" \/ ~Present(t, f(e).path)
                                                       THEN "created-file" ELSE "existing-file"
  BY MovingArtifact
<1>5. ASSUME NEW e \in A PROVE e \in RegistryEntry /\ e.target \in Supported(i)
  <2>1. e \in RegistryEntry /\ \E x \in r.targets : x.target = e.target
    BY MovingWanted
  <2> QED BY <1>3, <2>1 DEF ValidateTargetRecords
<1>6. \A x \in r.targets : \E e \in A : /\ x.target = e.target /\ x.artifact = e.artifact
                                        /\ x.mode = e.mode /\ x.path = f(e).path /\ x.origin = f(e).origin
  <2>1. TAKE x \in r.targets
  <2>2. PICK e \in A : x.target = e.target /\ x.artifact = e.artifact
    BY MovingWanted
  <2>3. PICK g \in RegistryEntry : /\ x.target = g.target /\ x.artifact = g.artifact
                                   /\ x.path = ArtifactDestination(i, g) /\ x.mode = g.mode
    BY DEF Moving, RecordFits, TargetFits
  <2>4. e = g
    BY <1>5, <2>2, <2>3, RegistryKeys
  <2>5. x.path = f(e).path
    BY <1>4, <2>3, <2>4
  <2>6. x \in At(r, f(e).path)
    BY <2>5 DEF At
  <2> HIDE DEF f
  <2> QED BY <1>4, <2>2, <2>3, <2>4, <2>5, <2>6
<1> HIDE DEF R, f, A, fresh
<1>7. ASSUME NEW e \in A, NEW g \in A, f(e).path = f(g).path
      PROVE  f(e).mode = f(g).mode /\ f(e).origin = f(g).origin /\ f(e).checksum = f(g).checksum
  <2>1. e.mode \in {"owned-file", "managed-block"} /\ g.mode \in {"owned-file", "managed-block"}
    BY <1>5 DEF RegistryEntry, IsEntry
  <2>2. e.mode = "managed-block" <=> g.mode = "managed-block"
    BY <1>3, <1>4, <1>5, <1>7, DestinationSorted
  <2>3. e.mode = g.mode
    BY <2>1, <2>2
  <2>4. f(e).origin = f(g).origin
    <3>1. CASE At(r, f(e).path) = {}
      BY <1>4, <1>7, <2>3, <3>1
    <3>2. CASE At(r, f(e).path) # {}
      <4>1. PICK z \in At(r, f(e).path) : TRUE
        BY <3>2
      <4> QED BY <1>4, <1>7, <4>1
    <3> QED BY <3>1, <3>2
  <2> QED BY <1>4, <2>3, <2>4
<1>8. ASSUME NEW x \in R.targets
      PROVE  /\ x.target \in Supported(i)
             /\ x.mode = "owned-file" => x.origin = "created-file"
             /\ RecordedArtifact(R, x) = {x}
             /\ \A y \in At(R, x.path) : x.mode = y.mode /\ x.origin = y.origin /\ x.checksum = y.checksum
  <2>1. PICK e \in A : x = f(e)
    BY <1>1
  <2>2. ASSUME NEW y \in R.targets, y.target = x.target, y.artifact = x.artifact PROVE y = x
    <3>1. PICK g \in A : y = f(g)
      BY <1>1
    <3>2. g = e
      BY <1>4, <1>5, <2>1, <2>2, <3>1, RegistryKeys
    <3> QED BY <2>1, <3>1, <3>2
  <2>3. RecordedArtifact(R, x) = {x}
    BY <2>2 DEF RecordedArtifact
  <2>4. ASSUME NEW y \in At(R, x.path) PROVE x.mode = y.mode /\ x.origin = y.origin /\ x.checksum = y.checksum
    <3>1. PICK g \in A : y = f(g) /\ y.path = x.path
      BY <1>1 DEF At
    <3> QED BY <1>7, <2>1, <3>1
  <2>5. x.target \in Supported(i)
    BY <1>4, <1>5, <2>1
  <2>6. ASSUME x.mode = "owned-file" PROVE x.origin = "created-file"
    <3>1. CASE At(r, x.path) = {}
      BY <1>4, <2>1, <2>6, <3>1
    <3>2. CASE At(r, x.path) # {}
      <4>1. PICK z \in r.targets : z \in At(r, x.path) /\ z.path = x.path
        BY <3>2 DEF At
      <4>2. PICK g \in A : z.mode = g.mode /\ z.path = f(g).path /\ z.origin = f(g).origin
        BY <1>6
      <4>3. z.mode = x.mode /\ x.origin = z.origin
        BY <1>4, <1>7, <2>1, <4>1, <4>2
      <4>4. z.origin = "created-file"
        BY <1>3, <2>6, <4>3 DEF ValidateTargetRecords
      <4> QED BY <4>3, <4>4
    <3> QED BY <3>1, <3>2
  <2> QED BY <2>3, <2>4, <2>5, <2>6
<1>9. ASSUME NEW n \in InPlay, \E x \in R.targets : x.target = Registry[n].target
      PROVE  RecordedArtifact(R, Registry[n]) # {}
  <2>1. PICK e \in A : e.target = Registry[n].target
    BY <1>1, <1>4, <1>9
  <2>2. e.target \in q.targets
    BY DEF A, ArtifactsOf
  <2>3. Registry[n] \in A
    BY <2>1, <2>2 DEF A, ArtifactsOf
  <2>4. f(Registry[n]) \in RecordedArtifact(R, Registry[n])
    BY <1>1, <1>4, <2>3 DEF RecordedArtifact
  <2> QED BY <2>4
<1>10. ValidateTargetRecords(i, R)
  BY <1>2, <1>8, <1>9 DEF ValidateTargetRecords
<1>11. DOMAIN R.policy # {} /\ R.targets # {}
  <2>1. \E e : e \in A
    BY <1>3, <1>6
  <2> QED BY <1>1, <1>2, <1>3, <2>1, ReleasePolicy
<1>12. SerializeInstallState(i, R)
  BY <1>2, <1>3, <1>10, <1>11 DEF SerializeInstallState, ValidatePolicyFileRecords
<1>13. ASSUME NEW d \in R.dirs PROVE OwnedDirectory(i, R.targets, d)
  <2>1. CASE d \in r.dirs
    <3>1. OwnedDirectory(i, r.targets, d)
      BY <1>3, <2>1 DEF ValidateOwnedDirectories
    <3>2. ASSUME NEW x \in r.targets, x.origin = "created-file", Below(d, x.path)
          PROVE  \E y \in R.targets : y.origin = "created-file" /\ Below(d, y.path)
      <4>1. PICK e \in A : x.path = f(e).path /\ x.origin = f(e).origin
        BY <1>6
      <4> QED BY <1>1, <3>2, <4>1
    <3> QED BY <3>1, <3>2 DEF OwnedDirectory
  <2>2. CASE d \in fresh /\ d \in MissingNamespaces(t, i)
    <3>1. PolicyDir(i) \in t.dirs
      BY ManageableFine DEF Moving
    <3>2. d \in Namespaces(i)
      BY <2>2, <3>1 DEF MissingNamespaces, Namespaces
    <3> QED BY <1>3, <3>2, NamespacesOf DEF OwnedDirectory
  <2>3. CASE d \in fresh /\ d \notin MissingNamespaces(t, i)
    <3>1. PICK x \in Renewed(t, q) : d \in Parents(x.path) /\ d \notin t.dirs
      BY <2>3 DEF fresh, MissingParents
    <3>2. PICK e \in A : x = f(e)
      BY <1>1
    <3>3. ~Present(t, x.path)
      BY <3>1 DEF Rooted, Present
    <3>4. x.origin = "created-file"
      BY <3>3, MovingCreated
    <3>5. x.path \in Path
      BY <1>3, <1>4, <1>5, <3>2, ArtifactDestinationOf
    <3>6. Below(d, x.path)
      BY <3>1, <3>5, ParentsOf
    <3> QED BY <1>1, <3>4, <3>6 DEF OwnedDirectory
  <2> QED BY <1>2, <2>1, <2>2, <2>3
<1> QED BY <1>12, <1>13 DEF R, ValidateOwnedDirectories

(* The directories above the namespaces are no project's.                  *)
LEMMA NamespaceRoots ==
    /\ ConfigDir[1] = "config"
    /\ \A d \in {StateDir, InstallationsDir, ProjectsDir} : d[1] = "state"
    /\ \A i \in Installations : "state" \notin Scope(i) /\ ("config" \in Scope(i) => i = "user")
<1>1. "state" \in Name /\ "oaw" \in Name /\ "installations" \in Name /\ "projects" \in Name
  BY DEF Name
<1>2. ConfigDir[1] = "config" /\ StateDir[1] = "state"
  BY DEF ConfigDir, StateDir
<1>3. InstallationsDir = <<"state", "oaw", "installations">>
  BY <1>1, Joined2 DEF InstallationsDir, StateDir
<1>4. ProjectsDir = <<"state", "oaw", "installations", "projects">>
  BY <1>1, <1>3, Joined3 DEF ProjectsDir
<1>5. \A i \in Installations : "state" \notin Scope(i) /\ ("config" \in Scope(i) => i = "user")
  BY InstallationsAssumption DEF Scope
<1> QED BY <1>2, <1>3, <1>4, <1>5

(* A directory missing above a file of such an update is not on record.    *)
LEMMA MovingUnrecorded ==
    ASSUME NEW t, Rooted(t), NEW i, NEW q, Moving(t, i, q), Kept(i, t.record[i]),
           NEW y \in Renewed(t, q), NEW d \in Parents(y.path), d \notin t.dirs
    PROVE  d \notin t.record[i].dirs
<1> DEFINE r == t.record[i]
<1>1. i \in Installations /\ ValidateOwnedDirectories(i, r) /\ PolicyDir(i) \in t.dirs
  BY ManageableFine DEF Moving, Manageable
<1>2. PICK e \in ArtifactsOf(q.targets) : e \in RegistryEntry /\ y.path = ArtifactDestination(i, e) /\ e.target \in Supported(i)
  <2>1. PICK e \in ArtifactsOf(q.targets) : y = UpdatedArtifact(t, i, e, q.version)
    BY MovingTargets
  <2>2. e \in RegistryEntry /\ \E x \in r.targets : x.target = e.target
    BY <2>1, MovingWanted
  <2>3. e.target \in Supported(i)
    BY <2>2 DEF Moving, Manageable, ParseInstallationState, ValidateTargetRecords
  <2> QED BY <2>1, <2>2, <2>3, MovingArtifact
<1>3. y.path \in Path /\ y.path[1] \in Scope(i)
  <2>1. PICK n \in InPlay : e = Registry[n]
    BY <1>2 DEF ArtifactsOf
  <2>2. TargetSupportsScope(i, e)
    BY <1>2, <2>1 DEF Supported
  <2> QED BY <1>1, <1>2, <2>2, ArtifactDestinationOf
<1>4. d \in Path /\ Len(d) >= 2 /\ d[1] = y.path[1] /\ Below(d, y.path)
  BY <1>3, ParentsOf
<1> SUFFICES ASSUME d \in r.dirs PROVE FALSE
  OBVIOUS
<1>5. OwnedDirectory(i, r.targets, d)
  BY <1>1 DEF ValidateOwnedDirectories
<1>6. CASE \E x \in r.targets : Below(d, x.path)
  <2>1. PICK x \in r.targets : Below(d, x.path)
    BY <1>6
  <2>2. x.path \in DOMAIN t.files
    BY ManageableFine DEF Moving, Present
  <2>3. x.path \in Path /\ Parents(x.path) \subseteq t.dirs
    BY <2>2 DEF Rooted
  <2> QED BY <1>4, <2>1, <2>3, BelowParents
<1>7. CASE IsPrefix(d, PolicyDir(i))
  <2>1. CASE d = PolicyDir(i)
    BY <1>1, <2>1
  <2>2. CASE d # PolicyDir(i)
    <3>1. Below(d, PolicyDir(i))
      BY <1>7, <2>2 DEF Below, IsStrictPrefix
    <3>2. PolicyDir(i) \in Path /\ Parents(PolicyDir(i)) \subseteq t.dirs
      BY <1>1 DEF Rooted
    <3> QED BY <1>4, <3>1, <3>2, BelowParents
  <2> QED BY <2>1, <2>2
<1>8. CASE Below(PolicyDir(i), d)
  <2>1. PolicyDir(i) \in Path /\ IsPrefix(PolicyDir(i), d)
    BY <1>1, <1>8, PolicyDirOf DEF Below, IsStrictPrefix
  <2>2. IsPrefix(PolicyDir(i), y.path)
    BY <1>3, <1>4, <2>1, PrefixBelow
  <2> QED BY <1>1, <1>2, <2>2, DestinationApart
<1>9. CASE d \in {ConfigDir, StateDir, InstallationsDir, ProjectsDir}
  <2>1. d[1] # "state" /\ (d[1] = "config" => i = "user")
    BY <1>1, <1>3, <1>4, NamespaceRoots
  <2>2. d = ConfigDir /\ i = "user"
    BY <1>9, <2>1, NamespaceRoots
  <2> QED BY <1>1, <2>2 DEF PolicyDir
<1> QED BY <1>5, <1>6, <1>7, <1>8, <1>9 DEF OwnedDirectory, InstallNamespaceDirectory, IsPolicySetDirectory

(* The update can be applied, as far as directories go.                    *)
LEMMA MovingApplicable ==
    ASSUME SameDirectories, NEW t, Good(t), Fitting(t), Rooted(t), NEW i, NEW q, Moving(t, i, q)
    PROVE  Applicable(t, UpdateSteps(t, q))
<1> DEFINE r == t.record[i]
           R == UpdateRecord(t, q)
           X == UpdatePart(t, q)
           planned == R.dirs \ r.dirs
           steps == UpdateSteps(t, q)
<1>1. i \in Installations /\ q.owner = i /\ q.version \in Versions /\ ~q.force /\ Installed(t, i)
  BY DEF Moving, Manageable
<1>2. Kept(i, r) /\ RecordFits(i, r)
  BY <1>1 DEF Good, Fitting
<1>3. SerializeInstallState(i, R) /\ ValidateOwnedDirectories(i, R)
  BY MovingRecord
<1>4. Sized(R) /\ InScope(i, R)
  BY <1>1, <1>2, <1>3, UpdateRecordOf DEF Kept
<1>5. PICK plan : Performs(plan, X, planned) /\ steps = WithBackup(t, q, plan)
  BY <1>1, <1>2, <1>4, UpdateStepsIn DEF Kept
<1>6. plan \in Seq(X \union Made(planned \intersect Above(X))) /\ X \union Made(planned \intersect Above(X)) \subseteq ToSet(plan)
  BY <1>5 DEF Performs
<1>7. /\ R.policy = SourcePolicySet(i, q.version)
      /\ R.dirs = r.dirs \union IF r.legacy THEN MissingNamespaces(t, i) \union MissingParents(t, {x.path : x \in Renewed(t, q)}) ELSE {}
  BY <1>1 DEF UpdateRecord, Renewed
<1>8. ASSUME NEW x \in X, x.op = "write"
      PROVE  \/ \E y \in Renewed(t, q) : x.path = y.path
             \/ x.path \in DOMAIN SourcePolicySet(i, q.version)
  <2>1. CASE x \in PolicyWrites(i, R)
    <3>1. PICK p \in DOMAIN R.policy \union {PolicyPath(i)} : x = Write(p, Written(R.version))
      BY <2>1 DEF PolicyWrites
    <3>2. x.path = p
      BY <3>1 DEF Write
    <3> QED BY <1>1, <1>7, <3>1, <3>2, ReleasePolicy
  <2>2. CASE x \in Rendered(t, Renewed(t, q), q.version)
    BY <2>2 DEF Rendered, Write
  <2>3. CASE x \in {Record(i, R)} \union {Unlink(p) : p \in Obsolete(r, R)}
    BY <1>8, <2>3 DEF Record, Unlink
  <2> QED BY <1>1, <2>1, <2>2, <2>3 DEF UpdatePart
<1>9. ASSUME NEW y \in Renewed(t, q), NEW d \in Parents(y.path), d \notin t.dirs PROVE d \in planned
  <2>1. ~Present(t, y.path)
    BY <1>9 DEF Rooted, Present
  <2>2. r.legacy
    BY <2>1, MovingCreated
  <2>3. d \in MissingParents(t, {x.path : x \in Renewed(t, q)})
    BY <1>9 DEF MissingParents
  <2>4. d \notin r.dirs
    BY <1>2, <1>9, MovingUnrecorded
  <2> QED BY <1>7, <2>2, <2>3, <2>4
<1>10. ASSUME NEW p \in DOMAIN SourcePolicySet(i, q.version), NEW d \in Parents(p) PROVE d \in t.dirs
  <2>1. PolicyDir(i) \in t.dirs /\ \A f \in DOMAIN r.policy : f \in DOMAIN t.files
    BY <1>1, <1>2, ManageableFine DEF Moving, Present
  <2>2. p \in Path /\ Placed(i, p)
    BY <1>1, PolicyPlaced
  <2>3. PolicyDir(i) \in Parents(p) /\ d \in Path /\ Len(d) >= 2 /\ PolicyDir(i) \in Path
    BY <1>1, <2>2, PlacedLong, ParentsOf, PolicyDirOf
  <2>4. d = PolicyDir(i) \/ d \in Parents(PolicyDir(i)) \/ IsPrefix(PolicyDir(i), d)
    BY <2>2, <2>3, ParentsComparable
  <2>5. CASE d \in Parents(PolicyDir(i))
    BY <2>1, <2>5 DEF Rooted
  <2>6. CASE d # PolicyDir(i) /\ IsPrefix(PolicyDir(i), d)
    <3>1. Below(PolicyDir(i), d)
      BY <2>6 DEF Below, IsStrictPrefix
    <3>2. d \in PolicyDirectories(i, DOMAIN SourcePolicySet(i, q.version))
      BY <3>1 DEF PolicyDirectories
    <3>3. r.version \in Versions /\ r.policy = SourcePolicySet(i, r.version)
      BY <1>1, <1>2 DEF RecordFits, Installed
    <3>4. d \in PolicyDirectories(i, DOMAIN r.policy)
      BY <1>1, <3>2, <3>3 DEF SameDirectories
    <3>5. PICK f \in DOMAIN r.policy : d \in Parents(f)
      BY <2>6, <3>4 DEF PolicyDirectories
    <3> QED BY <2>1, <3>5 DEF Rooted
  <2> QED BY <2>1, <2>4, <2>5, <2>6
<1> HIDE DEF X, planned, steps
<1>11. steps = plan
  <2>1. ~BackupRequired(t, q)
    BY <1>1 DEF BackupRequired
  <2>2. <<>> \o plan = plan
    BY <1>6
  <2> QED BY <1>5, <2>1, <2>2 DEF WithBackup
<1>12. ASSUME NEW n \in DOMAIN plan, plan[n].op = "write", NEW d \in Parents(plan[n].path), d \notin t.dirs
       PROVE  Contains(plan, Mkdir(d))
  <2>1. plan[n] \in X
    <3> DEFINE Y == X \union Made(planned \intersect Above(X))
    <3>1. plan \in Seq(Y)
      BY <1>6
    <3> HIDE DEF Y
    <3>2. plan[n] \in Y
      BY <3>1
    <3> QED BY <1>12, <3>2 DEF Y, Made, Mkdir
  <2>2. d \in planned
    BY <1>8, <1>9, <1>10, <1>12, <2>1
  <2>3. Mkdir(d) \in ToSet(plan)
    BY <1>6, <1>12, <2>1, <2>2 DEF Made, Above
  <2>4. DOMAIN plan = 1..Len(plan)
    BY <1>6
  <2> QED BY <2>3, <2>4 DEF Contains, ToSet
<1>13. Applicable(t, plan)
  BY <1>12 DEF Applicable
<1> QED BY <1>11, <1>13 DEF steps

(* Both commands are accepted, and the update can be applied.              *)
LEMMA ManageableAccepted ==
    ASSUME SameDirectories, NEW t, Good(t), Fitting(t), Rooted(t), NEW i \in Installations, Manageable(t, i)
    PROVE  LET T == {x.target : x \in t.record[i].targets}
           IN /\ Accepted(t, Request("uninstall", i, T, FALSE, 1))
              /\ \A v \in Versions :
                    LET q == Request("update", i, T, FALSE, v)
                    IN Accepted(t, q) /\ Applicable(t, Steps(t, q))
<1> DEFINE r == t.record[i]
           T == {x.target : x \in r.targets}
<1>1. RecordFits(i, r) /\ ParseInstallationState(i, r) /\ Installed(t, i)
  BY DEF Fitting, Manageable
<1>2. ValidateClean(i, t)
  BY <1>1, ManageableFine
<1>3. Accepted(t, Request("uninstall", i, T, FALSE, 1))
  <2> DEFINE q == Request("uninstall", i, T, FALSE, 1)
  <2>1. q.owner = i /\ q.kind = "uninstall" /\ ~q.force /\ q.targets = T
    BY DEF Request
  <2> HIDE DEF q
  <2>2. ForceVerdict(t, q) = "fine"
    BY <1>2, <2>1 DEF ForceVerdict
  <2>3. Remaining(t, q) = {}
    BY <2>1 DEF Remaining
  <2>4. UninstallAccepted(t, q)
    BY <1>1, <2>1, <2>2, <2>3 DEF UninstallAccepted
  <2>5. Accepted(t, q)
    BY <1>1, <2>1, <2>4 DEF Accepted, Legible
  <2> QED BY <2>5 DEF q
<1>4. ASSUME NEW v \in Versions
      PROVE  LET q == Request("update", i, T, FALSE, v) IN Accepted(t, q) /\ Applicable(t, Steps(t, q))
  <2> DEFINE q == Request("update", i, T, FALSE, v)
  <2>1. q.owner = i /\ q.kind = "update" /\ ~q.force /\ q.targets = T /\ q.version = v
    BY DEF Request
  <2> HIDE DEF q
  <2>2. ForceVerdict(t, q) = "fine"
    BY <1>2, <2>1 DEF ForceVerdict
  <2>3. Moving(t, i, q)
    BY <1>1, <2>1 DEF Moving
  <2>4. Wanted(t, q) = T /\ \A e \in ArtifactsOf(Wanted(t, q)) : MayUpdate(t, i, e)
    BY <2>1, <2>3, MovingWanted
  <2>5. SerializeInstallState(i, UpdateRecord(t, q)) /\ ValidateOwnedDirectories(i, UpdateRecord(t, q))
    BY <2>3, MovingRecord
  <2>6. UpdateAccepted(t, q)
    BY <1>1, <2>1, <2>2, <2>4, <2>5 DEF UpdateAccepted
  <2>7. Accepted(t, q)
    BY <1>1, <2>1, <2>6 DEF Accepted, Legible
  <2>8. Steps(t, q) = UpdateSteps(t, q)
    BY <2>1, <2>2 DEF Steps, Manual
  <2>9. Applicable(t, Steps(t, q))
    BY <2>3, <2>8, MovingApplicable
  <2> QED BY <2>7, <2>9 DEF q
<1> QED BY <1>3, <1>4

(* An installation that check finds clean, or legacy and ready, can be      *)
(* uninstalled, and updated to any release, without --force                *)
(* (CleanMeansManageable), if all releases have the same directories.      *)
THEOREM CleanIsManageable == SameDirectories => (Spec => []CleanMeansManageable)
<1> SUFFICES ASSUME SameDirectories PROVE Spec => []CleanMeansManageable
  OBVIOUS
<1>1. LifecycleInvariant /\ FittingInvariant /\ RootedInvariant => CleanMeansManageable
  <2> SUFFICES ASSUME LifecycleInvariant, FittingInvariant, RootedInvariant, NEW i \in Installations,
                      Installed(tree, i),
                      \A id \in InstalledTargets(i) : TargetStatus(tree, i, id) \in {"clean", "upgrade-required"}
               PROVE  /\ Accepted(tree, Request("uninstall", i, InstalledTargets(i), FALSE, 1))
                      /\ \A v \in Versions :
                            LET q == Request("update", i, InstalledTargets(i), FALSE, v)
                            IN Accepted(tree, q) /\ Applicable(tree, Steps(tree, q))
    BY DEF CleanMeansManageable
  <2>1. Good(tree) /\ Fitting(tree) /\ Rooted(tree) /\ Readable(i, tree.record[i])
    BY DEF LifecycleInvariant, FittingInvariant, RootedInvariant, Good, Kept
  <2>2. InstalledTargets(i) = {x.target : x \in tree.record[i].targets}
    BY DEF InstalledTargets
  <2>3. Manageable(tree, i)
    BY <2>1, <2>2, CheckedManageable
  <2> QED BY <2>1, <2>2, <2>3, ManageableAccepted
<1> QED BY <1>1, LifecycleHolds, FilesFit, TreeHangs, PTL
-----------------------------------------------------------------------------
(* Where files of OAW's go.  A file of OAW's has a body.                   *)
Belongs(i, p) == \/ p \in Path /\ Placed(i, p) /\ Supported(i) # {}
                 \/ \E e \in RegistryEntry : e.target \in Supported(i) /\ p = ArtifactDestination(i, e)
Rendering(t) == {p \in DOMAIN t.files : t.files[p].body # 0}

(* It goes into the scope of its installation.                             *)
LEMMA BelongsScope ==
    ASSUME NEW i \in Installations, NEW p, Belongs(i, p)
    PROVE  p \in Path /\ p[1] \in Scope(i)
<1>1. CASE p \in Path /\ Placed(i, p)
  <2>1. PolicyDir(i) \in Path /\ Len(PolicyDir(i)) >= 2 /\ PolicyDir(i)[1] \in Scope(i)
    BY PolicyDirOf
  <2>2. IsPrefix(PolicyDir(i), p)
    BY <1>1 DEF Placed, Below, IsStrictPrefix
  <2>3. Len(PolicyDir(i)) >= 1
    <3>1. Len(PolicyDir(i)) \in Nat
      BY <2>1 DEF Path
    <3> QED BY <2>1, <3>1
  <2>4. p[1] = PolicyDir(i)[1]
    BY <1>1, <2>1, <2>2, <2>3, PrefixRoot
  <2> QED BY <1>1, <2>1, <2>4
<1>2. CASE \E e \in RegistryEntry : e.target \in Supported(i) /\ p = ArtifactDestination(i, e)
  <2>1. PICK e \in RegistryEntry : e.target \in Supported(i) /\ p = ArtifactDestination(i, e)
    BY <1>2
  <2>2. PICK n \in DOMAIN Registry : e = Registry[n]
    BY DEF RegistryEntry, ToSet
  <2>3. TargetSupportsScope(i, e)
    BY <2>1, <2>2 DEF Supported, InPlay
  <2> QED BY <2>1, <2>3, ArtifactDestinationOf
<1> QED BY <1>1, <1>2 DEF Belongs

(* So do a recorded target and what the Policy Set of a record holds.      *)
LEMMA RecordedBelongs ==
    ASSUME NEW i \in Installations, NEW r, RecordFits(i, r), r # NoRecord => ParseInstallationState(i, r)
    PROVE  \A p \in DOMAIN r.policy \union {x.path : x \in r.targets} : Belongs(i, p)
<1>1. ASSUME NEW p \in DOMAIN r.policy PROVE Belongs(i, p)
  <2>1. r # NoRecord
    BY DEF NoRecord
  <2>2. Supported(i) # {}
    BY <2>1 DEF ParseInstallationState, ValidateTargetRecords
  <2>3. p \in Path /\ Placed(i, p)
    BY FittingPolicy
  <2> QED BY <2>2, <2>3 DEF Belongs
<1>2. ASSUME NEW x \in r.targets PROVE Belongs(i, x.path)
  <2>1. x.target \in Supported(i)
    <3>1. r # NoRecord
      BY DEF NoRecord
    <3> QED BY <3>1 DEF ParseInstallationState, ValidateTargetRecords
  <2>2. PICK e \in RegistryEntry : x.target = e.target /\ x.path = ArtifactDestination(i, e)
    BY DEF RecordFits, TargetFits
  <2> QED BY <2>1, <2>2 DEF Belongs
<1> QED BY <1>1, <1>2

(* Steps touch what belongs to an installation, record R of it and remove   *)
(* from D at most.                                                         *)
Belonging(i, steps, R, D) ==
    \E Y : steps \in Seq(Y) /\ \A y \in Y : /\ Touches(y) => Belongs(i, y.path)
                                            /\ y.op = "record" => y = Record(i, R)
                                            /\ y.op = "remove" => y.path \in D

(* What a renewal touches belongs to the installation.                     *)
LEMMA RenewalBelongs ==
    ASSUME NEW i \in Installations, NEW seen, NEW S, NEW R, NEW D, Renewing(i, S, R, D), NEW planned,
           Supported(i) # {}, \A x \in S : x.target \in Supported(i),
           NEW steps, Renews(steps, Renewal(i, seen, S, R, D), planned)
    PROVE  Belonging(i, steps, R, D)
<1> DEFINE X == Renewal(i, seen, S, R, D)
<1>1. PICK B : Copying(B) /\ steps \in Seq(X \union Made(planned \intersect Above(X)) \union B)
  BY DEF Renews
<1> DEFINE Y == X \union Made(planned \intersect Above(X)) \union B
<1>2. ASSUME NEW y \in Y
      PROVE  /\ Touches(y) => RenewedTarget(i, seen, S, R, y) \/ RenewedFile(i, R, y) \/ DroppedFile(i, R, D, y)
             /\ y.op = "record" => y = Record(i, R)
  <2> HIDE DEF X
  <2> QED BY <1>1, <1>2, RenewalTouches DEF X
<1>3. ASSUME NEW y \in Y, RenewedTarget(i, seen, S, R, y) PROVE Belongs(i, y.path) /\ y.op = "write"
  <2>1. PICK x \in S : y = Write(x.path, Render(seen, x, R.version))
    BY <1>3 DEF RenewedTarget
  <2>2. y.path = x.path /\ y.op = "write"
    BY <2>1 DEF Write
  <2>3. PICK e \in RegistryEntry : x.target = e.target /\ x.path = ArtifactDestination(i, e)
    BY DEF Renewing, TargetFits
  <2> QED BY <2>2, <2>3 DEF Belongs
<1>4. ASSUME NEW y \in Y, RenewedFile(i, R, y) PROVE Belongs(i, y.path) /\ y.op = "write"
  <2>1. y.path \in DOMAIN SourcePolicySet(i, R.version) /\ R.version \in Versions /\ y = Write(y.path, Written(R.version))
    BY <1>4 DEF RenewedFile, Renewing
  <2>2. y.op = "write"
    BY <2>1 DEF Write
  <2> QED BY <2>1, <2>2, PolicyPlaced DEF Belongs
<1>5. ASSUME NEW y \in Y, DroppedFile(i, R, D, y) PROVE Belongs(i, y.path) /\ y.path \in D
  BY <1>5 DEF DroppedFile, Renewing, Belongs
<1> HIDE DEF Y
<1>6. \A y \in Y : /\ Touches(y) => Belongs(i, y.path)
                   /\ y.op = "record" => y = Record(i, R)
                   /\ y.op = "remove" => y.path \in D
  BY <1>2, <1>3, <1>4, <1>5 DEF Touches
<1>7. steps \in Seq(Y)
  BY <1>1 DEF Y
<1> QED BY <1>6, <1>7 DEF Belonging

(* An accepted install renews its installation: the targets it selects and  *)
(* the Policy Set, in the directories that were missing.                   *)
LEMMA InstallRenews ==
    ASSUME NEW t, Good(t), Fitting(t), NEW q \in Requests, InstallAccepted(t, q)
    PROVE  LET i == q.owner
               R == InstallRecord(t, q)
               S == Selected(t, q)
           IN /\ ParseInstallationState(i, R) /\ InScope(i, R) /\ S \subseteq R.targets /\ Renewing(i, S, R, {})
              /\ Renews(InstallSteps(t, q), Renewal(i, t, S, R, {}), R.dirs \ t.dirs)
<1> DEFINE i == q.owner
           r == t.record[i]
           R == InstallRecord(t, q)
           S == Selected(t, q)
           planned == R.dirs \ t.dirs
           steps == InstallSteps(t, q)
           X == Renewal(i, t, S, R, {})
<1>1. i \in Installations /\ q.version \in Versions
  BY RequestsAssumption
<1>2. Sized(r) /\ InScope(i, r) /\ RecordFits(i, r)
  BY <1>1 DEF Good, Kept, Fitting
<1>3. Sized(R) /\ InScope(i, R) /\ ParseInstallationState(i, R)
  <2>1. SerializeInstallState(i, R) /\ ValidateOwnedDirectories(i, R)
    BY DEF InstallAccepted
  <2> QED BY <1>1, <1>2, <2>1, InstallRecordOf
<1>4. R.version = q.version /\ R.policy = SourcePolicySet(i, q.version) /\ S \subseteq R.targets
  BY DEF InstallRecord, Selected, MergeRecords
<1>5. \A x \in S : TargetFits(i, x) /\ x.checksum = q.version
  BY <1>1, SelectedRecords
<1>6. Renewing(i, S, R, {})
  <2> HIDE DEF S, R
  <2> QED BY <1>1, <1>4, <1>5 DEF Renewing
<1>7. InstallPart(t, q) = X
  <2>1. InstallPart(t, q) = Rendered(t, S, q.version) \union PolicyWrites(i, R) \union {Unlink(p) : p \in {}} \union {Record(i, R)}
    BY DEF InstallPart
  <2> QED BY <1>4, <2>1 DEF Renewal
<1>8. Renews(steps, X, planned)
  <2>1. Performs(steps, InstallPart(t, q), planned)
    BY <1>1, <1>3, InstallStepsIn
  <2> HIDE DEF steps, X, planned
  <2>2. steps \in Seq(X \union Made(planned \intersect Above(X)) \union {}) /\ Copying({})
    BY <1>7, <2>1 DEF Performs, Copying
  <2>3. X \union Made(planned \intersect Above(X)) \subseteq ToSet(steps)
    BY <1>7, <2>1 DEF Performs
  <2>4. \E B : Copying(B) /\ steps \in Seq(X \union Made(planned \intersect Above(X)) \union B)
    BY <2>2
  <2> QED BY <2>3, <2>4 DEF Renews
<1> QED BY <1>3, <1>4, <1>6, <1>8

(* What an accepted install touches belongs to its installation; it removes *)
(* nothing.                                                                *)
LEMMA InstallBelongs ==
    ASSUME NEW t, Good(t), Fitting(t), NEW q \in Requests, InstallAccepted(t, q)
    PROVE  Belonging(q.owner, InstallSteps(t, q), InstallRecord(t, q), {})
<1> DEFINE i == q.owner
           R == InstallRecord(t, q)
           S == Selected(t, q)
           steps == InstallSteps(t, q)
           planned == R.dirs \ t.dirs
<1>1. /\ i \in Installations /\ ParseInstallationState(i, R) /\ S \subseteq R.targets
      /\ Renewing(i, S, R, {}) /\ Renews(steps, Renewal(i, t, S, R, {}), planned)
  BY InstallRenews, RequestsAssumption
<1>2. Supported(i) # {} /\ \A x \in S : x.target \in Supported(i)
  BY <1>1 DEF ParseInstallationState, ValidateTargetRecords
<1> HIDE DEF S, R, planned, steps
<1>3. Belonging(i, steps, R, {})
  BY <1>1, <1>2, RenewalBelongs
<1> QED BY <1>3 DEF steps, R

(* So does an accepted update, which also drops the Policy Set files that   *)
(* the release no longer has.                                              *)
LEMMA UpdateRenews ==
    ASSUME NEW seen, Good(seen), Fitting(seen), NEW q \in Requests, UpdateAccepted(seen, q), ForceVerdict(seen, q) # "manual"
    PROVE  LET i == q.owner
               r == seen.record[i]
               R == UpdateRecord(seen, q)
               S == Renewed(seen, q)
               D == Obsolete(r, R)
           IN /\ ParseInstallationState(i, R) /\ InScope(i, R) /\ S \subseteq R.targets /\ Renewing(i, S, R, D)
              /\ Renews(UpdateSteps(seen, q), Renewal(i, seen, S, R, D), R.dirs \ r.dirs)
<1> DEFINE i == q.owner
           r == seen.record[i]
           R == UpdateRecord(seen, q)
           S == Renewed(seen, q)
           D == Obsolete(r, R)
           planned == R.dirs \ r.dirs
           steps == UpdateSteps(seen, q)
           X == Renewal(i, seen, S, R, D)
<1>1. i \in Installations /\ q.version \in Versions
  BY RequestsAssumption
<1>2. Sized(r) /\ InScope(i, r) /\ RecordFits(i, r)
  BY <1>1 DEF Good, Kept, Fitting
<1>3. Sized(R) /\ InScope(i, R) /\ ParseInstallationState(i, R)
  <2>1. SerializeInstallState(i, R) /\ ValidateOwnedDirectories(i, R)
    BY DEF UpdateAccepted
  <2> QED BY <1>1, <1>2, <2>1, UpdateRecordOf
<1>4. R.version = q.version /\ R.policy = SourcePolicySet(i, q.version) /\ S \subseteq R.targets
  BY DEF UpdateRecord, Renewed, MergeRecords
<1>5. \A x \in S : TargetFits(i, x) /\ x.checksum = q.version
  BY <1>1, <1>2, RenewedRecords
<1>6. Renewing(i, S, R, D)
  <2>1. \A p \in D : Placed(i, p) /\ p \in Path /\ p \notin DOMAIN R.policy
    BY <1>1, <1>2, FittingPolicy DEF Obsolete
  <2> HIDE DEF S, R, D
  <2> QED BY <1>1, <1>4, <1>5, <2>1 DEF Renewing
<1>7. UpdatePart(seen, q) = X
  <2>1. UpdatePart(seen, q) = Rendered(seen, S, q.version) \union PolicyWrites(i, R) \union {Unlink(p) : p \in D} \union {Record(i, R)}
    BY DEF UpdatePart
  <2> QED BY <1>4, <2>1 DEF Renewal
<1>8. Renews(steps, X, planned)
  <2>1. PICK plan : Performs(plan, UpdatePart(seen, q), planned) /\ steps = WithBackup(seen, q, plan)
    BY <1>1, <1>2, <1>3, UpdateStepsIn
  <2> HIDE DEF steps, X, planned
  <2>2. Performs(plan, X, planned)
    BY <1>7, <2>1
  <2> QED BY <2>1, <2>2, BackupRenews
<1> QED BY <1>3, <1>4, <1>6, <1>8

(* What it touches belongs to its installation as well.                    *)
LEMMA UpdateBelongs ==
    ASSUME NEW seen, Good(seen), Fitting(seen), NEW q \in Requests, UpdateAccepted(seen, q), ForceVerdict(seen, q) # "manual"
    PROVE  Belonging(q.owner, UpdateSteps(seen, q), UpdateRecord(seen, q),
                     Obsolete(seen.record[q.owner], UpdateRecord(seen, q)))
<1> DEFINE i == q.owner
           r == seen.record[i]
           R == UpdateRecord(seen, q)
           S == Renewed(seen, q)
           D == Obsolete(r, R)
           planned == R.dirs \ r.dirs
           steps == UpdateSteps(seen, q)
<1>1. /\ i \in Installations /\ ParseInstallationState(i, R) /\ S \subseteq R.targets
      /\ Renewing(i, S, R, D) /\ Renews(steps, Renewal(i, seen, S, R, D), planned)
  BY UpdateRenews, RequestsAssumption
<1>2. Supported(i) # {} /\ \A x \in S : x.target \in Supported(i)
  BY <1>1 DEF ParseInstallationState, ValidateTargetRecords
<1> HIDE DEF S, R, planned, steps, D
<1>3. Belonging(i, steps, R, D)
  BY <1>1, <1>2, RenewalBelongs
<1> QED BY <1>3 DEF steps, R, D

(* What an uninstall touches belongs to its installation; in the Policy Set *)
(* it only removes what is on record.                                      *)
LEMMA UninstallBelongs ==
    ASSUME NEW seen, Good(seen), Fitting(seen), NEW q \in Requests, Installed(seen, q.owner)
    PROVE  LET i == q.owner
               R == UninstallRecord(seen, q)
           IN \E Y : /\ UninstallSteps(seen, q) \in Seq(Y)
                     /\ \A y \in Y : /\ y.op = "write" => Belongs(i, y.path) /\ ~Placed(i, y.path)
                                     /\ y.op = "remove" => y.path \in Path /\ y.path[1] \in Scope(i)
                                     /\ y.op = "record" => y = Record(i, R)
<1> DEFINE i == q.owner
           r == seen.record[i]
           R == UninstallRecord(seen, q)
           P == DOMAIN r.policy \union {PolicyPath(i)}
           X == UninstallPart(seen, q)
           steps == UninstallSteps(seen, q)
<1>1. i \in Installations
  BY RequestsAssumption
<1>2. Kept(i, r) /\ RecordFits(i, r) /\ r # NoRecord
  BY <1>1 DEF Good, Fitting, Installed
<1>3. PICK plan \in Seq(X) : steps = WithBackup(seen, q, plan)
  BY <1>1, <1>2, UninstallStepsIn
<1>4. PICK b : b.op = "backup" /\ steps \in Seq(X \union {b})
  <2> HIDE DEF X, steps
  <2> QED BY <1>3, BackupIn
<1>5. \A p \in DOMAIN r.policy \union {y.path : y \in r.targets} : Belongs(i, p)
  BY <1>1, <1>2, RecordedBelongs DEF Kept, Readable
<1>6. \A p \in DOMAIN r.policy : p \in Path /\ p[1] \in Scope(i)
  BY <1>1, <1>5, BelongsScope
<1>7. PolicyPath(i) \in Path /\ PolicyPath(i)[1] \in Scope(i)
  <2>1. Supported(i) # {}
    BY <1>2 DEF Kept, Readable, ParseInstallationState, ValidateTargetRecords
  <2> QED BY <1>1, <2>1, PolicyPlaced, BelongsScope DEF Belongs
<1>8. ASSUME NEW y \in r.targets
      PROVE  Belongs(i, y.path) /\ ~Placed(i, y.path) /\ y.path \in Path /\ y.path[1] \in Scope(i)
  <2>1. Belongs(i, y.path) /\ y.path \in Path /\ y.path[1] \in Scope(i)
    BY <1>1, <1>5, BelongsScope
  <2>2. PICK e \in RegistryEntry : y.path = ArtifactDestination(i, e)
    BY <1>2 DEF RecordFits, TargetFits
  <2>3. ~Placed(i, y.path)
    BY <1>1, <2>2, DestinationApart DEF Placed, Below, IsStrictPrefix
  <2> QED BY <2>1, <2>3
<1>9. ASSUME NEW x \in X
      PROVE  /\ x.op = "write" => Belongs(i, x.path) /\ ~Placed(i, x.path)
             /\ x.op = "remove" => x.path \in Path /\ x.path[1] \in Scope(i)
             /\ x.op = "record" => x = Record(i, R)
  <2>1. CASE x \in {UninstallTarget(seen, y) : y \in {z \in r.targets : z.target \in q.targets}}
    <3>1. PICK y \in r.targets : x = UninstallTarget(seen, y)
      BY <2>1
    <3>2. x.path = y.path /\ x.op \in {"write", "remove"}
      BY <3>1 DEF UninstallTarget, Unlink, Write
    <3> QED BY <1>8, <3>2
  <2>2. CASE x \in {Unlink(p) : p \in P}
    BY <1>6, <1>7, <2>2 DEF Unlink
  <2>3. CASE x \in {Retain(p) : p \in P} \union {Record(i, R)} \union Dropped(r.dirs)
    BY <2>3 DEF Retain, Record, Dropped, Rmdir
  <2> QED BY <2>1, <2>2, <2>3 DEF UninstallPart
<1> HIDE DEF X, steps, R
<1>10. \A x \in X \union {b} : /\ x.op = "write" => Belongs(i, x.path) /\ ~Placed(i, x.path)
                               /\ x.op = "remove" => x.path \in Path /\ x.path[1] \in Scope(i)
                               /\ x.op = "record" => x = Record(i, R)
  BY <1>4, <1>9
<1> QED BY <1>4, <1>10 DEF steps, R

(* The state records after a plan that records one thing.                   *)
LEMMA RunRecords ==
    ASSUME NEW t, NEW X, NEW steps \in Seq(X), NEW i, NEW R, \A x \in X : x.op = "record" => x = Record(i, R)
    PROVE  \/ Run(t, steps).record = t.record
           \/ /\ Run(t, steps).record = [t.record EXCEPT ![i] = R]
              /\ \E n \in DOMAIN steps : steps[n].op = "record"
<1> DEFINE g == Trail(t, steps)
           N == Len(steps)
           Recorded(k) == \/ g[k].record = t.record
                          \/ g[k].record = [t.record EXCEPT ![i] = R] /\ \E n \in 1..k : steps[n].op = "record"
           G == {k \in Nat : k <= N => Recorded(k)}
<1>1. N \in Nat /\ DOMAIN steps = 1..N /\ \A n \in 1..N : steps[n] \in X
  OBVIOUS
<1>2. Run(t, steps) = g[N] /\ g[0] = t /\ \A n \in 1..N : g[n] = Do(g[n - 1], steps[n])
  <2> HIDE DEF N
  <2> QED BY <1>1, RunTrail DEF N
<1> HIDE DEF g, N
<1>3. 0 \in G
  BY <1>2
<1>4. ASSUME NEW k \in Nat, k \in G PROVE k + 1 \in G
  <2>1. SUFFICES ASSUME k + 1 <= N PROVE Recorded(k + 1)
    <3> HIDE DEF Recorded
    <3> QED OBVIOUS
  <2>2. PICK n \in 1..N : n = k + 1 /\ n - 1 = k
    BY <1>1, <2>1
  <2>3. Recorded(k)
    <3> HIDE DEF Recorded
    <3> QED BY <1>1, <1>4, <2>1
  <2> DEFINE x == steps[n]
  <2>4. g[k + 1] = Do(g[k], x) /\ x \in X
    BY <1>1, <1>2, <2>2
  <2>7. Do(g[k], x).record = IF x.op = "record" THEN [g[k].record EXCEPT ![x.owner] = x.to] ELSE g[k].record
    BY DoRecord
  <2>5. CASE x.op # "record"
    <3>1. g[k + 1].record = g[k].record
      BY <2>4, <2>5, <2>7
    <3>2. \A m \in 1..k : m \in 1..(k + 1)
      OBVIOUS
    <3> QED BY <2>3, <3>1, <3>2
  <2>6. CASE x.op = "record"
    <3>1. x.owner = i /\ x.to = R
      BY <2>4, <2>6 DEF Record
    <3>2. g[k + 1].record = [g[k].record EXCEPT ![i] = R]
      BY <2>4, <2>6, <2>7, <3>1
    <3>3. g[k + 1].record = [t.record EXCEPT ![i] = R]
      BY <2>3, <3>2
    <3>4. n \in 1..(k + 1) /\ steps[n].op = "record"
      BY <2>2, <2>6
    <3> QED BY <3>3, <3>4
  <2> QED BY <2>5, <2>6
<1>5. Recorded(N)
  <2>1. N \in G
    <3> HIDE DEF G
    <3> QED BY <1>1, <1>3, <1>4, SetInduction
  <2> HIDE DEF Recorded
  <2> QED BY <1>1, <2>1
<1> QED BY <1>1, <1>2, <1>5

(* A path of the Policy Set lies in the scope of its installation.          *)
LEMMA PlacedScope ==
    ASSUME NEW i \in Installations, NEW p \in Path, Placed(i, p)
    PROVE  p[1] \in Scope(i)
<1>1. PolicyDir(i) \in Path /\ Len(PolicyDir(i)) >= 2 /\ PolicyDir(i)[1] \in Scope(i)
  BY PolicyDirOf
<1>2. IsPrefix(PolicyDir(i), p)
  BY DEF Placed, Below, IsStrictPrefix
<1>3. Len(PolicyDir(i)) >= 1
  <2>1. Len(PolicyDir(i)) \in Nat
    BY <1>1 DEF Path
  <2> QED BY <1>1, <2>1
<1> QED BY <1>1, <1>2, <1>3, PrefixRoot

-----------------------------------------------------------------------------
(* What OAW wrote is where check looks for it; where it wrote into a Policy *)
(* Set that no record speaks of, POLICY.md is there for check to see.       *)
Known(t) == \A p \in Rendering(t) : \E i \in Installations : Belongs(i, p)
Announced(t) ==
    \A i \in Installations : \A p \in Rendering(t) :
        ~Installed(t, i) /\ p \in Path /\ Placed(i, p) => Present(t, PolicyPath(i))

(* A plan for an installation keeps to it and leaves it on record; or it   *)
(* begins with POLICY.md, where there was nothing; or it writes nothing in *)
(* the Policy Set and drops the record after all that OAW wrote there.      *)
KeepsRecord(i, t, R) == Installed(t, i) /\ R # NoRecord
BeginsPolicy(i, t, Y, s) ==
    /\ \E c : LeadsOff(s, Write(PolicyPath(i), c))
    /\ \A p \in DOMAIN t.files : ~Placed(i, p)
    /\ \A y \in Y : y.op # "remove"
EndsPolicy(i, t, Y, s) ==
    /\ Installed(t, i)
    /\ \A y \in Y : y.op = "write" => ~Placed(i, y.path)
    /\ \A p \in Rendering(t) : p \in Path /\ Placed(i, p) => RecordsAfter(s, Unlink(p))
Candid(i, t, s, R) ==
    \E Y : /\ s \in Seq(Y)
           /\ \A y \in Y : /\ y.op = "write" => Belongs(i, y.path)
                           /\ y.op = "remove" => y.path \in Path /\ y.path[1] \in Scope(i)
                           /\ y.op = "record" => y = Record(i, R)
           /\ KeepsRecord(i, t, R) \/ BeginsPolicy(i, t, Y, s) \/ EndsPolicy(i, t, Y, s)

(* So is a part of it.                                                     *)
LEMMA CandidPart ==
    ASSUME NEW i, NEW t, NEW R, NEW s, Candid(i, t, s, R), NEW n \in 1..Len(s)
    PROVE  Candid(i, t, SubSeq(s, 1, n), R)
<1> DEFINE u == SubSeq(s, 1, n)
<1>1. PICK Y : /\ s \in Seq(Y)
               /\ \A y \in Y : /\ y.op = "write" => Belongs(i, y.path)
                               /\ y.op = "remove" => y.path \in Path /\ y.path[1] \in Scope(i)
                               /\ y.op = "record" => y = Record(i, R)
               /\ KeepsRecord(i, t, R) \/ BeginsPolicy(i, t, Y, s) \/ EndsPolicy(i, t, Y, s)
  BY DEF Candid
<1>2. u \in Seq(Y) /\ DOMAIN u = 1..n /\ \A m \in 1..n : u[m] = s[m] /\ m \in DOMAIN s
  BY <1>1
<1> HIDE DEF u
<1>3. BeginsPolicy(i, t, Y, s) => BeginsPolicy(i, t, Y, u)
  <2>1. ASSUME NEW x, LeadsOff(s, x) PROVE LeadsOff(u, x)
    <3>1. SUFFICES ASSUME NEW k \in 1..n, u[k].op # "mkdir" PROVE \E m \in 1..k : u[m] = x
      BY <1>2 DEF LeadsOff
    <3>2. PICK m \in 1..k : s[m] = x
      BY <1>2, <2>1, <3>1 DEF LeadsOff
    <3>3. m \in 1..n
      BY <3>1
    <3> QED BY <1>2, <3>2, <3>3
  <2> QED BY <2>1 DEF BeginsPolicy
<1>4. EndsPolicy(i, t, Y, s) => EndsPolicy(i, t, Y, u)
  <2>1. ASSUME NEW x, RecordsAfter(s, x) PROVE RecordsAfter(u, x)
    <3>1. SUFFICES ASSUME NEW k \in 1..n, u[k].op = "record" PROVE \E m \in 1..k : u[m] = x
      BY <1>2 DEF RecordsAfter
    <3>2. PICK m \in 1..k : s[m] = x
      BY <1>2, <2>1, <3>1 DEF RecordsAfter
    <3>3. m \in 1..n
      BY <3>1
    <3> QED BY <1>2, <3>2, <3>3
  <2> QED BY <2>1 DEF EndsPolicy
<1>5. Candid(i, t, u, R)
  BY <1>1, <1>2, <1>3, <1>4 DEF Candid
<1> QED BY <1>5 DEF u

(* Then check can see what such a plan wrote.                              *)
LEMMA RunCandid ==
    ASSUME NEW i \in Installations, NEW t, DOMAIN t.record = Installations, Known(t), Announced(t),
           NEW s, NEW R, Candid(i, t, s, R)
    PROVE  Known(Run(t, s)) /\ Announced(Run(t, s))
<1> DEFINE u == Run(t, s)
<1>1. PICK Y : /\ s \in Seq(Y)
               /\ \A y \in Y : /\ y.op = "write" => Belongs(i, y.path)
                               /\ y.op = "remove" => y.path \in Path /\ y.path[1] \in Scope(i)
                               /\ y.op = "record" => y = Record(i, R)
               /\ KeepsRecord(i, t, R) \/ BeginsPolicy(i, t, Y, s) \/ EndsPolicy(i, t, Y, s)
  BY DEF Candid
<1>2. DOMAIN s = 1..Len(s) /\ \A k \in 1..Len(s) : s[k] \in Y
  BY <1>1
<1>3. \A p : Traced(t, u, s, Len(s), p)
  BY <1>1, RunTraced
<1>4. u.record = t.record \/ (u.record = [t.record EXCEPT ![i] = R] /\ \E n \in DOMAIN s : s[n].op = "record")
  <2>1. s \in Seq(Y) /\ \A y \in Y : y.op = "record" => y = Record(i, R)
    BY <1>1
  <2> QED BY <2>1, RunRecords
<1> HIDE DEF u
<1>5. ASSUME NEW p, NEW k \in 1..Len(s), Touches(s[k]), s[k].path = p PROVE p \in Path /\ p[1] \in Scope(i)
  BY <1>1, <1>2, <1>5, BelongsScope DEF Touches
<1>6. ASSUME NEW p \in Rendering(u)
      PROVE  \/ p \in Rendering(t) /\ Same(t, u, p) /\ \A k \in 1..Len(s) : Touches(s[k]) => s[k].path # p
             \/ \E k \in 1..Len(s) : s[k].op = "write" /\ s[k].path = p
  BY <1>3, <1>6 DEF Rendering, Traced, Same
<1>7. Known(u)
  BY <1>1, <1>2, <1>6 DEF Known
<1>8. ASSUME NEW j \in Installations, NEW p \in Rendering(u), ~Installed(u, j), p \in Path, Placed(j, p)
      PROVE  Present(u, PolicyPath(j))
  <2> DEFINE f == PolicyPath(j)
  <2>1. Placed(j, f) /\ f \in Path /\ p[1] \in Scope(j) /\ f[1] \in Scope(j)
    BY <1>8, PolicyPlaced, PlacedScope
  <2>2. CASE j # i
    <3>1. \A k \in 1..Len(s) : Touches(s[k]) => s[k].path # p /\ s[k].path # f
      BY <1>5, <2>1, <2>2, ScopesApart
    <3>2. p \in Rendering(t)
      BY <1>6, <1>8, <3>1 DEF Touches
    <3>3. u.record[j] = t.record[j]
      BY <1>4, <2>2
    <3>4. Present(t, f)
      BY <1>8, <3>2, <3>3 DEF Announced, Installed
    <3>5. Same(t, u, f)
      BY <1>3, <3>1 DEF Traced, Touches
    <3> QED BY <3>4, <3>5 DEF Same, Present
  <2>3. CASE j = i /\ KeepsRecord(i, t, R)
    <3>1. u.record[i] # NoRecord
      BY <1>4, <2>3 DEF KeepsRecord, Installed
    <3> QED BY <1>8, <2>3, <3>1 DEF Installed
  <2>4. CASE j = i /\ BeginsPolicy(i, t, Y, s)
    <3>1. p \notin DOMAIN t.files /\ \A y \in Y : y.op # "remove"
      BY <1>8, <2>4 DEF BeginsPolicy
    <3>2. PICK k \in 1..Len(s) : s[k].op = "write" /\ s[k].path = p
      BY <1>6, <1>8, <3>1 DEF Rendering
    <3>3. PICK c : LeadsOff(s, Write(f, c))
      BY <2>4 DEF BeginsPolicy
    <3>4. PICK m \in 1..k : s[m] = Write(f, c)
      BY <1>2, <3>2, <3>3 DEF LeadsOff
    <3>5. m \in 1..Len(s) /\ s[m].op = "write" /\ s[m].path = f
      BY <1>2, <3>2, <3>4 DEF Write
    <3> QED BY <1>2, <1>3, <3>1, <3>5 DEF Traced, Touches, Present
  <2>5. CASE j = i /\ EndsPolicy(i, t, Y, s)
    <3>1. \A k \in 1..Len(s) : s[k].op = "write" => ~Placed(i, s[k].path)
      BY <1>2, <2>5 DEF EndsPolicy
    <3>2. p \in Rendering(t) /\ \A k \in 1..Len(s) : Touches(s[k]) => s[k].path # p
      BY <1>6, <1>8, <2>5, <3>1
    <3>3. RecordsAfter(s, Unlink(p))
      BY <1>8, <2>5, <3>2 DEF EndsPolicy
    <3>4. PICK n \in DOMAIN s : s[n].op = "record"
      <4>1. u.record # t.record
        BY <1>8, <2>5 DEF EndsPolicy, Installed
      <4> QED BY <1>4, <4>1
    <3>5. PICK m \in 1..n : s[m] = Unlink(p)
      BY <3>3, <3>4 DEF RecordsAfter
    <3>6. m \in 1..Len(s) /\ s[m].op = "remove" /\ s[m].path = p
      BY <1>2, <3>4, <3>5 DEF Unlink
    <3> QED BY <3>2, <3>6 DEF Touches
  <2> QED BY <1>1, <2>2, <2>3, <2>4, <2>5
<1>9. Announced(u)
  BY <1>8 DEF Announced
<1> QED BY <1>7, <1>9 DEF u

(* What a command that is not left to the user finds in the Policy Set.     *)
LEMMA FineTree ==
    ASSUME NEW t, NEW q, ForceVerdict(t, q) = "fine", q.owner \in Installations,
           Kept(q.owner, t.record[q.owner]), RecordFits(q.owner, t.record[q.owner])
    PROVE  ValidatePolicySetTree(q.owner, t)
<1> DEFINE i == q.owner
           r == t.record[i]
<1>1. CASE ~q.force
  <2>1. ValidateClean(i, t)
    BY <1>1 DEF ForceVerdict
  <2> QED BY <2>1 DEF ValidateClean, ValidatePolicySetFiles
<1>2. CASE q.force
  <2>1. ForcedPreparation(t, q).verdict = "fine"
    BY <1>2 DEF ForceVerdict
  <2>2. SUFFICES ASSUME ~ValidatePolicySetTree(i, t) PROVE FALSE
    OBVIOUS
  <2>3. ForcedPreparation(t, q) = [verdict |-> "refused", record |-> {}]
    BY <2>2 DEF ForcedPreparation
  <2> QED BY <2>1, <2>3
<1> QED BY <1>1, <1>2

(* An installation with a version is on record.                            *)
LEMMA VersionRecorded ==
    ASSUME NEW r, r.version \in Versions
    PROVE  r # NoRecord
BY PolicySetAssumption DEF NoRecord

(* A copy in front of a plan takes nothing from it.                         *)
LEMMA BackupRecordsAfter ==
    ASSUME NEW t, NEW q, NEW X, NEW plan \in Seq(X), NEW y, RecordsAfter(plan, y)
    PROVE  RecordsAfter(WithBackup(t, q, plan), y)
<1> DEFINE b == Backup(Saved(t, {plan[n].path : n \in {m \in DOMAIN plan : Destroys(t, plan[m])}}))
<1>1. WithBackup(t, q, plan) = <<b>> \o plan \/ WithBackup(t, q, plan) = plan
  <2>1. <<>> \o plan = plan
    OBVIOUS
  <2> QED BY <2>1 DEF WithBackup
<1>2. b.op = "backup"
  BY DEF Backup
<1> HIDE DEF b
<1> DEFINE A == X \union {b}
<1>3. <<b>> \in Seq(A) /\ plan \in Seq(A) /\ \A n \in DOMAIN <<b>> : <<b>>[n].op # "record"
  BY <1>2
<1> HIDE DEF A
<1>4. RecordsAfter(<<b>> \o plan, y)
  BY <1>3, RecordsAfterJoined
<1> QED BY <1>1, <1>4

(* An install keeps the record, or begins with POLICY.md.                   *)
LEMMA InstallCandid ==
    ASSUME NEW t, Good(t), Fitting(t), NEW q \in Requests, InstallAccepted(t, q)
    PROVE  Candid(q.owner, t, InstallSteps(t, q), InstallRecord(t, q))
<1> DEFINE i == q.owner
           R == InstallRecord(t, q)
           s == InstallSteps(t, q)
<1>1. i \in Installations /\ q.version \in Versions
  BY RequestsAssumption
<1>2. Belonging(i, s, R, {})
  BY InstallBelongs
<1>3. Sized(R) /\ InScope(i, R) /\ R # NoRecord
  <2>1. Sized(t.record[i]) /\ InScope(i, t.record[i])
    BY <1>1 DEF Good, Kept
  <2>2. SerializeInstallState(i, R) /\ ValidateOwnedDirectories(i, R)
    BY DEF InstallAccepted
  <2> QED BY <1>1, <2>1, <2>2, InstallRecordOf
<1>4. LeadsOff(s, Write(PolicyPath(i), Written(R.version)))
  BY <1>1, <1>3, InstallStepsIn
<1>5. ~Installed(t, i) => \A p \in DOMAIN t.files : ~Placed(i, p)
  BY <1>1, NothingClaimed DEF InstallAccepted, Present
<1> HIDE DEF s, R
<1>6. PICK Y : s \in Seq(Y) /\ \A y \in Y : /\ Touches(y) => Belongs(i, y.path)
                                            /\ y.op = "record" => y = Record(i, R)
                                            /\ y.op = "remove" => y.path \in {}
  BY <1>2 DEF Belonging
<1>7. \A y \in Y : /\ y.op = "write" => Belongs(i, y.path)
                   /\ y.op = "remove" => y.path \in Path /\ y.path[1] \in Scope(i)
                   /\ y.op = "record" => y = Record(i, R)
                   /\ y.op # "remove"
  BY <1>6 DEF Touches
<1>8. KeepsRecord(i, t, R) \/ BeginsPolicy(i, t, Y, s)
  BY <1>3, <1>4, <1>5, <1>7 DEF KeepsRecord, BeginsPolicy
<1>9. Candid(i, t, s, R)
  BY <1>6, <1>7, <1>8 DEF Candid
<1> QED BY <1>9 DEF s, R

(* An update keeps the record.                                             *)
LEMMA UpdateCandid ==
    ASSUME NEW seen, Good(seen), Fitting(seen), NEW q \in Requests, UpdateAccepted(seen, q),
           ForceVerdict(seen, q) # "manual", NEW t, t.record = seen.record
    PROVE  Candid(q.owner, t, UpdateSteps(seen, q), UpdateRecord(seen, q))
<1> DEFINE i == q.owner
           R == UpdateRecord(seen, q)
           D == Obsolete(seen.record[i], R)
           s == UpdateSteps(seen, q)
<1>1. i \in Installations /\ q.version \in Versions
  BY RequestsAssumption
<1>2. Belonging(i, s, R, D)
  BY UpdateBelongs
<1>3. R # NoRecord
  <2>1. R.version = q.version
    BY DEF UpdateRecord
  <2> HIDE DEF R
  <2> QED BY <1>1, <2>1, VersionRecorded
<1>4. Installed(t, i)
  BY DEF UpdateAccepted, Installed
<1> HIDE DEF s, R, D
<1>5. PICK Y : s \in Seq(Y) /\ \A y \in Y : /\ Touches(y) => Belongs(i, y.path)
                                            /\ y.op = "record" => y = Record(i, R)
                                            /\ y.op = "remove" => y.path \in D
  BY <1>2 DEF Belonging
<1>6. \A y \in Y : /\ y.op = "write" => Belongs(i, y.path)
                   /\ y.op = "remove" => y.path \in Path /\ y.path[1] \in Scope(i)
                   /\ y.op = "record" => y = Record(i, R)
  BY <1>1, <1>5, BelongsScope DEF Touches
<1>7. Candid(i, t, s, R)
  BY <1>3, <1>4, <1>5, <1>6 DEF Candid, KeepsRecord
<1> QED BY <1>7 DEF s, R

(* An uninstall keeps the record, or drops it last: nothing that OAW wrote  *)
(* in the Policy Set was overlooked when the plan was made.                *)
LEMMA UninstallCandid ==
    ASSUME NEW seen, Good(seen), Fitting(seen), NEW q \in Requests, UninstallAccepted(seen, q),
           Installed(seen, q.owner), ForceVerdict(seen, q) # "manual",
           NEW t, t.record = seen.record, Rendering(t) \subseteq Rendering(seen)
    PROVE  Candid(q.owner, t, UninstallSteps(seen, q), UninstallRecord(seen, q))
<1> DEFINE i == q.owner
           r == seen.record[i]
           R == UninstallRecord(seen, q)
           s == UninstallSteps(seen, q)
           X == UninstallPart(seen, q)
<1>1. i \in Installations
  BY RequestsAssumption
<1>2. Kept(i, r) /\ RecordFits(i, r)
  BY <1>1 DEF Good, Fitting
<1>3. Installed(t, i)
  BY DEF Installed
<1>4. ASSUME Remaining(seen, q) = {}, NEW p \in Rendering(t), p \in Path, Placed(i, p) PROVE RecordsAfter(s, Unlink(p))
  <2>1. ForceVerdict(seen, q) = "fine"
    BY DEF UninstallAccepted
  <2>2. ValidatePolicySetTree(i, seen)
    BY <1>1, <1>2, <2>1, FineTree
  <2>3. Present(seen, p)
    BY <1>4 DEF Rendering, Present
  <2>4. p \in DOMAIN r.policy
    BY <1>1, <1>4, <2>2, <2>3, NothingForeign
  <2>5. PICK plan \in Seq(X) : s = WithBackup(seen, q, plan) /\ RecordsAfter(plan, Unlink(p))
    BY <1>1, <1>2, <1>4, <2>4, UninstallStepsIn
  <2> HIDE DEF X, s
  <2> QED BY <2>5, BackupRecordsAfter
<1>5. Remaining(seen, q) # {} => R # NoRecord
  <2>1. SUFFICES ASSUME Remaining(seen, q) # {} PROVE R # NoRecord
    OBVIOUS
  <2>2. R = [r EXCEPT !.targets = Remaining(seen, q), !.dirs = RetainedDirectories(seen, q)]
    BY <2>1 DEF UninstallRecord
  <2>3. DOMAIN r = {"legacy", "version", "policy", "dirs", "targets"}
    BY <1>2 DEF Kept, InScope
  <2>4. R.targets = Remaining(seen, q)
    <3> HIDE DEF R, r
    <3> QED BY <2>2, <2>3
  <2>5. NoRecord.targets = {}
    BY DEF NoRecord
  <2> HIDE DEF R
  <2> QED BY <2>1, <2>4, <2>5
<1>6. PICK Y : /\ s \in Seq(Y)
               /\ \A y \in Y : /\ y.op = "write" => Belongs(i, y.path) /\ ~Placed(i, y.path)
                               /\ y.op = "remove" => y.path \in Path /\ y.path[1] \in Scope(i)
                               /\ y.op = "record" => y = Record(i, R)
  BY UninstallBelongs
<1> HIDE DEF s, R
<1>7. KeepsRecord(i, t, R) \/ EndsPolicy(i, t, Y, s)
  BY <1>3, <1>4, <1>5, <1>6 DEF KeepsRecord, EndsPolicy
<1>8. Candid(i, t, s, R)
  BY <1>6, <1>7 DEF Candid
<1> QED BY <1>8 DEF s, R

(* What a prepared plan, or a part of it, leaves is seen.                   *)
LEMMA PlanSees ==
    ASSUME Good(tree), Fitting(tree), Known(tree), Announced(tree),
           NEW seen, Good(seen), Fitting(seen), tree.record = seen.record, Rendering(tree) \subseteq Rendering(seen),
           NEW q \in Requests, Accepted(seen, q), NEW steps, steps = Steps(seen, q), StillValid(q, seen, steps)
    PROVE  /\ Known(Run(tree, steps)) /\ Announced(Run(tree, steps))
           /\ \A n \in 1..(Len(steps) - 1) :
                 Known(Run(tree, SubSeq(steps, 1, n))) /\ Announced(Run(tree, SubSeq(steps, 1, n)))
<1> DEFINE i == q.owner
<1>1. i \in Installations /\ DOMAIN tree.record = Installations
  BY RequestsAssumption DEF Good
<1>2. ASSUME NEW R, Candid(i, tree, steps, R)
      PROVE  /\ Known(Run(tree, steps)) /\ Announced(Run(tree, steps))
             /\ \A n \in 1..(Len(steps) - 1) :
                   Known(Run(tree, SubSeq(steps, 1, n))) /\ Announced(Run(tree, SubSeq(steps, 1, n)))
  <2>1. Known(Run(tree, steps)) /\ Announced(Run(tree, steps))
    BY <1>1, <1>2, RunCandid
  <2>2. ASSUME NEW n \in 1..(Len(steps) - 1)
        PROVE  Known(Run(tree, SubSeq(steps, 1, n))) /\ Announced(Run(tree, SubSeq(steps, 1, n)))
    <3>1. Len(steps) \in Nat
      BY <1>2 DEF Candid
    <3>2. n \in 1..Len(steps)
      BY <3>1
    <3>3. Candid(i, tree, SubSeq(steps, 1, n), R)
      BY <1>2, <3>2, CandidPart
    <3> QED BY <1>1, <3>3, RunCandid
  <2> QED BY <2>1, <2>2
<1>3. CASE Manual(seen, q)
  <2> DEFINE x == Backup(Saved(seen, {y.path : y \in ForcedPreparation(seen, q).record} \union {PolicyPath(i)}))
             r == seen.record[i]
  <2>1. steps = <<x>>
    BY <1>3 DEF Steps, ManualRecovery
  <2>2. x.op = "backup"
    BY DEF Backup
  <2>3. KeepsRecord(i, tree, r)
    BY <1>3 DEF Manual, KeepsRecord, Installed
  <2> HIDE DEF x, r
  <2>4. steps \in Seq({x})
    BY <2>1
  <2>5. Candid(i, tree, steps, r)
    BY <2>2, <2>3, <2>4 DEF Candid
  <2> QED BY <1>2, <2>5
<1>4. CASE ~Manual(seen, q) /\ q.kind = "install"
  <2>1. steps = InstallSteps(tree, q) /\ InstallAccepted(tree, q)
    BY <1>4 DEF StillValid, PreparedAgain
  <2>2. Candid(i, tree, steps, InstallRecord(tree, q))
    BY <2>1, InstallCandid
  <2> QED BY <1>2, <2>2
<1>5. CASE ~Manual(seen, q) /\ q.kind = "update"
  <2>1. steps = UpdateSteps(seen, q) /\ UpdateAccepted(seen, q)
    BY <1>5 DEF Steps, Accepted
  <2>2. ForceVerdict(seen, q) # "manual"
    BY <1>5, <2>1 DEF Manual, UpdateAccepted
  <2>3. Candid(i, tree, steps, UpdateRecord(seen, q))
    BY <2>1, <2>2, UpdateCandid
  <2> QED BY <1>2, <2>3
<1>6. CASE ~Manual(seen, q) /\ q.kind = "uninstall"
  <2>1. steps = UninstallSteps(seen, q) /\ UninstallAccepted(seen, q)
    BY <1>6 DEF Steps, Accepted
  <2>2. CASE ~Installed(seen, i)
    <3>1. steps = <<>>
      BY <2>1, <2>2 DEF UninstallSteps
    <3>2. Len(steps) = 0
      BY <3>1
    <3>3. Run(tree, steps) = tree
      BY <3>2, RunTrail
    <3>4. 1..(Len(steps) - 1) = {}
      BY <3>2
    <3> QED BY <3>3, <3>4
  <2>3. CASE Installed(seen, i)
    <3>1. ForceVerdict(seen, q) # "manual"
      BY <1>6, <2>3 DEF Manual
    <3>2. Candid(i, tree, steps, UninstallRecord(seen, q))
      BY <2>1, <2>3, <3>1, UninstallCandid
    <3> QED BY <1>2, <3>2
  <2> QED BY <2>2, <2>3
<1>7. q.kind \in {"install", "update", "uninstall"}
  BY DEF Accepted
<1> QED BY <1>3, <1>4, <1>5, <1>6, <1>7

-----------------------------------------------------------------------------
(* One oaw process at a time: between a command's preparation and its      *)
(* application only users change the tree, and they write nothing of OAW's. *)
OneProcess == \A p, q \in Procs : p = q
SightInvariant ==
    /\ Known(tree) /\ Announced(tree)
    /\ \A p \in Procs : pending[p].busy =>
          tree.record = pending[p].seen.record /\ Rendering(tree) \subseteq Rendering(pending[p].seen)

(* A format 1 installation is on record.                                   *)
LEMMA InitSight == Init => SightInvariant
<1> SUFFICES ASSUME Init PROVE SightInvariant
  OBVIOUS
<1>1. /\ tree.files = InitialFiles
      /\ tree.record = [i \in Installations |-> IF i \in Legacy THEN LegacyRecord(i) ELSE NoRecord]
      /\ pending = [p \in Procs |-> Idle]
  BY DEF Init
<1>2. \A p \in Procs : ~pending[p].busy
  BY <1>1 DEF Idle
<1>3. ASSUME NEW p \in Rendering(tree)
      PROVE  \E i \in Legacy : i \in Installations /\ Belongs(i, p)
  <2>1. DOMAIN tree.files = UNION {DOMAIN LegacyRecord(j).policy \union {x.path : x \in LegacyRecord(j).targets} : j \in Legacy}
    BY <1>1 DEF InitialFiles
  <2>2. p \in DOMAIN tree.files
    BY DEF Rendering
  <2>3. PICK i \in Legacy : p \in DOMAIN LegacyRecord(i).policy \union {x.path : x \in LegacyRecord(i).targets}
    BY <2>1, <2>2
  <2>4. RecordFits(i, LegacyRecord(i)) /\ Kept(i, LegacyRecord(i)) /\ i \in Installations
    BY LegacyRecordFits, LegacyRecordOf, LegacyAssumption
  <2> QED BY <2>3, <2>4, RecordedBelongs DEF Kept, Readable
<1>4. Known(tree)
  BY <1>3 DEF Known
<1>5. ASSUME NEW i \in Installations, NEW p \in Rendering(tree), ~Installed(tree, i), p \in Path, Placed(i, p) PROVE FALSE
  <2>1. PICK j \in Legacy : j \in Installations /\ Belongs(j, p)
    BY <1>3
  <2>2. i = j
    BY <1>5, <2>1, BelongsScope, PlacedScope, ScopesApart
  <2>3. tree.record[i] = LegacyRecord(i)
    BY <1>1, <2>1, <2>2
  <2>4. LegacyRecord(i).version = 1 /\ 1 \in Versions
    BY <2>1, LegacyAssumption DEF LegacyRecord
  <2> QED BY <1>5, <2>3, <2>4, VersionRecorded DEF Installed
<1>6. Announced(tree)
  BY <1>5 DEF Announced
<1> QED BY <1>2, <1>4, <1>6 DEF SightInvariant

(* Users write nothing of OAW's, and take a Policy Set file only where it   *)
(* is on record.                                                           *)
LEMMA UserSight ==
    ASSUME SightInvariant, pending' = pending, tree'.record = tree.record, Rendering(tree') \subseteq Rendering(tree),
           \A i \in Installations : ~Installed(tree, i) /\ Present(tree, PolicyPath(i)) => Present(tree', PolicyPath(i))
    PROVE  SightInvariant'
<1>1. Known(tree')
  BY DEF SightInvariant, Known
<1>2. Announced(tree')
  <2>1. \A i \in Installations : Installed(tree', i) <=> Installed(tree, i)
    BY DEF Installed
  <2> QED BY <2>1 DEF SightInvariant, Announced
<1>3. \A p \in Procs : pending'[p].busy =>
          tree'.record = pending'[p].seen.record /\ Rendering(tree') \subseteq Rendering(pending'[p].seen)
  BY DEF SightInvariant
<1> QED BY <1>1, <1>2, <1>3 DEF SightInvariant

(* A user's edit that adds no rendering keeps it too.                      *)
LEMMA EditSight ==
    ASSUME SightInvariant, Shaped(tree), NEW p, NEW c, Edit(p, c), c.body # 0 => p \in Rendering(tree)
    PROVE  SightInvariant'
<1>1. tree' = [tree EXCEPT !.files = Put(@, p, c)] /\ pending' = pending
  BY DEF Edit
<1>2. tree'.record = tree.record /\ tree'.files = Put(tree.files, p, c)
  BY <1>1 DEF Shaped
<1>3. DOMAIN tree'.files = DOMAIN tree.files \union {p} /\ \A f \in DOMAIN tree'.files : tree'.files[f] = IF f = p THEN c ELSE tree.files[f]
  BY <1>2 DEF Put
<1>4. Rendering(tree') \subseteq Rendering(tree)
  BY <1>3 DEF Rendering
<1>5. \A f : Present(tree, f) => Present(tree', f)
  BY <1>3 DEF Present
<1> QED BY <1>1, <1>2, <1>4, <1>5, UserSight

(* Every step keeps it.                                                    *)
LEMMA NextSight ==
    OneProcess /\ LifecycleInvariant /\ FittingInvariant /\ SightInvariant /\ [Next]_vars => SightInvariant'
<1> SUFFICES ASSUME OneProcess, LifecycleInvariant, FittingInvariant, SightInvariant, [Next]_vars PROVE SightInvariant'
  OBVIOUS
<1>1. Good(tree) /\ Fitting(tree) /\ Shaped(tree) /\ Known(tree) /\ Announced(tree) /\ DOMAIN pending = Procs
  BY DEF LifecycleInvariant, FittingInvariant, SightInvariant, Good, Standing
<1>2. ASSUME NEW p \in Procs, pending[p].busy
      PROVE  /\ pending[p].request \in Requests /\ Good(pending[p].seen) /\ Fitting(pending[p].seen)
             /\ Accepted(pending[p].seen, pending[p].request)
             /\ tree.record = pending[p].seen.record /\ Rendering(tree) \subseteq Rendering(pending[p].seen)
  BY <1>2 DEF LifecycleInvariant, FittingInvariant, SightInvariant
<1>3. ASSUME NEW p \in Procs, Prepare(p) PROVE SightInvariant'
  <2>1. PICK q : tree' = tree /\ pending' = [pending EXCEPT ![p] = [busy |-> TRUE, request |-> q, seen |-> tree]]
    BY <1>3 DEF Prepare
  <2>2. pending'[p].seen = tree
    BY <1>1, <2>1
  <2>3. \A o \in Procs : o = p
    BY DEF OneProcess
  <2> QED BY <1>1, <2>1, <2>2, <2>3 DEF SightInvariant
<1>4. ASSUME NEW p \in Procs, pending' = [pending EXCEPT ![p] = Idle], Known(tree'), Announced(tree')
      PROVE  SightInvariant'
  <2>1. ~pending'[p].busy
    BY <1>1, <1>4 DEF Idle
  <2>2. \A o \in Procs : o = p
    BY DEF OneProcess
  <2> QED BY <1>4, <2>1, <2>2 DEF SightInvariant
<1>5. ASSUME NEW p \in Procs, Apply(p) PROVE SightInvariant'
  <2> DEFINE q == pending[p].request
             seen == pending[p].seen
             steps == Steps(seen, q)
  <2>1. pending[p].busy /\ pending' = [pending EXCEPT ![p] = Idle]
    BY <1>5 DEF Apply
  <2>2. CASE StillValid(q, seen, steps) /\ Applicable(tree, steps)
    <3>1. tree' = Run(tree, steps)
      BY <1>5, <2>2 DEF Apply
    <3>2. Known(tree') /\ Announced(tree')
      BY <1>1, <1>2, <2>1, <2>2, <3>1, PlanSees
    <3> QED BY <1>4, <2>1, <3>2
  <2>3. CASE ~(StillValid(q, seen, steps) /\ Applicable(tree, steps))
    <3>1. tree' = tree
      BY <1>5, <2>3 DEF Apply
    <3> QED BY <1>1, <1>4, <2>1, <3>1
  <2> QED BY <2>2, <2>3
<1>6. ASSUME NEW p \in Procs, Kill(p) PROVE SightInvariant'
  <2> DEFINE q == pending[p].request
             seen == pending[p].seen
             steps == Steps(seen, q)
  <2>1. /\ pending[p].busy /\ pending' = [pending EXCEPT ![p] = Idle]
        /\ StillValid(q, seen, steps)
        /\ \E n \in 1..(Len(steps) - 1) : tree' = Run(tree, SubSeq(steps, 1, n))
    BY <1>6 DEF Kill
  <2>2. PICK n \in 1..(Len(steps) - 1) : tree' = Run(tree, SubSeq(steps, 1, n))
    BY <2>1
  <2>3. Known(tree') /\ Announced(tree')
    BY <1>1, <1>2, <2>1, <2>2, PlanSees
  <2> QED BY <1>4, <2>1, <2>3
<1>7. CASE WriteOwn
  <2>1. PICK p \in UserFiles : Edit(p, IF Present(tree, p) THEN [tree.files[p] EXCEPT !.own = TRUE] ELSE UserText)
    BY <1>7 DEF WriteOwn
  <2> DEFINE c == IF Present(tree, p) THEN [tree.files[p] EXCEPT !.own = TRUE] ELSE UserText
  <2>2. c.body # 0 => p \in Rendering(tree)
    <3>1. SUFFICES ASSUME c.body # 0 PROVE p \in Rendering(tree)
      OBVIOUS
    <3>2. Present(tree, p)
      BY <3>1 DEF UserText
    <3>3. DOMAIN tree.files[p] = {"body", "marks", "own"}
      BY <1>1, <3>2 DEF Fitting, FileFits, Present
    <3>4. c.body = tree.files[p].body
      BY <3>2, <3>3
    <3> QED BY <3>1, <3>2, <3>4 DEF Rendering, Present
  <2> QED BY <1>1, <2>1, <2>2, EditSight
<1>8. CASE EditBody
  <2>1. PICK p \in DOMAIN tree.files : Ours(p) /\ Edit(p, [tree.files[p] EXCEPT !.body = Edited])
    BY <1>8 DEF EditBody
  <2>2. p \in Rendering(tree)
    BY <2>1, PolicySetAssumption DEF Ours, Rendering
  <2> QED BY <1>1, <2>1, <2>2, EditSight
<1>9. CASE BreakMarkers
  <2>1. PICK p \in DOMAIN tree.files :
           \/ Edit(p, [tree.files[p] EXCEPT !.marks = "torn"])
           \/ Edit(p, [tree.files[p] EXCEPT !.marks = "garbled"])
           \/ Edit(p, [tree.files[p] EXCEPT !.marks = "none", !.body = 0])
    BY <1>9 DEF BreakMarkers
  <2>2. DOMAIN tree.files[p] = {"body", "marks", "own"}
    BY <1>1 DEF Fitting, FileFits
  <2>3. ASSUME NEW c, Edit(p, c), c.body = tree.files[p].body \/ c.body = 0 PROVE SightInvariant'
    <3>1. c.body # 0 => p \in Rendering(tree)
      BY <2>3 DEF Rendering
    <3> QED BY <1>1, <2>3, <3>1, EditSight
  <2> QED BY <2>1, <2>2, <2>3
<1>10. CASE Delete
  <2>9. PICK i \in Installations : \E f \in {x.path : x \in tree.record[i].targets} \union DOMAIN tree.record[i].policy :
           tree' = Do(tree, Unlink(f)) /\ pending' = pending
    BY <1>10 DEF Delete
  <2>1. PICK p \in {x.path : x \in tree.record[i].targets} \union DOMAIN tree.record[i].policy :
           tree' = Do(tree, Unlink(p)) /\ pending' = pending
    BY <2>9
  <2>2. Kept(i, tree.record[i]) /\ RecordFits(i, tree.record[i])
    BY <1>1 DEF Good, Fitting
  <2>3. Belongs(i, p) /\ tree.record[i] # NoRecord
    <3>1. Belongs(i, p)
      BY <2>1, <2>2, RecordedBelongs DEF Kept, Readable
    <3> QED BY <2>1, <3>1 DEF NoRecord
  <2>4. p \in Path /\ p[1] \in Scope(i)
    BY <2>3, BelongsScope
  <2>5. Unlink(p).op = "remove" /\ Unlink(p).path = p
    BY DEF Unlink
  <2>6. /\ tree'.record = tree.record
        /\ DOMAIN tree'.files = DOMAIN tree.files \ {p}
        /\ \A f \in DOMAIN tree.files \ {p} : tree'.files[f] = tree.files[f]
    <3> DEFINE x == Unlink(p)
    <3>1. tree' = Do(tree, x) /\ x.op = "remove" /\ x.path = p
      BY <2>1, <2>5
    <3> HIDE DEF x
    <3>2. /\ DOMAIN Do(tree, x).files = DOMAIN tree.files \ {x.path}
          /\ \A f \in DOMAIN tree.files \ {x.path} : Do(tree, x).files[f] = tree.files[f]
      BY <3>1, DoFiles
    <3>3. Do(tree, x).record = IF x.op = "record" THEN [tree.record EXCEPT ![x.owner] = x.to] ELSE tree.record
      BY DoRecord
    <3> QED BY <3>1, <3>2, <3>3
  <2>7. Rendering(tree') \subseteq Rendering(tree)
    BY <2>6 DEF Rendering
  <2>8. ASSUME NEW j \in Installations, ~Installed(tree, j), Present(tree, PolicyPath(j)) PROVE Present(tree', PolicyPath(j))
    <3>1. j # i
      BY <2>3, <2>8 DEF Installed
    <3>2. PolicyPath(j) \in Path /\ PolicyPath(j)[1] \in Scope(j)
      BY PolicyPlaced, PlacedScope
    <3>3. PolicyPath(j) # p
      BY <2>4, <3>1, <3>2, ScopesApart
    <3> QED BY <2>6, <2>8, <3>3 DEF Present
  <2> QED BY <2>1, <2>6, <2>7, <2>8, UserSight
<1>11. CASE UNCHANGED vars
  BY <1>11 DEF vars, SightInvariant
<1> QED BY <1>3, <1>5, <1>6, <1>7, <1>8, <1>9, <1>10, <1>11 DEF Next

(* Where check reports no drift nothing that OAW wrote is off the record.   *)
LEMMA SightSeesEverything ==
    ASSUME Good(tree), Fitting(tree), Known(tree), Announced(tree), NEW i \in Installations,
           \A id \in Supported(i) : TargetStatus(tree, i, id) \notin {"drift", "invalid-state"},
           NEW p \in DOMAIN tree.files, p[1] \in Scope(i), tree.files[p].body # 0
    PROVE  LET r == tree.record[i]
           IN \/ p \in DOMAIN r.policy /\ PolicyFileClean(tree, r, p)
              \/ \E x \in At(r, p) : ValidateLiveTargetRecord(tree, x)
<1> DEFINE r == tree.record[i]
           Natives(id) == {e \in ArtifactsOf({id}) : e.artifact # "router"}
<1>1. p \in Rendering(tree) /\ FileFits(p, tree.files[p])
  BY DEF Rendering, Fitting
<1>2. Belongs(i, p)
  <2>1. PICK j \in Installations : Belongs(j, p)
    BY <1>1 DEF Known
  <2>2. p[1] \in Scope(j)
    BY <2>1, BelongsScope
  <2> QED BY <2>1, <2>2, ScopesApart
<1>3. \E id \in Supported(i) : TRUE
  BY <1>2 DEF Belongs
<1>4. \A e \in RegistryEntry : \A id : UntrackedClean(tree, i, {id}) /\ e \in ArtifactsOf({id}) => UntrackedArtifactClean(tree, i, e)
  BY DEF UntrackedClean
<1>5. ASSUME NEW e \in RegistryEntry, p = ArtifactDestination(i, e), UntrackedArtifactClean(tree, i, e) PROVE FALSE
  <2>1. e.mode = "managed-block" <=> BlockPath(p)
    BY <1>5, DestinationSorted
  <2>2. e.mode \in {"owned-file", "managed-block"}
    BY DEF RegistryEntry, IsEntry
  <2>3. CASE e.mode = "owned-file"
    BY <1>5, <2>3 DEF UntrackedArtifactClean, Present
  <2>4. CASE e.mode = "managed-block"
    <3>1. ManagedInstallStatus(tree, p) = "absent" /\ Present(tree, p)
      BY <1>5, <2>4 DEF UntrackedArtifactClean, Present
    <3>2. tree.files[p].marks = "none"
      BY <3>1 DEF ManagedInstallStatus
    <3> QED BY <1>1, <2>1, <2>4, <3>2 DEF FileFits
  <2> QED BY <2>2, <2>3, <2>4
<1>6. ASSUME NEW e \in RegistryEntry, e.target \in Supported(i) PROVE e \in ArtifactsOf({e.target})
  <2>1. PICK n \in DOMAIN Registry : e = Registry[n]
    BY DEF RegistryEntry, ToSet
  <2>2. e.target \in Targets
    BY <1>6 DEF Supported
  <2> QED BY <2>1, <2>2 DEF ArtifactsOf, InPlay
<1>7. CASE ~Installed(tree, i)
  <2>1. \A id \in Supported(i) : ~Present(tree, PolicyPath(i)) /\ UntrackedClean(tree, i, {id})
    BY <1>7 DEF TargetStatus
  <2>2. ~(p \in Path /\ Placed(i, p))
    BY <1>1, <1>3, <1>7, <2>1 DEF Announced
  <2>3. PICK e \in RegistryEntry : e.target \in Supported(i) /\ p = ArtifactDestination(i, e)
    BY <1>2, <2>2 DEF Belongs
  <2> QED BY <1>4, <1>5, <1>6, <2>1, <2>3
<1>8. CASE Installed(tree, i)
  <2>1. ValidatePolicySetFiles(i, tree)
    BY <1>3, <1>8 DEF TargetStatus
  <2>2. ParseInstallationState(i, r)
    BY <1>8 DEF Good, Kept, Readable, Installed
  <2>3. CASE p \in Path /\ Placed(i, p)
    <3>1. p \in DOMAIN r.policy
      BY <2>1, <2>3, NothingForeign DEF ValidatePolicySetFiles, Present
    <3> QED BY <2>1, <3>1 DEF ValidatePolicySetFiles
  <2>4. CASE \E e \in RegistryEntry : e.target \in Supported(i) /\ p = ArtifactDestination(i, e)
    <3>1. PICK e \in RegistryEntry : e.target \in Supported(i) /\ p = ArtifactDestination(i, e)
      BY <2>4
    <3> DEFINE id == e.target
               mine == {x \in r.targets : x.target = id}
    <3>2. e \in ArtifactsOf({id})
      BY <1>6, <3>1
    <3>3. CASE mine = {}
      <4>1. UntrackedClean(tree, i, {id})
        BY <1>8, <2>1, <3>1, <3>3 DEF TargetStatus
      <4> QED BY <1>4, <1>5, <3>1, <3>2, <4>1
    <3>4. CASE mine # {}
      <4>1. /\ \A x \in mine : ValidateLiveTargetRecord(tree, x)
            /\ ~r.legacy \/ \A f \in Natives(id) : UntrackedArtifactClean(tree, i, f)
        BY <1>8, <2>1, <2>2, <3>1, <3>4 DEF TargetStatus
      <4>2. CASE RecordedArtifact(r, e) # {}
        <5>1. PICK x \in r.targets : x.target = e.target /\ x.artifact = e.artifact
          BY <4>2 DEF RecordedArtifact
        <5>2. PICK f \in RegistryEntry : x.target = f.target /\ x.artifact = f.artifact /\ x.path = ArtifactDestination(i, f)
          BY DEF Fitting, RecordFits, TargetFits
        <5>3. f = e
          BY <5>1, <5>2, RegistryKeys
        <5>4. x \in At(r, p) /\ ValidateLiveTargetRecord(tree, x)
          BY <3>1, <4>1, <5>1, <5>2, <5>3 DEF At
        <5> QED BY <5>4
      <4>3. CASE RecordedArtifact(r, e) = {}
        <5>1. ValidateTargetRecords(i, r)
          BY <2>2 DEF ParseInstallationState
        <5>2. PICK n \in InPlay : e = Registry[n]
          BY <3>2 DEF ArtifactsOf
        <5>3. r.legacy
          <6>1. SUFFICES ASSUME ~r.legacy PROVE FALSE
            OBVIOUS
          <6>2. \E x \in r.targets : x.target = e.target
            BY <3>4
          <6> QED BY <4>3, <5>1, <5>2, <6>1, <6>2 DEF ValidateTargetRecords
        <5>4. CASE e.artifact # "router"
          BY <1>5, <3>1, <3>2, <4>1, <5>3, <5>4
        <5>5. CASE e.artifact = "router"
          <6>1. PICK x \in mine : x.artifact = "router"
            BY <3>4, <5>1, <5>3 DEF ValidateTargetRecords
          <6> QED BY <4>3, <5>5, <6>1 DEF RecordedArtifact
        <5> QED BY <5>4, <5>5
      <4> QED BY <4>2, <4>3
    <3> QED BY <3>3, <3>4
  <2> QED BY <1>2, <2>3, <2>4 DEF Belongs
<1> QED BY <1>7, <1>8

(* With one oaw process at a time check sees everything: where it reports   *)
(* no drift, every file that OAW wrote in the scope is on record as it is,  *)
(* wherever commands were killed (CheckSeesEverything).  Two processes can  *)
(* break this: one drops the record of a plan that the other was killed in. *)
THEOREM CheckIsHonest == OneProcess => (Spec => []CheckSeesEverything)
<1> SUFFICES ASSUME OneProcess PROVE Spec => []CheckSeesEverything
  OBVIOUS
<1>1. Spec => []LifecycleInvariant /\ []FittingInvariant
  BY LifecycleHolds, FilesFit
<1>2. Init => SightInvariant
  BY InitSight
<1>3. LifecycleInvariant /\ FittingInvariant /\ SightInvariant /\ [Next]_vars => SightInvariant'
  BY NextSight
<1>4. LifecycleInvariant /\ FittingInvariant /\ SightInvariant => CheckSeesEverything
  <2> SUFFICES ASSUME LifecycleInvariant, FittingInvariant, SightInvariant PROVE CheckSeesEverything
    OBVIOUS
  <2>1. Good(tree) /\ Fitting(tree) /\ Known(tree) /\ Announced(tree)
    BY DEF LifecycleInvariant, FittingInvariant, SightInvariant
  <2> QED BY <2>1, SightSeesEverything DEF CheckSeesEverything
<1> QED BY <1>1, <1>2, <1>3, <1>4, PTL DEF Spec

-----------------------------------------------------------------------------
(* A plan that removes what lies below a directory before the directory.   *)
Clearing(s) ==
    \A n \in DOMAIN s : s[n].op = "rmdir" /\ Len(s[n].path) >= 2 =>
        \A m \in DOMAIN s : m > n /\ s[m].op \in {"rmdir", "remove"} => ~Below(s[n].path, s[m].path)

(* Two such plans make one when the second removes nothing below what the  *)
(* first has removed.                                                      *)
LEMMA ClearingJoined ==
    ASSUME NEW A, NEW a \in Seq(A), NEW s \in Seq(A), Clearing(a), Clearing(s),
           \A n \in DOMAIN a : a[n].op = "rmdir" /\ Len(a[n].path) >= 2 =>
               \A m \in DOMAIN s : s[m].op \in {"rmdir", "remove"} => ~Below(a[n].path, s[m].path)
    PROVE  a \o s \in Seq(A) /\ Clearing(a \o s)
<1> DEFINE j == a \o s
           k == Len(a)
           l == Len(s)
<1>1. /\ DOMAIN j = 1..(k + l) /\ DOMAIN a = 1..k /\ DOMAIN s = 1..l /\ k \in Nat /\ l \in Nat
      /\ \A n \in 1..k : j[n] = a[n]
      /\ \A n \in 1..l : j[k + n] = s[n]
  OBVIOUS
<1>2. j \in Seq(A)
  OBVIOUS
<1> HIDE DEF j, k, l
<1>3. ASSUME NEW n \in DOMAIN j, j[n].op = "rmdir", Len(j[n].path) >= 2, NEW m \in DOMAIN j, m > n, j[m].op \in {"rmdir", "remove"}
      PROVE  ~Below(j[n].path, j[m].path)
  <2>1. CASE m \in 1..k
    <3>1. n \in 1..k /\ j[n] = a[n] /\ j[m] = a[m]
      BY <1>1, <1>3, <2>1
    <3> QED BY <1>1, <1>3, <2>1, <3>1 DEF Clearing
  <2>2. CASE m \notin 1..k
    <3>1. m - k \in 1..l /\ m = k + (m - k)
      BY <1>1, <1>3, <2>2
    <3>2. j[m] = s[m - k]
      BY <1>1, <3>1
    <3>3. CASE n \in 1..k
      BY <1>1, <1>3, <3>1, <3>2, <3>3
    <3>4. CASE n \notin 1..k
      <4>1. n - k \in 1..l /\ n = k + (n - k) /\ m - k > n - k
        BY <1>1, <1>3, <2>2, <3>4
      <4>2. j[n] = s[n - k]
        BY <1>1, <4>1
      <4> QED BY <1>1, <1>3, <3>1, <3>2, <4>1, <4>2 DEF Clearing
    <3> QED BY <3>3, <3>4
  <2> QED BY <2>1, <2>2
<1>4. Clearing(j)
  BY <1>3 DEF Clearing
<1> QED BY <1>2, <1>4 DEF j

(* A path does not lie below one that is as long.                          *)
LEMMA BelowLonger ==
    ASSUME NEW d \in Path, NEW p \in Path, Below(d, p)
    PROVE  Len(d) < Len(p)
  BY DEF Below, IsStrictPrefix, IsPrefix, Path

(* Directories are removed from the deepest to the outermost.              *)
LEMMA RemoveDirectoriesClear ==
    ASSUME NEW D, IsFiniteSet(D), D \subseteq Path
    PROVE  LET s == RemoveDirectories(D)
           IN s \in Seq(Dropped(D)) /\ ToSet(s) = Dropped(D) /\ Clearing(s)
<1> DEFINE rank == [d \in D |-> Len(d)]
           by == ByDepth(D)
           ds == DeepestFirst(D)
           s == RemoveDirectories(D)
           N == Len(by)
<1>1. by = Ordered(D, rank)
  BY DEF ByDepth
<1>2. \A d \in D : rank[d] \in Nat
  BY DEF Path
<1>3. by \in Seq(D) /\ ToSet(by) = D
  BY ByDepthOf
<1>4. \A n \in DOMAIN by : \A m \in 1..n : rank[by[m]] <= rank[by[n]]
  <2> HIDE DEF rank
  <2> QED BY <1>1, <1>2, OrderedSorted
<1>5. N \in Nat /\ DOMAIN by = 1..N /\ \A n \in 1..N : by[n] \in D
  <2> HIDE DEF by
  <2> QED BY <1>3
<1>6. \A n \in 1..N : \A m \in 1..n : Len(by[m]) <= Len(by[n])
  <2>1. ASSUME NEW n \in 1..N, NEW m \in 1..n PROVE Len(by[m]) <= Len(by[n])
    <3>1. m \in 1..N
      BY <1>5
    <3>2. rank[by[m]] = Len(by[m]) /\ rank[by[n]] = Len(by[n])
      BY <1>5, <3>1
    <3> QED BY <1>4, <1>5, <3>2
  <2> QED BY <2>1
<1>7. DOMAIN ds = 1..N /\ Len(ds) = N /\ \A n \in 1..N : ds[n] = by[(N - n) + 1]
  <2>1. ds = Reverse(by)
    BY DEF DeepestFirst
  <2> HIDE DEF by, ds
  <2> QED BY <1>3, <2>1 DEF Reverse
<1>8. DOMAIN s = 1..N /\ \A n \in 1..N : s[n] = Rmdir(ds[n])
  <2>1. s = [n \in DOMAIN ds |-> Rmdir(ds[n])]
    BY DEF RemoveDirectories
  <2> HIDE DEF ds, s, by, N
  <2> QED BY <1>7, <2>1
<1>9. s \in Seq(Dropped(D))
  BY RemoveDirectoriesOf DEF Dropped
<1> HIDE DEF ds, s, by, N, rank
<1>10. \A n \in 1..N : (N - n) + 1 \in 1..N /\ s[n] = Rmdir(by[(N - n) + 1])
  BY <1>5, <1>7, <1>8
<1>11. ASSUME NEW d \in D PROVE Rmdir(d) \in ToSet(s)
  <2>1. PICK k \in 1..N : by[k] = d
    BY <1>3, <1>5 DEF ToSet
  <2>2. (N - k) + 1 \in 1..N /\ (N - ((N - k) + 1)) + 1 = k
    BY <1>5
  <2>3. s[(N - k) + 1] = Rmdir(d)
    BY <1>10, <2>1, <2>2
  <2> QED BY <1>8, <2>2, <2>3 DEF ToSet
<1>12. ToSet(s) = Dropped(D)
  <2>1. ToSet(s) \subseteq Dropped(D)
    BY <1>9 DEF ToSet
  <2> QED BY <1>11, <2>1 DEF Dropped
<1>13. ASSUME NEW n \in DOMAIN s, NEW m \in DOMAIN s, m > n PROVE ~Below(s[n].path, s[m].path)
  <2> DEFINE a == (N - n) + 1
             b == (N - m) + 1
  <2>1. a \in 1..N /\ b \in 1..a
    BY <1>5, <1>8, <1>13
  <2>2. b \in 1..N /\ s[n].path = by[a] /\ s[m].path = by[b]
    BY <1>8, <1>10, <1>5 DEF Rmdir
  <2> HIDE DEF a, b
  <2>3. Len(by[b]) <= Len(by[a]) /\ by[a] \in Path /\ by[b] \in Path
    BY <1>5, <1>6, <2>1, <2>2
  <2>4. Len(by[b]) \in Nat /\ Len(by[a]) \in Nat
    BY <2>3 DEF Path
  <2> QED BY <2>2, <2>3, <2>4, BelowLonger
<1>14. Clearing(s)
  BY <1>13 DEF Clearing
<1> QED BY <1>9, <1>12, <1>14 DEF s

(* A plan that removes no directory is such a plan; and a copy may go first. *)
LEMMA BackupClears ==
    ASSUME NEW t, NEW q, NEW X, NEW plan \in Seq(X), Clearing(plan)
    PROVE  Clearing(WithBackup(t, q, plan)) /\ ToSet(plan) \subseteq ToSet(WithBackup(t, q, plan))
<1> DEFINE b == Backup(Saved(t, {plan[n].path : n \in {m \in DOMAIN plan : Destroys(t, plan[m])}}))
<1>1. WithBackup(t, q, plan) = <<b>> \o plan \/ WithBackup(t, q, plan) = plan
  <2>1. <<>> \o plan = plan
    OBVIOUS
  <2> QED BY <2>1 DEF WithBackup
<1>2. b.op = "backup"
  BY DEF Backup
<1> HIDE DEF b
<1> DEFINE A == X \union {b}
<1>3. <<b>> \in Seq(A) /\ plan \in Seq(A) /\ \A n \in DOMAIN <<b>> : <<b>>[n].op # "rmdir"
  BY <1>2
<1> HIDE DEF A
<1>4. Clearing(<<b>>)
  BY <1>3 DEF Clearing
<1>5. Clearing(<<b>> \o plan)
  BY <1>3, <1>4, ClearingJoined
<1>6. ToSet(<<b>> \o plan) = ToSet(<<b>>) \union ToSet(plan)
  <2> DEFINE a == <<b>>
  <2>1. a \in Seq(A) /\ plan \in Seq(A)
    BY <1>3
  <2> HIDE DEF a
  <2>2. ToSet(a \o plan) = ToSet(a) \union ToSet(plan)
    BY <2>1, JoinedSet
  <2> QED BY <2>2 DEF a
<1> QED BY <1>1, <1>5, <1>6

(* A plan without new directories adds those of the backup at most, and     *)
(* what it records stays.                                                  *)
Shrinking(X, i, R) == \A x \in X : x.op # "mkdir" /\ (x.op = "record" => x = Record(i, R))
Shrunk(t, u, i, R) == /\ u.dirs \subseteq t.dirs \union {StateDir, BackupRoot}
                      /\ u.record = [t.record EXCEPT ![i] = R]

(* So does running it.                                                     *)
LEMMA RunShrinks ==
    ASSUME NEW t, NEW i, NEW R, NEW X, Shrinking(X, i, R),
           NEW steps \in Seq(X), Record(i, R) \in ToSet(steps)
    PROVE  Shrunk(t, Run(t, steps), i, R)
<1> DEFINE g == Trail(t, steps)
           N == Len(steps)
           E == [t.record EXCEPT ![i] = R]
           Holds(k) == /\ g[k].dirs \subseteq t.dirs \union {StateDir, BackupRoot}
                       /\ g[k].record \in {t.record, E}
                       /\ (\E n \in 1..k : steps[n].op = "record") => g[k].record = E
           G == {k \in Nat : k <= N => Holds(k)}
<1>1. N \in Nat /\ DOMAIN steps = 1..N /\ \A n \in 1..N : steps[n] \in X
  OBVIOUS
<1>2. Run(t, steps) = g[N] /\ g[0] = t /\ \A n \in 1..N : g[n] = Do(g[n - 1], steps[n])
  <2> HIDE DEF N
  <2> QED BY <1>1, RunTrail DEF N
<1> HIDE DEF g, N
<1>3. 0 \in G
  <2>1. 1..0 = {}
    OBVIOUS
  <2>2. Holds(0)
    BY <1>2, <2>1
  <2> QED BY <2>2
<1>4. ASSUME NEW k \in Nat, k \in G PROVE k + 1 \in G
  <2>1. SUFFICES ASSUME k + 1 <= N PROVE Holds(k + 1)
    <3> HIDE DEF Holds
    <3> QED OBVIOUS
  <2>2. PICK n \in 1..N : n = k + 1 /\ n - 1 = k
    BY <1>1, <2>1
  <2>3. Holds(k)
    <3> HIDE DEF Holds
    <3> QED BY <1>1, <1>4, <2>1
  <2> DEFINE x == steps[k + 1]
             v == g[k]
             w == g[k + 1]
  <2>4. w = Do(v, x) /\ x \in X
    BY <1>1, <1>2, <2>2
  <2>5. /\ w.record = IF x.op = "record" THEN [v.record EXCEPT ![x.owner] = x.to] ELSE v.record
        /\ w.dirs = IF x.op = "mkdir" THEN v.dirs \union {x.path}
                    ELSE IF x.op = "rmdir" THEN RemoveEmptyDirectory(v, x.path)
                    ELSE IF x.op = "backup" THEN v.dirs \union {StateDir, BackupRoot} ELSE v.dirs
    <3> HIDE DEF x, v, w
    <3> QED BY <2>4, DoRecord
  <2>6. RemoveEmptyDirectory(v, x.path) \subseteq v.dirs
    BY DEF RemoveEmptyDirectory
  <2>7. \A m \in 1..(k + 1) : m \in 1..k \/ m = k + 1
    OBVIOUS
  <2>8. x.op # "mkdir" /\ (x.op = "record" => x.owner = i /\ x.to = R)
    BY <2>4 DEF Record, Shrinking
  <2> HIDE DEF x, w
  <2>9. w.dirs \subseteq t.dirs \union {StateDir, BackupRoot}
    BY <2>3, <2>5, <2>6, <2>8 DEF v
  <2>10. w.record = IF x.op = "record" THEN [v.record EXCEPT ![i] = R] ELSE v.record
    BY <2>5, <2>8
  <2>11. w.record \in {t.record, E} /\ (x.op = "record" => w.record = E)
    BY <2>3, <2>10 DEF v
  <2>12. (\E m \in 1..k : steps[m].op = "record") => w.record = E
    BY <2>3, <2>10, <2>11 DEF v
  <2> QED BY <2>7, <2>9, <2>11, <2>12 DEF x, w
<1>5. Holds(N)
  <2>1. N \in G
    <3> HIDE DEF G
    <3> QED BY <1>1, <1>3, <1>4, SetInduction
  <2> HIDE DEF Holds
  <2> QED BY <1>1, <2>1
<1>6. \E n \in 1..N : steps[n].op = "record"
  BY <1>1 DEF ToSet, Record
<1> QED BY <1>2, <1>5, <1>6 DEF Shrunk

(* A directory that such a plan has failed to remove holds something that   *)
(* is left: a file, another directory, or a state record.                  *)
LEMMA RunClears ==
    ASSUME NEW t, NEW X, NEW steps \in Seq(X), \A x \in X : x.op # "mkdir", Clearing(steps),
           NEW d, Len(d) >= 2, Rmdir(d) \in ToSet(steps), d \notin {StateDir, BackupRoot}, d \in Run(t, steps).dirs
    PROVE  LET u == Run(t, steps)
           IN \E p \in u.dirs \union DOMAIN u.files \union {StateFile(i) : i \in Installations} : Below(d, p)
<1> DEFINE g == Trail(t, steps)
           N == Len(steps)
<1>1. N \in Nat /\ DOMAIN steps = 1..N /\ \A n \in 1..N : steps[n] \in X
  OBVIOUS
<1>2. Run(t, steps) = g[N] /\ g[0] = t /\ \A n \in 1..N : g[n] = Do(g[n - 1], steps[n])
  <2> HIDE DEF N
  <2> QED BY <1>1, RunTrail DEF N
<1> HIDE DEF g, N
<1>3. PICK n \in 1..N : steps[n] = Rmdir(d)
  BY <1>1 DEF ToSet
<1> DEFINE v == g[n - 1]
<1>4. ASSUME NEW k \in 1..N
      PROVE  /\ g[k].dirs = IF steps[k].op = "rmdir" THEN RemoveEmptyDirectory(g[k - 1], steps[k].path)
                            ELSE IF steps[k].op = "backup" THEN g[k - 1].dirs \union {StateDir, BackupRoot}
                            ELSE g[k - 1].dirs
             /\ steps[k].op # "remove" => DOMAIN g[k - 1].files \subseteq DOMAIN g[k].files
             /\ steps[k].op = "remove" => DOMAIN g[k - 1].files \ {steps[k].path} \subseteq DOMAIN g[k].files
  <2> DEFINE x == steps[k]
             a == g[k - 1]
             b == g[k]
  <2>1. b = Do(a, x) /\ x.op # "mkdir"
    BY <1>1, <1>2
  <2> HIDE DEF x, a, b
  <2>2. b.dirs = IF x.op = "mkdir" THEN a.dirs \union {x.path}
                 ELSE IF x.op = "rmdir" THEN RemoveEmptyDirectory(a, x.path)
                 ELSE IF x.op = "backup" THEN a.dirs \union {StateDir, BackupRoot} ELSE a.dirs
    BY <2>1, DoRecord
  <2>3. /\ x.op = "write" => DOMAIN b.files = DOMAIN a.files \union {x.path}
        /\ x.op = "remove" => DOMAIN b.files = DOMAIN a.files \ {x.path}
        /\ x.op \notin {"write", "remove"} => b.files = a.files
    BY <2>1, DoFiles
  <2> QED BY <2>1, <2>2, <2>3 DEF x, a, b
<1>5. steps[n].op = "rmdir" /\ steps[n].path = d
  BY <1>3 DEF Rmdir
<1>6. d \in g[n].dirs
  <2>1. SUFFICES ASSUME d \notin g[n].dirs PROVE FALSE
    OBVIOUS
  <2> DEFINE G == {k \in Nat : n <= k /\ k <= N => d \notin g[k].dirs}
  <2>2. 0 \in G
    BY <1>1
  <2>3. ASSUME NEW k \in Nat, k \in G PROVE k + 1 \in G
    <3>1. SUFFICES ASSUME n <= k + 1, k + 1 <= N PROVE d \notin g[k + 1].dirs
      OBVIOUS
    <3>2. CASE n = k + 1
      BY <2>1, <3>2
    <3>3. CASE n # k + 1
      <4>1. n <= k /\ k <= N /\ k + 1 \in 1..N /\ (k + 1) - 1 = k
        BY <1>1, <3>1, <3>3
      <4>2. d \notin g[k].dirs
        BY <2>3, <4>1
      <4>3. RemoveEmptyDirectory(g[k], steps[k + 1].path) \subseteq g[k].dirs
        BY DEF RemoveEmptyDirectory
      <4>4. g[k + 1].dirs \subseteq g[k].dirs \union {StateDir, BackupRoot}
        BY <1>4, <4>1, <4>3
      <4> QED BY <4>2, <4>4
    <3> QED BY <3>2, <3>3
  <2>4. N \in G
    <3> HIDE DEF G
    <3> QED BY <1>1, <2>2, <2>3, SetInduction
  <2>5. n <= N
    BY <1>1
  <2> QED BY <1>1, <1>2, <2>4, <2>5
<1>7. g[n].dirs = RemoveEmptyDirectory(v, d)
  BY <1>4, <1>5
<1>8. ~Empty(v, d)
  BY <1>6, <1>7 DEF RemoveEmptyDirectory
<1>9. PICK p \in v.dirs \union DOMAIN v.files \union {StateFile(i) : i \in Installations} : Below(d, p)
  BY <1>8 DEF Empty
<1>10. p # d
  BY <1>9 DEF Below, IsStrictPrefix
<1> DEFINE Stays(k) == /\ p \in v.dirs => p \in g[k].dirs
                       /\ p \in DOMAIN v.files => p \in DOMAIN g[k].files
           H == {k \in Nat : n <= k /\ k <= N => Stays(k)}
<1>11. Stays(n)
  <2>1. v.dirs \ {d} \subseteq RemoveEmptyDirectory(v, d)
    BY DEF RemoveEmptyDirectory
  <2> QED BY <1>4, <1>5, <1>7, <1>10, <2>1
<1>12. ASSUME NEW k \in Nat, k \in H PROVE k + 1 \in H
  <2>1. SUFFICES ASSUME n <= k + 1, k + 1 <= N PROVE Stays(k + 1)
    <3> HIDE DEF Stays
    <3> QED OBVIOUS
  <2>2. CASE n = k + 1
    BY <1>11, <2>2
  <2>3. CASE n # k + 1
    <3> DEFINE m == k + 1
    <3>1. n <= k /\ k <= N /\ m \in 1..N /\ m - 1 = k /\ m > n
      BY <1>1, <2>1, <2>3
    <3>2. Stays(k)
      <4> HIDE DEF Stays
      <4> QED BY <1>12, <3>1
    <3> HIDE DEF m
    <3>3. steps[m].op \in {"rmdir", "remove"} => steps[m].path # p
      BY <1>1, <1>3, <1>5, <1>9, <3>1 DEF Clearing
    <3>4. g[k].dirs \ {steps[m].path} \subseteq RemoveEmptyDirectory(g[k], steps[m].path)
      BY DEF RemoveEmptyDirectory
    <3>5. p \in g[k].dirs => p \in g[m].dirs
      BY <1>4, <3>1, <3>3, <3>4
    <3>6. p \in DOMAIN g[k].files => p \in DOMAIN g[m].files
      BY <1>4, <3>1, <3>3
    <3>7. Stays(m)
      BY <3>2, <3>5, <3>6
    <3> QED BY <3>7 DEF m
  <2> HIDE DEF Stays
  <2> QED BY <2>2, <2>3
<1>13. Stays(N)
  <2>1. 0 \in H
    BY <1>1
  <2>2. N \in H
    <3> HIDE DEF H
    <3> QED BY <1>1, <1>12, <2>1, SetInduction
  <2>3. n <= N
    BY <1>1
  <2> HIDE DEF Stays
  <2> QED BY <1>1, <2>2, <2>3
<1> QED BY <1>2, <1>9, <1>13

(* What lies above a directory of the Policy Set, or above one of its files, *)
(* is such a directory as well.                                            *)
LEMMA NamespaceAbove ==
    ASSUME NEW i \in Installations, NEW p \in Path, NEW d \in Parents(p), d[1] \in Scope(i),
           InstallNamespaceDirectory(i, p) \/ Placed(i, p)
    PROVE  InstallNamespaceDirectory(i, d)
<1> DEFINE top == PolicyDir(i)
           profiles == CustomProfilesDir("user")
           builtin == CustomProfilesDir("user") \o <<"builtin">>
<1>1. d \in Path /\ Len(d) >= 2 /\ d[1] = p[1] /\ Below(d, p) /\ Len(d) < Len(p) /\ Len(d) \in Nat /\ Len(p) \in Nat
  <2>1. d \in Path /\ Len(d) >= 2 /\ d[1] = p[1] /\ Below(d, p)
    BY ParentsOf
  <2> QED BY <2>1, BelowLonger DEF Path
<1>9. Len(p) # 2 /\ (Len(d) >= 4 => Len(p) # 4)
  <2> DEFINE m == Len(d)
             n == Len(p)
  <2>1. m \in Nat /\ n \in Nat /\ m >= 2 /\ m < n
    BY <1>1
  <2> HIDE DEF m, n
  <2>2. n # 2 /\ (m >= 4 => n # 4)
    BY <2>1
  <2> QED BY <2>2 DEF m, n
<1>2. top \in Path /\ Len(top) >= 2
  BY PolicyDirOf
<1>3. /\ profiles \in Path /\ Len(profiles) = 3 /\ builtin \in Path /\ Len(builtin) = 4
      /\ Len(ConfigDir) = 2
  <2>1. "config" \in Name /\ "oaw" \in Name /\ "profiles" \in Name /\ "builtin" \in Name
    BY DEF Name
  <2>2. profiles = ConfigDir \o <<"profiles">> /\ ConfigDir = <<"config", "oaw">>
    BY DEF CustomProfilesDir, ConfigDir
  <2>3. profiles = <<"config", "oaw", "profiles">>
    BY <2>1, <2>2, Joined2
  <2>4. builtin = <<"config", "oaw", "profiles", "builtin">>
    <3>1. <<"config", "oaw", "profiles">> \o <<"builtin">> = <<"config", "oaw", "profiles", "builtin">>
      BY <2>1, Joined3
    <3> QED BY <2>3, <3>1
  <2>5. profiles \in Path /\ builtin \in Path
    <3>1. <<"config", "oaw", "profiles">> \in Path /\ <<"config", "oaw", "profiles", "builtin">> \in Path
      BY <2>1 DEF Path
    <3> HIDE DEF profiles, builtin
    <3> QED BY <2>3, <2>4, <3>1
  <2>6. Len(<<"config", "oaw", "profiles">>) = 3 /\ Len(<<"config", "oaw", "profiles", "builtin">>) = 4
        /\ Len(<<"config", "oaw">>) = 2
    OBVIOUS
  <2> QED BY <2>2, <2>3, <2>4, <2>5, <2>6
<1>4. p \notin {ConfigDir, StateDir, InstallationsDir, ProjectsDir}
  <2>1. p # ConfigDir
    <3>1. Len(ConfigDir) # Len(p)
      BY <1>3, <1>9
    <3> QED BY <3>1
  <2>2. p[1] # "state"
    BY <1>1, NamespaceRoots
  <2> QED BY <2>1, <2>2, NamespaceRoots
<1>5. /\ IsPrefix(p, top) \/ Below(top, p)
      /\ i = "user" => p = profiles \/ ~UserCustomProfilePath(p)
  BY <1>4 DEF InstallNamespaceDirectory, IsPolicySetDirectory, Placed
<1>6. IsPrefix(d, top) \/ Below(top, d)
  <2>1. CASE IsPrefix(p, top)
    <3>1. IsPrefix(d, top)
      BY <1>1, <1>2, <2>1 DEF Below, IsStrictPrefix, IsPrefix, Path
    <3> QED BY <3>1
  <2>2. CASE Below(top, p)
    <3>1. top \in Parents(p)
      BY <1>2, <2>2, BelowParents
    <3>2. d = top \/ d \in Parents(top) \/ IsPrefix(top, d)
      BY <3>1, ParentsComparable
    <3>3. IsPrefix(top, top)
      BY <1>2 DEF IsPrefix, Path
    <3>4. d \in Parents(top) => Below(d, top)
      BY <1>2, ParentsOf
    <3> HIDE DEF top
    <3> QED BY <3>2, <3>3, <3>4 DEF Below, IsStrictPrefix
  <2> QED BY <1>5, <2>1, <2>2
<1>7. ASSUME i = "user", UserCustomProfilePath(d), d # profiles PROVE FALSE
  <2>1. IsPrefix(profiles, d) /\ ~IsPrefix(builtin, d)
    BY <1>7 DEF UserCustomProfilePath
  <2>2. IsPrefix(profiles, p)
    BY <1>1, <1>3, <2>1, PrefixBelow
  <2>3. Len(d) >= 4
    <3>1. Below(profiles, d)
      BY <1>7, <2>1 DEF Below, IsStrictPrefix
    <3> HIDE DEF profiles
    <3>2. Len(profiles) < Len(d)
      BY <1>1, <1>3, <3>1, BelowLonger
    <3> QED BY <1>1, <1>3, <3>2
  <2>4. p # profiles
    BY <1>1, <1>3, <2>3
  <2>5. ~UserCustomProfilePath(p)
    BY <1>5, <1>7, <2>4
  <2>6. IsPrefix(builtin, p)
    BY <2>2, <2>5 DEF UserCustomProfilePath
  <2> HIDE DEF profiles, builtin
  <2>7. builtin # p
    <3>1. Len(p) # 4
      BY <1>9, <2>3
    <3>2. Len(builtin) = 4
      BY <1>3
    <3> QED BY <3>1, <3>2
  <2>8. Below(builtin, p)
    BY <2>6, <2>7 DEF Below, IsStrictPrefix
  <2>9. builtin \in Parents(p)
    <3>1. builtin \in Path /\ Len(builtin) >= 2
      BY <1>3
    <3> QED BY <2>8, <3>1, BelowParents
  <2>10. builtin = d \/ builtin \in Parents(d) \/ IsPrefix(d, builtin)
    BY <2>9, ParentsComparable
  <2>11. IsPrefix(builtin, builtin)
    BY <1>3 DEF IsPrefix, Path
  <2>12. builtin \notin Parents(d)
    BY <1>1, <2>1, ParentsOf DEF Below, IsStrictPrefix
  <2>13. IsPrefix(d, builtin) /\ d # builtin
    BY <2>1, <2>10, <2>11, <2>12
  <2>14. Len(d) < Len(builtin)
    BY <1>1, <1>3, <2>13, BelowLonger DEF Below, IsStrictPrefix
  <2> QED BY <1>1, <1>3, <2>3, <2>14
<1>8. IsPolicySetDirectory(i, d)
  BY <1>1, <1>6, <1>7 DEF IsPolicySetDirectory
<1> QED BY <1>8 DEF InstallNamespaceDirectory

(* Said of the steps of the two plans.                                     *)
LEMMA ClearingBehind ==
    ASSUME NEW A, NEW a \in Seq(A), NEW s \in Seq(A), Clearing(a), Clearing(s),
           \A x \in ToSet(a) : x.op = "rmdir" /\ Len(x.path) >= 2 =>
               \A y \in ToSet(s) : y.op \in {"rmdir", "remove"} => ~Below(x.path, y.path)
    PROVE  a \o s \in Seq(A) /\ Clearing(a \o s) /\ ToSet(a \o s) = ToSet(a) \union ToSet(s)
<1>1. (\A n \in DOMAIN a : a[n] \in ToSet(a)) /\ (\A n \in DOMAIN s : s[n] \in ToSet(s))
  BY DEF ToSet
<1>2. \A n \in DOMAIN a : a[n].op = "rmdir" /\ Len(a[n].path) >= 2 =>
          \A m \in DOMAIN s : s[m].op \in {"rmdir", "remove"} => ~Below(a[n].path, s[m].path)
  BY <1>1
<1>3. a \o s \in Seq(A) /\ Clearing(a \o s)
  BY <1>2, ClearingJoined
<1>4. ToSet(a \o s) = ToSet(a) \union ToSet(s)
  BY JoinedSet
<1> QED BY <1>3, <1>4

(* The plan of an uninstall clears what it removes, and leaves out nothing  *)
(* that is to go.                                                          *)
LEMMA UninstallClears ==
    ASSUME NEW t, NEW q, q.owner \in Installations, Installed(t, q.owner),
           Kept(q.owner, t.record[q.owner]), RecordFits(q.owner, t.record[q.owner])
    PROVE  LET r == t.record[q.owner]
           IN \E plan \in Seq(UninstallPart(t, q)) :
                 /\ UninstallSteps(t, q) = WithBackup(t, q, plan) /\ Clearing(plan)
                 /\ Dropped(r.dirs \ RetainedDirectories(t, q)) \subseteq ToSet(plan)
                 /\ Record(q.owner, UninstallRecord(t, q)) \in ToSet(plan)
                 /\ \A x \in r.targets :
                       (\A y \in Remaining(t, q) : y.path # x.path) => UninstallTarget(t, x) \in ToSet(plan)
                 /\ Remaining(t, q) = {} => \A p \in DOMAIN r.policy : Unlink(p) \in ToSet(plan)
<1> DEFINE i == q.owner
           r == t.record[i]
           R == UninstallRecord(t, q)
           P == DOMAIN r.policy \union {PolicyPath(i)}
           remaining == Remaining(t, q)
           removed == {x \in r.targets \ remaining : ~\E y \in remaining : y.path = x.path}
           rank == [x \in removed |-> TargetArtifactPosition(x)]
           gone == Ordered(removed, rank)
           unlinked == [n \in DOMAIN gone |-> UninstallTarget(t, gone[n])]
           targets == DistinctActions(unlinked)
           directories == r.dirs \ RetainedDirectories(t, q)
           policy == PolicyActions(i, DOMAIN r.policy)
           namespaces == {d \in directories : InstallNamespaceDirectory(i, d)}
           PolicyStep(n) == IF remaining = {} THEN Unlink(policy[n]) ELSE Retain(policy[n])
           files == [n \in DOMAIN policy |-> PolicyStep(n)]
           front == RemoveDirectories(directories \ namespaces)
           leftover == RemoveDirectories(namespaces)
           plan == targets \o front \o files \o <<Record(i, R)>> \o leftover
           X == UninstallPart(t, q)
<1>1. UninstallSteps(t, q) = WithBackup(t, q, plan)
  BY DEF UninstallSteps
<1>2. Sized(r) /\ InScope(i, r)
  BY DEF Kept
<1>3. \A x \in removed : x \in r.targets /\ x.target \in q.targets
  BY DEF Remaining
<1>4. targets \in Seq(X) /\ ToSet(targets) = {UninstallTarget(t, x) : x \in removed}
  <2>1. \A x \in removed : rank[x] \in Nat
    <3>1. \A x \in removed : TargetArtifactPosition(x) \in Nat
      BY <1>3, PositionOf
    <3> HIDE DEF removed
    <3> QED BY <3>1
  <2>2. IsFiniteSet(removed)
    <3>1. removed \in SUBSET r.targets
      OBVIOUS
    <3> HIDE DEF removed
    <3> QED BY <1>2, <3>1, FS_Subset DEF Sized
  <2>3. gone \in Seq(removed) /\ ToSet(gone) = removed
    <3> HIDE DEF removed, rank
    <3> QED BY <2>1, <2>2, OrderedMembers
  <2> DEFINE Y == {UninstallTarget(t, x) : x \in removed}
  <2>4. Y \subseteq X
    BY <1>3 DEF UninstallPart
  <2> HIDE DEF gone, removed
  <2>5. unlinked \in Seq(Y) /\ ToSet(unlinked) = Y
    <3>1. Maps(unlinked, gone, Y)
      <4>1. DOMAIN unlinked = DOMAIN gone /\ \A n \in DOMAIN gone : unlinked[n] = UninstallTarget(t, gone[n])
        OBVIOUS
      <4>2. \A n \in DOMAIN gone : gone[n] \in removed
        BY <2>3 DEF ToSet
      <4>3. unlinked \in [DOMAIN gone -> Y]
        BY <4>2
      <4>4. \A y \in Y : \E x \in ToSet(gone) : \A n \in DOMAIN gone : gone[n] = x => unlinked[n] = y
        BY <2>3, <4>1
      <4> QED BY <4>3, <4>4 DEF Maps
    <3> HIDE DEF unlinked, Y
    <3> QED BY <2>3, <3>1, MappedSet
  <2> HIDE DEF unlinked, Y, X
  <2>6. unlinked \in Seq(X)
    BY <2>4, <2>5
  <2>7. targets \in Seq(X) /\ ToSet(targets) = Y
    BY <2>5, <2>6, DistinctActionsOf
  <2> QED BY <2>7 DEF Y
<1>5. \A x \in ToSet(targets) : x.op # "rmdir"
  <2>1. \A x : UninstallTarget(t, x).op # "rmdir"
    BY DEF UninstallTarget, Unlink, Write
  <2> HIDE DEF targets, removed
  <2> QED BY <1>4, <2>1
<1>6. /\ files \in Seq(X)
      /\ \A y \in ToSet(files) : y.op # "rmdir" /\ (y.op = "remove" => y.path \in P)
      /\ remaining = {} => \A p \in DOMAIN r.policy : Unlink(p) \in ToSet(files)
  <2>1. policy \in Seq(P) /\ ToSet(policy) = P
    BY <1>2, PolicyActionsIn DEF Sized
  <2> HIDE DEF policy
  <2>2. DOMAIN policy = 1..Len(policy) /\ Len(policy) \in Nat /\ \A n \in 1..Len(policy) : policy[n] \in P
    <3> HIDE DEF P
    <3> QED BY <2>1
  <2>3. \A n \in 1..Len(policy) : /\ PolicyStep(n) \in X /\ PolicyStep(n).op # "rmdir"
                                  /\ PolicyStep(n).op = "remove" => PolicyStep(n).path \in P
    BY <2>2 DEF UninstallPart, Unlink, Retain
  <2>4. ASSUME remaining = {}, NEW p \in DOMAIN r.policy PROVE Unlink(p) \in ToSet(files)
    <3>1. PICK n \in DOMAIN policy : policy[n] = p
      BY <2>1 DEF ToSet
    <3>2. n \in DOMAIN files /\ files[n] = Unlink(p)
      BY <2>4, <3>1
    <3> QED BY <3>2 DEF ToSet
  <2> HIDE DEF X, PolicyStep, P
  <2>5. \A y \in ToSet(files) : y.op # "rmdir" /\ (y.op = "remove" => y.path \in P)
    BY <2>2, <2>3 DEF ToSet
  <2> QED BY <2>2, <2>3, <2>4, <2>5
<1>7. ASSUME NEW D, D \in SUBSET r.dirs
      PROVE  /\ RemoveDirectories(D) \in Seq(X) /\ Clearing(RemoveDirectories(D))
             /\ ToSet(RemoveDirectories(D)) = Dropped(D)
  <2>1. IsFiniteSet(r.dirs) /\ r.dirs \subseteq Path
    BY <1>2 DEF Sized, InScope, DirectoryInScope
  <2>2. IsFiniteSet(D) /\ D \subseteq Path
    <3> HIDE DEF r
    <3> QED BY <1>7, <2>1, FS_Subset
  <2>3. /\ RemoveDirectories(D) \in Seq(Dropped(D)) /\ Clearing(RemoveDirectories(D))
        /\ ToSet(RemoveDirectories(D)) = Dropped(D)
    BY <2>2, RemoveDirectoriesClear
  <2>4. Dropped(D) \subseteq X
    BY <1>7 DEF Dropped, UninstallPart
  <2> HIDE DEF X
  <2> QED BY <2>3, <2>4
<1>8. /\ front \in Seq(X) /\ Clearing(front) /\ ToSet(front) = Dropped(directories \ namespaces)
      /\ leftover \in Seq(X) /\ Clearing(leftover) /\ ToSet(leftover) = Dropped(namespaces)
  <2>1. directories \ namespaces \in SUBSET r.dirs /\ namespaces \in SUBSET r.dirs
    OBVIOUS
  <2> HIDE DEF namespaces, directories, X
  <2> QED BY <1>7, <2>1
<1>9. <<Record(i, R)>> \in Seq(X) /\ ToSet(<<Record(i, R)>>) = {Record(i, R)} /\ Record(i, R).op = "record"
  <2>1. Record(i, R) \in X /\ Record(i, R).op = "record"
    BY DEF UninstallPart, Record
  <2> HIDE DEF X, R
  <2> QED BY <2>1, SingleSet
<1>10. ASSUME NEW d \in directories \ namespaces, Len(d) >= 2,
              NEW p \in Path, Placed(i, p) \/ InstallNamespaceDirectory(i, p)
       PROVE  ~Below(d, p)
  <2>1. d \in Path /\ (d \in Namespaces(i) \/ d[1] \in Scope(i)) /\ ~InstallNamespaceDirectory(i, d)
    BY <1>2, <1>10 DEF InScope, DirectoryInScope
  <2>2. d[1] \in Scope(i)
    BY <2>1, NamespacesOf
  <2> QED BY <1>10, <2>1, <2>2, BelowParents, NamespaceAbove
<1>11. \A p \in P : p \in Path /\ Placed(i, p)
  BY FittingPolicy, PolicyPlaced
<1>12. \A d \in namespaces : d \in Path /\ InstallNamespaceDirectory(i, d)
  BY <1>2 DEF InScope, DirectoryInScope
<1>13. \A x \in Dropped(directories \ namespaces) : x.op = "rmdir" /\ x.path \in directories \ namespaces
  BY DEF Dropped, Rmdir
<1>14. \A y \in Dropped(namespaces) : y.op = "rmdir" /\ y.path \in namespaces
  BY DEF Dropped, Rmdir
<1> DEFINE dropped == directories \ namespaces
           two == targets \o front
           three == two \o files
           four == three \o <<Record(i, R)>>
<1>15. Dropped(directories) = Dropped(dropped) \union Dropped(namespaces)
  BY DEF Dropped
<1>16. \A x \in r.targets : (\A y \in remaining : y.path # x.path) => UninstallTarget(t, x) \in ToSet(targets)
  BY <1>4
<1> HIDE DEF targets, front, files, leftover, X, R, dropped, directories, namespaces, P, remaining, r
<1>17. Clearing(targets) /\ Clearing(files) /\ Clearing(<<Record(i, R)>>)
  BY <1>5, <1>6, <1>9 DEF Clearing, ToSet
<1>18. two \in Seq(X) /\ Clearing(two) /\ ToSet(two) = ToSet(targets) \union ToSet(front)
  BY <1>4, <1>5, <1>8, <1>17, ClearingBehind
<1> HIDE DEF two
<1>19. \A x \in ToSet(two) : x.op = "rmdir" => x.path \in dropped
  BY <1>5, <1>8, <1>13, <1>18 DEF dropped
<1>20. three \in Seq(X) /\ Clearing(three) /\ ToSet(three) = ToSet(two) \union ToSet(files)
  <2>1. \A x \in ToSet(two) : x.op = "rmdir" /\ Len(x.path) >= 2 =>
            \A y \in ToSet(files) : y.op \in {"rmdir", "remove"} => ~Below(x.path, y.path)
    BY <1>6, <1>10, <1>11, <1>19 DEF dropped
  <2> QED BY <1>6, <1>17, <1>18, <2>1, ClearingBehind
<1> HIDE DEF three
<1>21. \A x \in ToSet(three) : x.op = "rmdir" => x.path \in dropped
  BY <1>6, <1>19, <1>20
<1>22. four \in Seq(X) /\ Clearing(four) /\ ToSet(four) = ToSet(three) \union {Record(i, R)}
  <2> DEFINE one == <<Record(i, R)>>
  <2>1. one \in Seq(X) /\ Clearing(one) /\ ToSet(one) = {Record(i, R)}
    BY <1>9, <1>17
  <2>2. four = three \o one
    OBVIOUS
  <2> HIDE DEF one, four
  <2>3. \A x \in ToSet(three) : x.op = "rmdir" /\ Len(x.path) >= 2 =>
            \A y \in ToSet(one) : y.op \in {"rmdir", "remove"} => ~Below(x.path, y.path)
    BY <1>9, <2>1
  <2>4. /\ three \o one \in Seq(X) /\ Clearing(three \o one)
        /\ ToSet(three \o one) = ToSet(three) \union ToSet(one)
    BY <1>20, <2>1, <2>3, ClearingBehind
  <2> QED BY <2>1, <2>2, <2>4
<1> HIDE DEF four
<1>23. plan \in Seq(X) /\ Clearing(plan) /\ ToSet(plan) = ToSet(four) \union ToSet(leftover)
  <2>1. \A x \in ToSet(four) : x.op = "rmdir" => x.path \in dropped
    BY <1>9, <1>21, <1>22
  <2>2. \A x \in ToSet(four) : x.op = "rmdir" /\ Len(x.path) >= 2 =>
            \A y \in ToSet(leftover) : y.op \in {"rmdir", "remove"} => ~Below(x.path, y.path)
    BY <1>8, <1>10, <1>12, <1>14, <2>1 DEF dropped
  <2>3. four \o leftover = plan
    BY DEF four, three, two
  <2>4. four \o leftover \in Seq(X) /\ Clearing(four \o leftover) /\ ToSet(four \o leftover) = ToSet(four) \union ToSet(leftover)
    BY <1>8, <1>22, <2>2, ClearingBehind
  <2> HIDE DEF plan
  <2> QED BY <2>3, <2>4
<1> HIDE DEF plan
<1>24. ToSet(plan) = ToSet(targets) \union ToSet(front) \union ToSet(files) \union {Record(i, R)} \union ToSet(leftover)
  BY <1>18, <1>20, <1>22, <1>23
<1>25. Dropped(directories) \subseteq ToSet(plan)
  BY <1>8, <1>15, <1>24 DEF dropped
<1> QED BY <1>1, <1>6, <1>16, <1>23, <1>24, <1>25 DEF X, R, directories, remaining, r

(* Some path of a finite set is the longest.                               *)
LEMMA DeepestOfSet ==
    ASSUME NEW K, IsFiniteSet(K), K # {}, K \subseteq Path
    PROVE  \E e \in K : \A f \in K : Len(f) <= Len(e)
<1> DEFINE rank == [d \in K |-> Len(d)]
           s == Ordered(K, rank)
<1>1. \A d \in K : rank[d] \in Nat /\ rank[d] = Len(d)
  BY DEF Path
<1> HIDE DEF rank
<1>2. s \in Seq(K) /\ ToSet(s) = K
  BY <1>1, OrderedMembers
<1>3. \A n \in DOMAIN s : \A m \in 1..n : rank[s[m]] <= rank[s[n]]
  BY <1>1, OrderedSorted
<1> HIDE DEF s
<1>4. Len(s) \in Nat /\ DOMAIN s = 1..Len(s) /\ Len(s) # 0
  BY <1>2 DEF ToSet
<1>5. s[Len(s)] \in K
  BY <1>2, <1>4
<1>6. ASSUME NEW f \in K PROVE Len(f) <= Len(s[Len(s)])
  <2>1. PICK m \in 1..Len(s) : s[m] = f
    BY <1>2, <1>4 DEF ToSet
  <2> QED BY <1>1, <1>3, <1>4, <1>5, <2>1
<1> QED BY <1>5, <1>6
-----------------------------------------------------------------------------
(* What a record names; what in a tree it does not count as OAW's: files    *)
(* it does not name, and files that were there before OAW's block.          *)
Recorded(r) == DOMAIN r.policy \union {x.path : x \in r.targets}
Theirs(t, i) == (DOMAIN t.files \ Recorded(t.record[i]))
                    \union {x.path : x \in {y \in t.record[i].targets : y.origin # "created-file"}}

(* Everything OAW wrote in a scope is on record: its files by name, and a   *)
(* directory unless it was there before or something of theirs lies below.  *)
Accounted(t, i) ==
    /\ \A p \in Rendering(t) : p[1] \in Scope(i) => p \in Recorded(t.record[i])
    /\ \A d \in t.dirs : d[1] \in Scope(i) =>
          d \in UserDirs \union t.record[i].dirs \/ \E w \in Theirs(t, i) : Below(d, w)

(* An uninstall of something, and the tree it was prepared on.              *)
Uninstalling(t, seen, q) ==
    /\ q.owner \in Installations /\ Installed(seen, q.owner) /\ seen.record[q.owner] = t.record[q.owner]
    /\ Kept(q.owner, t.record[q.owner]) /\ RecordFits(q.owner, t.record[q.owner])
    /\ DOMAIN t.record = Installations

(* Its steps: what each may be, and what certainly is among them.           *)
LEMMA UninstallSteady ==
    ASSUME NEW t, NEW seen, NEW q, Uninstalling(t, seen, q)
    PROVE  LET i == q.owner
               r == t.record[i]
               R == UninstallRecord(seen, q)
               steps == UninstallSteps(seen, q)
               P == DOMAIN r.policy \union {PolicyPath(i)}
           IN \E Y : /\ steps \in Seq(Y) /\ Clearing(steps)
                     /\ \A y \in Y : y.op # "mkdir" /\ (y.op = "record" => y = Record(i, R))
                     /\ \A y \in Y : Touches(y) => \/ \E x \in r.targets : y = UninstallTarget(seen, x)
                                                   \/ y.op = "remove" /\ y.path \in P
                     /\ Record(i, R) \in ToSet(steps)
                     /\ Dropped(r.dirs \ RetainedDirectories(seen, q)) \subseteq ToSet(steps)
                     /\ \A x \in r.targets : (\A y \in Remaining(seen, q) : y.path # x.path) =>
                           UninstallTarget(seen, x) \in ToSet(steps)
                     /\ Remaining(seen, q) = {} => \A p \in DOMAIN r.policy : Unlink(p) \in ToSet(steps)
<1> DEFINE i == q.owner
           r == t.record[i]
           R == UninstallRecord(seen, q)
           steps == UninstallSteps(seen, q)
           P == DOMAIN r.policy \union {PolicyPath(i)}
           X == UninstallPart(seen, q)
<1>1. i \in Installations /\ Installed(seen, i) /\ seen.record[i] = r /\ Kept(i, r) /\ RecordFits(i, r)
  BY DEF Uninstalling
<1>2. PICK plan \in Seq(X) :
          /\ steps = WithBackup(seen, q, plan) /\ Clearing(plan)
          /\ Dropped(r.dirs \ RetainedDirectories(seen, q)) \subseteq ToSet(plan)
          /\ Record(i, R) \in ToSet(plan)
          /\ \A x \in r.targets :
                (\A y \in Remaining(seen, q) : y.path # x.path) => UninstallTarget(seen, x) \in ToSet(plan)
          /\ Remaining(seen, q) = {} => \A p \in DOMAIN r.policy : Unlink(p) \in ToSet(plan)
  BY <1>1, UninstallClears
<1>3. PICK b : b.op = "backup" /\ steps \in Seq(X \union {b})
  BY <1>2, BackupIn
<1>4. Clearing(steps) /\ ToSet(plan) \subseteq ToSet(steps)
  BY <1>2, BackupClears
<1>5. ASSUME NEW y \in X \union {b}
      PROVE  /\ y.op # "mkdir" /\ (y.op = "record" => y = Record(i, R))
             /\ Touches(y) => \/ \E x \in r.targets : y = UninstallTarget(seen, x)
                              \/ y.op = "remove" /\ y.path \in P
  <2>1. CASE y = b
    BY <1>3, <2>1 DEF Touches
  <2>2. ASSUME NEW x \in r.targets, y = UninstallTarget(seen, x)
        PROVE  y.op # "mkdir" /\ y.op # "record"
    BY <2>2 DEF UninstallTarget, Unlink, Write
  <2>3. ASSUME y \in {Unlink(p) : p \in P}
        PROVE  y.op = "remove" /\ y.path \in P
    BY <2>3 DEF Unlink
  <2>4. ASSUME y \in {Retain(p) : p \in P} \union {Record(i, R)} \union Dropped(r.dirs)
        PROVE  /\ y.op # "mkdir" /\ (y.op = "record" => y = Record(i, R)) /\ ~Touches(y)
    BY <2>4 DEF Retain, Record, Dropped, Rmdir, Touches
  <2>5. y # b => \/ \E x \in r.targets : y = UninstallTarget(seen, x)
                 \/ y \in {Unlink(p) : p \in P}
                 \/ y \in {Retain(p) : p \in P} \union {Record(i, R)} \union Dropped(r.dirs)
    BY <1>1 DEF UninstallPart
  <2> HIDE DEF P, R, r
  <2> QED BY <2>1, <2>2, <2>3, <2>4, <2>5
<1> HIDE DEF X, steps, R, P, r
<1>6. Dropped(r.dirs \ RetainedDirectories(seen, q)) \subseteq ToSet(steps) /\ Record(i, R) \in ToSet(steps)
  BY <1>2, <1>4
<1>7. \A x \in r.targets : (\A y \in Remaining(seen, q) : y.path # x.path) => UninstallTarget(seen, x) \in ToSet(steps)
  BY <1>2, <1>4
<1>8. Remaining(seen, q) = {} => \A p \in DOMAIN r.policy : Unlink(p) \in ToSet(steps)
  BY <1>2, <1>4
<1> QED BY <1>3, <1>4, <1>5, <1>6, <1>7, <1>8 DEF r, R, steps, P

(* The steps of an uninstall that write or remove a file: the targets, from *)
(* which the block goes, and the Policy Set.                               *)
LEMMA UninstallTouches ==
    ASSUME NEW t, NEW seen, NEW q, Uninstalling(t, seen, q), NEW y, Touches(y),
           \/ \E x \in t.record[q.owner].targets : y = UninstallTarget(seen, x)
           \/ y.op = "remove" /\ y.path \in DOMAIN t.record[q.owner].policy \union {PolicyPath(q.owner)}
    PROVE  /\ y.path \in Recorded(t.record[q.owner])
           /\ y.op = "write" => y.to.body = 0
           /\ \A x \in t.record[q.owner].targets : y.path = x.path =>
                 (y.op = "write" <=> UninstallTarget(seen, x).op = "write")
<1> DEFINE i == q.owner
           r == t.record[i]
<1>1. i \in Installations /\ r # NoRecord /\ Kept(i, r) /\ RecordFits(i, r)
  BY DEF Uninstalling, Installed
<1>2. \A x : /\ UninstallTarget(seen, x).path = x.path
             /\ UninstallTarget(seen, x).op = "write" => UninstallTarget(seen, x).to.body = 0
  BY DEF UninstallTarget, Unlink, Write, RenderManagedFileWithoutBlock
<1>3. PolicyPath(i) \in DOMAIN r.policy
  BY <1>1, ReleasePolicy DEF RecordFits
<1>4. \A x \in r.targets : \A z \in r.targets : z.path = x.path => z.mode = x.mode /\ z.origin = x.origin
  BY <1>1 DEF Kept, Readable, ParseInstallationState, ValidateTargetRecords, At
<1>5. \A x \in r.targets : \A z \in r.targets : z.path = x.path => UninstallTarget(seen, z) = UninstallTarget(seen, x)
  BY <1>4 DEF UninstallTarget
<1>6. ASSUME y.op = "remove", y.path \in DOMAIN r.policy \union {PolicyPath(i)}, NEW x \in r.targets
      PROVE  y.path # x.path
  <2>1. IsPrefix(PolicyDir(i), y.path)
    BY <1>1, <1>3, <1>6, FittingPolicy DEF Placed, Below, IsStrictPrefix
  <2>2. ~IsPrefix(PolicyDir(i), x.path)
    BY <1>1, DestinationApart DEF RecordFits, TargetFits
  <2> QED BY <2>1, <2>2
<1> HIDE DEF r
<1>7. CASE \E x \in r.targets : y = UninstallTarget(seen, x)
  BY <1>2, <1>5, <1>7 DEF Recorded, r
<1>8. CASE y.op = "remove" /\ y.path \in DOMAIN r.policy \union {PolicyPath(i)}
  BY <1>3, <1>6, <1>8 DEF Recorded, r
<1> QED BY <1>7, <1>8 DEF r

(* After an uninstall no file of OAW's is unrecorded, and nothing of the    *)
(* users' was taken.                                                       *)
LEMMA UninstallFiles ==
    ASSUME NEW t, NEW seen, NEW q, Uninstalling(t, seen, q), Accounted(t, q.owner)
    PROVE  LET u == Run(t, UninstallSteps(seen, q))
               i == q.owner
           IN /\ u.record[i] = UninstallRecord(seen, q)
              /\ u.dirs \subseteq t.dirs \union {StateDir, BackupRoot}
              /\ \A p \in Rendering(u) : p[1] \in Scope(i) => p \in Recorded(u.record[i])
              /\ Theirs(t, i) \subseteq Theirs(u, i)
<1> DEFINE i == q.owner
           r == t.record[i]
           R == UninstallRecord(seen, q)
           steps == UninstallSteps(seen, q)
           u == Run(t, steps)
           remaining == Remaining(seen, q)
<1>1. i \in Installations /\ r # NoRecord /\ Kept(i, r) /\ RecordFits(i, r) /\ seen.record[i] = r
  BY DEF Uninstalling, Installed
<1>2. PICK Y :
          /\ steps \in Seq(Y) /\ Clearing(steps)
          /\ \A y \in Y : y.op # "mkdir" /\ (y.op = "record" => y = Record(i, R))
          /\ \A y \in Y : Touches(y) => \/ \E x \in r.targets : y = UninstallTarget(seen, x)
                                        \/ y.op = "remove" /\ y.path \in DOMAIN r.policy \union {PolicyPath(i)}
          /\ Record(i, R) \in ToSet(steps)
          /\ Dropped(r.dirs \ RetainedDirectories(seen, q)) \subseteq ToSet(steps)
          /\ \A x \in r.targets : (\A y \in remaining : y.path # x.path) =>
                UninstallTarget(seen, x) \in ToSet(steps)
          /\ remaining = {} => \A p \in DOMAIN r.policy : Unlink(p) \in ToSet(steps)
  BY UninstallSteady
<1>3. /\ R.targets = remaining /\ remaining \subseteq r.targets
      /\ R.policy = IF remaining = {} THEN <<>> ELSE r.policy
  <2>1. remaining \subseteq r.targets
    BY <1>1 DEF Remaining
  <2>2. CASE remaining = {}
    BY <2>1, <2>2 DEF UninstallRecord, NoRecord
  <2>3. CASE remaining # {}
    <3>1. R = [r EXCEPT !.targets = remaining, !.dirs = RetainedDirectories(seen, q)]
      BY <1>1, <2>3 DEF UninstallRecord
    <3>2. DOMAIN r = {"legacy", "version", "policy", "dirs", "targets"}
      BY <1>1 DEF Kept, InScope
    <3> HIDE DEF R, r, remaining
    <3> QED BY <2>1, <2>3, <3>1, <3>2
  <2> QED BY <2>2, <2>3
<1> HIDE DEF steps, R, u, remaining
<1>4. u.dirs \subseteq t.dirs \union {StateDir, BackupRoot} /\ u.record = [t.record EXCEPT ![i] = R]
  <2>1. steps \in Seq(Y)
    BY <1>2
  <2>2. Shrinking(Y, i, R)
    BY <1>2 DEF Shrinking
  <2>3. Record(i, R) \in ToSet(steps)
    BY <1>2
  <2> HIDE DEF i, r
  <2>4. Shrunk(t, u, i, R)
    BY <2>1, <2>2, <2>3, RunShrinks DEF u
  <2> QED BY <2>4 DEF Shrunk
<1>5. u.record[i] = R
  BY <1>1, <1>4 DEF Uninstalling
<1>6. \A p : Traced(t, u, steps, Len(steps), p)
  BY <1>2, RunTraced DEF u
<1>7. ASSUME NEW k \in 1..Len(steps), Touches(steps[k])
      PROVE  /\ steps[k].path \in Recorded(r) /\ (steps[k].op = "write" => steps[k].to.body = 0)
             /\ \A x \in r.targets : steps[k].path = x.path =>
                   (steps[k].op = "write" <=> UninstallTarget(seen, x).op = "write")
  <2>1. steps[k] \in Y
    BY <1>2
  <2> HIDE DEF i
  <2> QED BY <1>2, <1>7, <2>1, UninstallTouches DEF r, i
<1>8. ASSUME NEW y \in ToSet(steps), Touches(y)
      PROVE  \E k \in 1..Len(steps) : Touches(steps[k]) /\ steps[k].path = y.path
  BY <1>2, <1>8 DEF ToSet
<1>9. DOMAIN R.policy \subseteq DOMAIN r.policy /\ Recorded(R) \subseteq Recorded(r)
  BY <1>3 DEF Recorded
<1>10. \A x : UninstallTarget(seen, x).path = x.path /\ Touches(UninstallTarget(seen, x))
  BY DEF UninstallTarget, Unlink, Write, Touches
<1>11. \A p : Unlink(p).path = p /\ Touches(Unlink(p))
  BY DEF Unlink, Touches
<1>12. ASSUME NEW p \in Recorded(r), \A k \in 1..Len(steps) : Touches(steps[k]) => steps[k].path # p
       PROVE  p \in Recorded(R)
  <2>1. CASE p \in DOMAIN r.policy
    <3>1. remaining # {}
      BY <1>2, <1>8, <1>11, <1>12, <2>1
    <3> QED BY <1>3, <2>1, <3>1 DEF Recorded
  <2>2. ASSUME NEW x \in r.targets, p = x.path PROVE p \in Recorded(R)
    <3>1. PICK y \in remaining : y.path = x.path
      BY <1>2, <1>8, <1>10, <1>12, <2>2
    <3> QED BY <1>3, <2>2, <3>1 DEF Recorded
  <2> QED BY <1>12, <2>1, <2>2 DEF Recorded
<1>13. ASSUME NEW p \in Rendering(u), p[1] \in Scope(i) PROVE p \in Recorded(R)
  <2>1. p \in DOMAIN u.files /\ u.files[p].body # 0
    BY <1>13 DEF Rendering
  <2>2. CASE Same(t, u, p) /\ \A k \in 1..Len(steps) : Touches(steps[k]) => steps[k].path # p
    <3>1. p \in Rendering(t)
      BY <2>1, <2>2 DEF Same, Rendering
    <3>2. p \in Recorded(r)
      BY <1>13, <3>1 DEF Accounted
    <3> QED BY <1>12, <2>2, <3>2
  <2>3. ASSUME NEW k \in 1..Len(steps), steps[k].op = "write", u.files[p] = steps[k].to PROVE FALSE
    BY <1>7, <2>1, <2>3 DEF Touches
  <2> QED BY <1>6, <2>1, <2>2, <2>3 DEF Traced
<1>14. ASSUME NEW w \in DOMAIN t.files, w \notin Recorded(r) PROVE w \in Theirs(u, i)
  <2>1. Same(t, u, w)
    BY <1>6, <1>7, <1>14 DEF Traced, Touches
  <2> QED BY <1>5, <1>9, <1>14, <2>1 DEF Theirs, Same
<1>15. ASSUME NEW x \in r.targets, x.origin # "created-file" PROVE x.path \in Theirs(u, i)
  <2>1. \A z \in r.targets : z.path = x.path => z.origin = x.origin
    BY <1>1 DEF Kept, Readable, ParseInstallationState, ValidateTargetRecords, At
  <2>2. ASSUME NEW y \in remaining, y.path = x.path PROVE x.path \in Theirs(u, i)
    BY <1>3, <1>5, <1>15, <2>1, <2>2 DEF Theirs
  <2>3. ASSUME \A y \in remaining : y.path # x.path PROVE x.path \in Theirs(u, i)
    <3>1. UninstallTarget(seen, x) \in ToSet(steps)
      BY <1>2, <2>3
    <3>2. UninstallTarget(seen, x).op = "write"
      <4>1. x.mode # "owned-file"
        BY <1>1, <1>15 DEF Kept, Readable, ParseInstallationState, ValidateTargetRecords
      <4> QED BY <1>15, <4>1 DEF UninstallTarget, Write
    <3>3. x.path \in DOMAIN u.files
      BY <1>6, <1>7, <1>8, <1>10, <3>1, <3>2 DEF Traced, Touches
    <3>4. x.path \notin DOMAIN r.policy
      <4>1. ~IsPrefix(PolicyDir(i), x.path)
        BY <1>1, DestinationApart DEF RecordFits, TargetFits
      <4> QED BY <1>1, <4>1, FittingPolicy DEF Placed, Below, IsStrictPrefix
    <3>5. x.path \notin Recorded(R)
      BY <1>3, <1>9, <2>3, <3>4 DEF Recorded
    <3> QED BY <1>5, <3>3, <3>5 DEF Theirs
  <2> QED BY <2>2, <2>3
<1>16. Theirs(t, i) \subseteq Theirs(u, i)
  BY <1>14, <1>15 DEF Theirs
<1> QED BY <1>4, <1>5, <1>13, <1>16 DEF u, R, steps

(* What an uninstall retains is closed towards the root.                   *)
LEMMA RetainedAbove ==
    ASSUME NEW t, NEW q, q.owner \in Installations, Kept(q.owner, t.record[q.owner]),
           NEW e \in t.record[q.owner].dirs, Len(e) >= 2, e[1] \in Scope(q.owner),
           NEW p \in Path, Below(e, p),
           \/ p \in RetainedDirectories(t, q)
           \/ Remaining(t, q) # {} /\ Placed(q.owner, p)
           \/ \E x \in Remaining(t, q) : x.origin = "created-file" /\ x.path = p
    PROVE  e \in RetainedDirectories(t, q)
<1> DEFINE i == q.owner
           r == t.record[i]
<1>1. e \in Path /\ e \in Parents(p)
  BY BelowParents DEF Kept, InScope, DirectoryInScope
<1>2. ASSUME Remaining(t, q) # {}, InstallNamespaceDirectory(i, e) PROVE e \in RetainedDirectories(t, q)
  BY <1>2 DEF RetainedDirectories
<1>3. ASSUME Remaining(t, q) # {}, InstallNamespaceDirectory(i, p) \/ Placed(i, p) PROVE e \in RetainedDirectories(t, q)
  <2>1. InstallNamespaceDirectory(i, e)
    BY <1>1, <1>3, NamespaceAbove
  <2> QED BY <1>2, <1>3, <2>1
<1>4. ASSUME NEW x \in Remaining(t, q), x.origin = "created-file", p = x.path \/ Below(p, x.path)
      PROVE  e \in RetainedDirectories(t, q)
  <2>1. x.path \in Path
    BY <1>4 DEF Kept, InScope, TargetInScope, Remaining
  <2>2. Below(e, x.path)
    <3>1. Below(p, x.path) => Below(e, x.path)
      BY <1>1, <2>1 DEF Below, IsStrictPrefix, IsPrefix, Path
    <3> QED BY <1>4, <3>1
  <2> QED BY <1>2, <1>4, <2>2 DEF RetainedDirectories
<1>5. ASSUME p \in RetainedDirectories(t, q) PROVE e \in RetainedDirectories(t, q)
  <2>1. CASE InstallNamespaceDirectory(i, p)
    BY <1>3, <1>5, <2>1 DEF RetainedDirectories
  <2>2. CASE ~InstallNamespaceDirectory(i, p)
    BY <1>4, <1>5, <2>2 DEF RetainedDirectories
  <2> QED BY <2>1, <2>2
<1> QED BY <1>3, <1>4, <1>5

(* After an uninstall every directory in the scope is accounted for.        *)
LEMMA UninstallAccounted ==
    ASSUME NEW t, NEW seen, NEW q, Uninstalling(t, seen, q), Accounted(t, q.owner), Rooted(t),
           Rooted(Run(t, UninstallSteps(seen, q)))
    PROVE  Accounted(Run(t, UninstallSteps(seen, q)), q.owner)
<1> DEFINE i == q.owner
           r == t.record[i]
           R == UninstallRecord(seen, q)
           steps == UninstallSteps(seen, q)
           u == Run(t, steps)
           K(d) == {e \in u.dirs \intersect (r.dirs \ RetainedDirectories(seen, q)) : d = e \/ Below(d, e)}
<1>1. i \in Installations /\ Kept(i, r) /\ RecordFits(i, r) /\ seen.record[i] = r
  BY DEF Uninstalling
<1>2. /\ u.record[i] = R /\ u.dirs \subseteq t.dirs \union {StateDir, BackupRoot}
      /\ \A p \in Rendering(u) : p[1] \in Scope(i) => p \in Recorded(R)
      /\ Theirs(t, i) \subseteq Theirs(u, i)
  BY UninstallFiles
<1>3. R.dirs = RetainedDirectories(seen, q) /\ R.targets = Remaining(seen, q) /\ R.dirs \subseteq r.dirs
      /\ (DOMAIN R.policy # {} => Remaining(seen, q) # {}) /\ DOMAIN R.policy \subseteq DOMAIN r.policy
  <2>1. CASE Remaining(seen, q) = {}
    BY <2>1 DEF UninstallRecord, NoRecord, RetainedDirectories
  <2>2. CASE Remaining(seen, q) # {}
    <3>1. R = [r EXCEPT !.targets = Remaining(seen, q), !.dirs = RetainedDirectories(seen, q)]
      BY <1>1, <2>2 DEF UninstallRecord
    <3>2. DOMAIN r = {"legacy", "version", "policy", "dirs", "targets"}
      BY <1>1 DEF Kept, InScope
    <3>3. RetainedDirectories(seen, q) \subseteq r.dirs
      BY <1>1 DEF RetainedDirectories
    <3> HIDE DEF R, r
    <3> QED BY <2>2, <3>1, <3>2, <3>3
  <2> QED BY <2>1, <2>2
<1>4. \E Y : /\ steps \in Seq(Y) /\ Clearing(steps) /\ \A y \in Y : y.op # "mkdir"
             /\ Dropped(r.dirs \ RetainedDirectories(seen, q)) \subseteq ToSet(steps)
  BY UninstallSteady
<1>5. Rooted(u) /\ u = Run(t, steps)
  OBVIOUS
<1>6. "state" \notin Scope(i) /\ StateDir[1] = "state" /\ BackupRoot[1] = "state"
  BY <1>1, NamespaceRoots, BackupRootOf
<1> HIDE DEF steps, R, u
<1>7. ASSUME NEW e \in u.dirs, e \in r.dirs \ RetainedDirectories(seen, q), e[1] \in Scope(i)
      PROVE  \E p \in u.dirs \union DOMAIN u.files : p \in Path /\ p[1] = e[1] /\ Below(e, p)
  <2>1. e \in Path /\ Len(e) >= 2
    BY <1>5, <1>7 DEF Rooted
  <2>2. Rmdir(e) \in ToSet(steps)
    BY <1>4, <1>7 DEF Dropped
  <2>3. e \notin {StateDir, BackupRoot}
    BY <1>6, <1>7
  <2>4. PICK p \in u.dirs \union DOMAIN u.files \union {StateFile(j) : j \in Installations} : Below(e, p)
    BY <1>4, <1>5, <1>7, <2>1, <2>2, <2>3, RunClears
  <2>5. p \in Path
    BY <1>5, NamespacesOf DEF Rooted
  <2>6. p[1] = e[1]
    BY <2>1, <2>4, <2>5, PrefixRoot DEF Below, IsStrictPrefix
  <2>7. ASSUME NEW j \in Installations, p = StateFile(j) PROVE FALSE
    <3>1. StateDir \in Parents(p)
      BY <2>7, NamespacesOf DEF Namespaces
    <3>2. p[1] = "state"
      BY <1>6, <2>5, <3>1, ParentsOf
    <3> QED BY <1>6, <1>7, <2>6, <3>2
  <2> QED BY <2>4, <2>5, <2>6, <2>7
<1>8. ASSUME NEW a \in Path, NEW b \in Path, NEW c \in Path, Below(a, b), Below(b, c)
      PROVE  Below(a, c)
  BY <1>8 DEF Below, IsStrictPrefix, IsPrefix, Path
<1>9. Theirs(t, i) \subseteq Path
  BY <1>1 DEF Theirs, Rooted, Kept, InScope, TargetInScope
<1>10. ASSUME NEW d \in u.dirs, d[1] \in Scope(i), d \notin UserDirs, d \notin R.dirs
       PROVE  \E w \in Theirs(u, i) : Below(d, w)
  <2>1. d \in t.dirs /\ d \in Path /\ Len(d) >= 2
    BY <1>2, <1>5, <1>6, <1>10 DEF Rooted
  <2>2. d \in r.dirs \/ \E w \in Theirs(t, i) : Below(d, w)
    BY <1>10, <2>1 DEF Accounted
  <2>3. ASSUME d \in r.dirs PROVE \E w \in Theirs(u, i) : Below(d, w)
    <3>1. d \in K(d) /\ K(d) \subseteq r.dirs /\ IsFiniteSet(r.dirs) /\ r.dirs \subseteq Path
      BY <1>1, <1>3, <1>10, <2>3 DEF Kept, Sized, InScope, DirectoryInScope
    <3>2. K(d) # {} /\ IsFiniteSet(K(d)) /\ K(d) \subseteq Path
      <4> HIDE DEF K
      <4> QED BY <3>1, FS_Subset
    <3>3. PICK e \in K(d) : \A f \in K(d) : Len(f) <= Len(e)
      <4> HIDE DEF K
      <4> QED BY <3>2, DeepestOfSet
    <3>4. /\ e \in u.dirs /\ e \in r.dirs \ RetainedDirectories(seen, q) /\ (d = e \/ Below(d, e))
          /\ e \in Path /\ Len(e) >= 2
      BY <1>5, <3>3 DEF Rooted
    <3>5. e[1] = d[1]
      BY <2>1, <3>4, PrefixRoot DEF Below, IsStrictPrefix
    <3>6. PICK p \in u.dirs \union DOMAIN u.files : p \in Path /\ p[1] = e[1] /\ Below(e, p)
      BY <1>7, <1>10, <3>4, <3>5
    <3>7. Below(d, p)
      BY <1>8, <2>1, <3>4, <3>6
    <3>8. ASSUME \/ p \in RetainedDirectories(seen, q)
                 \/ Remaining(seen, q) # {} /\ Placed(i, p)
                 \/ \E x \in Remaining(seen, q) : x.origin = "created-file" /\ x.path = p
          PROVE  FALSE
      <4> HIDE DEF i
      <4> QED BY <1>1, <1>10, <3>4, <3>5, <3>6, <3>8, RetainedAbove DEF i, r
    <3>9. CASE p \in DOMAIN u.files
      <4>1. CASE p \in Recorded(R)
        <5>1. ASSUME p \in DOMAIN R.policy PROVE FALSE
          <6>1. Placed(i, p)
            BY <1>1, <1>3, <5>1, FittingPolicy
          <6> QED BY <1>3, <3>8, <5>1, <6>1
        <5>2. PICK x \in R.targets : x.path = p
          BY <4>1, <5>1 DEF Recorded
        <5>3. x.origin # "created-file"
          BY <1>3, <3>8, <5>2
        <5> QED BY <1>2, <3>7, <5>2, <5>3 DEF Theirs
      <4>2. CASE p \notin Recorded(R)
        BY <1>2, <3>7, <3>9, <4>2 DEF Theirs
      <4> QED BY <4>1, <4>2
    <3>10. CASE p \in u.dirs
      <4>1. p \in t.dirs /\ p[1] \in Scope(i)
        BY <1>2, <1>6, <1>10, <3>5, <3>6, <3>10
      <4>2. p \notin UserDirs
        <5>1. d \in Parents(p)
          BY <2>1, <3>6, <3>7, BelowParents
        <5> QED BY <1>10, <5>1, UserAssumption
      <4>3. p \notin r.dirs
        <5>1. ASSUME p \in r.dirs PROVE p \in K(d)
          BY <3>7, <3>8, <3>10, <5>1
        <5>2. Len(e) < Len(p) /\ Len(e) \in Nat /\ Len(p) \in Nat
          BY <3>4, <3>6, BelowLonger DEF Path
        <5>3. p \in K(d) => Len(p) <= Len(e)
          BY <3>3
        <5> HIDE DEF K
        <5> QED BY <5>1, <5>2, <5>3
      <4>4. PICK w \in Theirs(t, i) : Below(p, w)
        BY <4>1, <4>2, <4>3 DEF Accounted
      <4>5. Below(d, w)
        BY <1>8, <1>9, <2>1, <3>6, <3>7, <4>4
      <4> QED BY <1>2, <4>4, <4>5
    <3> QED BY <3>6, <3>9, <3>10
  <2> QED BY <1>2, <2>2, <2>3
<1>11. Accounted(u, i)
  BY <1>2, <1>10 DEF Accounted
<1> QED BY <1>11 DEF u, steps

(* The record of a renewal follows the one before it: targets keep their    *)
(* files and origins, what else it counts as created was not there, and no  *)
(* Policy Set file of the old release is forgotten.                         *)
Follows(t, i, R, S, D) ==
    LET r == t.record[i]
    IN /\ \A x \in r.targets : \E y \in R.targets : y.path = x.path /\ y.origin = x.origin
       /\ \A y \in R.targets : \/ \E x \in r.targets : x.path = y.path
                               \/ y.origin # "created-file"
                               \/ y \in S /\ ~Present(t, y.path)
       /\ DOMAIN r.policy \subseteq DOMAIN R.policy \union D /\ D \subseteq DOMAIN r.policy
       /\ \A p \in DOMAIN R.policy \ DOMAIN r.policy : ~Present(t, p)
       /\ r.dirs \subseteq R.dirs

(* The steps of a renewal: they write the targets and the Policy Set, and   *)
(* remove what the Policy Set no longer has.                               *)
LEMMA RenewalSteps ==
    ASSUME NEW i \in Installations, NEW seen, NEW S, NEW R, NEW D, Renewing(i, S, R, D), NEW planned,
           NEW steps, Renews(steps, Renewal(i, seen, S, R, D), planned)
    PROVE  /\ Record(i, R) \in ToSet(steps)
           /\ \E Y : /\ steps \in Seq(Y)
                    /\ \A y \in Y : /\ y.op # "rmdir" /\ (y.op = "record" => y = Record(i, R))
                                    /\ y.op = "mkdir" => y.path \in planned
                                    /\ y.op = "write" => y.path \in {x.path : x \in S} \union DOMAIN R.policy
                                    /\ y.op = "remove" => y.path \in D
<1> DEFINE X == Renewal(i, seen, S, R, D)
<1>1. PICK B : Copying(B) /\ steps \in Seq(X \union Made(planned \intersect Above(X)) \union B)
  BY DEF Renews
<1> DEFINE Y == X \union Made(planned \intersect Above(X)) \union B
<1>2. ASSUME NEW y \in Y
      PROVE  /\ y.op \in {"write", "remove", "mkdir", "record", "backup"}
             /\ y.op = "record" => y = Record(i, R)
             /\ y.op = "mkdir" => y.path \in planned \intersect Above(X)
             /\ Touches(y) => RenewedTarget(i, seen, S, R, y) \/ RenewedFile(i, R, y) \/ DroppedFile(i, R, D, y)
  <2> HIDE DEF X
  <2> QED BY <1>1, <1>2, RenewalTouches DEF X
<1>3. ASSUME NEW y \in Y, Touches(y)
      PROVE  /\ y.op = "write" => y.path \in {x.path : x \in S} \union DOMAIN R.policy
             /\ y.op = "remove" => y.path \in D
  <2>1. ASSUME RenewedTarget(i, seen, S, R, y) PROVE y.op = "write" /\ y.path \in {x.path : x \in S}
    <3>1. PICK x \in S : y = Write(x.path, Render(seen, x, R.version))
      BY <2>1 DEF RenewedTarget
    <3>2. y.path = x.path /\ y.op = "write"
      BY <3>1 DEF Write
    <3> QED BY <3>2
  <2>2. ASSUME RenewedFile(i, R, y) PROVE y.op = "write" /\ y.path \in DOMAIN R.policy
    <3>1. y.path \in DOMAIN R.policy /\ y = Write(y.path, Written(R.version))
      BY <2>2 DEF RenewedFile
    <3>2. y.op = "write"
      BY <3>1 DEF Write
    <3> QED BY <3>1, <3>2
  <2>3. ASSUME DroppedFile(i, R, D, y) PROVE y.op = "remove" /\ y.path \in D
    BY <2>3 DEF DroppedFile
  <2> HIDE DEF Y
  <2> QED BY <1>2, <1>3, <2>1, <2>2, <2>3
<1>4. Record(i, R) \in ToSet(steps)
  BY DEF Renews, Renewal
<1> HIDE DEF Y
<1>5. steps \in Seq(Y)
  BY <1>1 DEF Y
<1> QED BY <1>2, <1>3, <1>4, <1>5 DEF Touches

(* A plan that removes no directory makes those it says, and a backup its.  *)
LEMMA RunMakes ==
    ASSUME NEW t, NEW X, NEW steps \in Seq(X), \A x \in X : x.op # "rmdir",
           NEW planned, \A x \in X : x.op = "mkdir" => x.path \in planned
    PROVE  Run(t, steps).dirs \subseteq t.dirs \union {StateDir, BackupRoot} \union planned
<1>1. \A d \in Run(t, steps).dirs : d \in t.dirs \union {StateDir, BackupRoot} \/ \E y \in X : y.op = "mkdir" /\ y.path = d
  BY RunKeeps
<1> QED BY <1>1

(* After a renewal everything OAW wrote in the scope is on record.          *)
LEMMA RenewalAccounted ==
    ASSUME NEW i \in Installations, NEW t, DOMAIN t.record = Installations, Accounted(t, i),
           NEW seen, seen.record[i] = t.record[i],
           NEW S, NEW R, NEW D, Renewing(i, S, R, D), S \subseteq R.targets, Follows(seen, i, R, S, D),
           NEW planned, planned \subseteq R.dirs,
           NEW steps, Renews(steps, Renewal(i, seen, S, R, D), planned),
           \A p \in {x.path : x \in S} \union DOMAIN R.policy : Present(t, p) => Present(seen, p)
    PROVE  Accounted(Run(t, steps), i)
<1> DEFINE u == Run(t, steps)
           r == t.record[i]
<1>1. PICK Y : /\ steps \in Seq(Y)
               /\ \A y \in Y : /\ y.op # "rmdir" /\ (y.op = "record" => y = Record(i, R))
                               /\ y.op = "mkdir" => y.path \in planned
                               /\ y.op = "write" => y.path \in {x.path : x \in S} \union DOMAIN R.policy
                               /\ y.op = "remove" => y.path \in D
  BY RenewalSteps
<1>2. Record(i, R) \in ToSet(steps)
  BY RenewalSteps
<1>3. {x.path : x \in S} \union DOMAIN R.policy \subseteq Recorded(R)
  BY DEF Recorded
<1>4. \A p \in D : p \notin DOMAIN u.files
  BY RenewalFiles
<1> HIDE DEF u
<1>5. \A p : Traced(t, u, steps, Len(steps), p)
  BY <1>1, RunTraced DEF u
<1>6. ASSUME NEW k \in 1..Len(steps)
      PROVE  /\ steps[k].op = "write" => steps[k].path \in Recorded(R)
             /\ steps[k].op = "remove" => steps[k].path \in D
  <2>1. steps[k] \in Y
    BY <1>1
  <2> QED BY <1>1, <1>3, <2>1
<1>7. /\ u.record[i] = R
      /\ \A d \in u.dirs : d \in t.dirs \union {StateDir, BackupRoot} \/ d \in planned
  <2>1. \A x \in Y : x.op # "rmdir"
    BY <1>1
  <2>2. \A x \in Y : x.op = "record" => x = Record(i, R)
    BY <1>1
  <2>3. u.dirs \subseteq t.dirs \union {StateDir, BackupRoot} \union planned
    <3>1. \A x \in Y : x.op = "mkdir" => x.path \in planned
      BY <1>1
    <3> QED BY <1>1, <2>1, <3>1, RunMakes DEF u
  <2>4. u.record[i] = R
    BY <1>1, <1>2, <2>1, <2>2, RunKeeps DEF u
  <2> QED BY <1>1, <2>3, <2>4
<1>8. /\ \A x \in r.targets : \E y \in R.targets : y.path = x.path /\ y.origin = x.origin
      /\ DOMAIN r.policy \subseteq DOMAIN R.policy \union D /\ D \subseteq DOMAIN r.policy
      /\ r.dirs \subseteq R.dirs
  BY DEF Follows
<1>9. ASSUME NEW p \in DOMAIN R.policy, p \notin DOMAIN r.policy PROVE ~Present(t, p)
  BY <1>9 DEF Follows
<1>10. ASSUME NEW y \in R.targets, \A x \in r.targets : x.path # y.path, y.origin = "created-file"
       PROVE  ~Present(t, y.path)
  BY <1>10 DEF Follows
<1> HIDE DEF r
<1>11. Recorded(r) \ D \subseteq Recorded(R) /\ D \subseteq Recorded(r)
  <2>1. ASSUME NEW x \in r.targets PROVE x.path \in Recorded(R)
    <3>1. PICK y \in R.targets : y.path = x.path
      BY <1>8
    <3> QED BY <3>1 DEF Recorded
  <2>2. ASSUME NEW p \in DOMAIN r.policy, p \notin D PROVE p \in Recorded(R)
    BY <1>8, <2>2 DEF Recorded
  <2> QED BY <1>8, <2>1, <2>2 DEF Recorded
<1>12. ASSUME NEW p \in Rendering(u), p[1] \in Scope(i) PROVE p \in Recorded(R)
  <2>1. p \in DOMAIN u.files /\ u.files[p].body # 0
    BY <1>12 DEF Rendering
  <2>2. CASE Same(t, u, p)
    <3>1. p \in Rendering(t)
      BY <2>1, <2>2 DEF Same, Rendering
    <3> QED BY <1>4, <1>11, <1>12, <2>1, <3>1 DEF Accounted, r
  <2>3. CASE ~Same(t, u, p)
    <3>1. PICK k \in 1..Len(steps) : steps[k].path = p /\ steps[k].op = "write"
      BY <1>5, <2>1, <2>3 DEF Traced
    <3> QED BY <1>6, <3>1
  <2> QED BY <2>2, <2>3
<1>13. ASSUME NEW w \in DOMAIN t.files, w \notin Recorded(r) PROVE w \in Theirs(u, i)
  <2>1. w \in DOMAIN u.files
    BY <1>5, <1>6, <1>11, <1>13 DEF Traced, Same
  <2>2. CASE w \notin Recorded(R)
    BY <1>7, <2>1, <2>2 DEF Theirs
  <2>3. CASE w \in Recorded(R)
    <3>1. w \notin DOMAIN R.policy
      <4>1. w \notin DOMAIN r.policy /\ Present(t, w)
        BY <1>13 DEF Recorded, Present
      <4> QED BY <1>9, <4>1
    <3>2. PICK y \in R.targets : y.path = w
      BY <2>3, <3>1 DEF Recorded
    <3>3. y.origin # "created-file"
      <4>1. (\A x \in r.targets : x.path # y.path) /\ Present(t, y.path)
        BY <1>13, <3>2 DEF Recorded, Present
      <4> QED BY <1>10, <4>1
    <3> QED BY <1>7, <3>2, <3>3 DEF Theirs
  <2> QED BY <2>2, <2>3
<1>14. ASSUME NEW x \in r.targets, x.origin # "created-file" PROVE x.path \in Theirs(u, i)
  BY <1>7, <1>8, <1>14 DEF Theirs
<1>15. Theirs(t, i) \subseteq Theirs(u, i)
  BY <1>13, <1>14 DEF Theirs, r
<1>16. "state" \notin Scope(i) /\ StateDir[1] = "state" /\ BackupRoot[1] = "state"
  BY NamespaceRoots, BackupRootOf
<1>17. ASSUME NEW d \in u.dirs, d[1] \in Scope(i)
       PROVE  d \in UserDirs \union R.dirs \/ \E w \in Theirs(u, i) : Below(d, w)
  <2>1. d \in t.dirs \/ d \in R.dirs
    BY <1>7, <1>16, <1>17
  <2>2. d \in t.dirs => d \in UserDirs \union r.dirs \/ \E w \in Theirs(t, i) : Below(d, w)
    BY <1>17 DEF Accounted, r
  <2>3. r.dirs \subseteq R.dirs
    BY <1>8
  <2> QED BY <1>15, <2>1, <2>2, <2>3
<1>18. Accounted(u, i)
  BY <1>7, <1>12, <1>17 DEF Accounted
<1> QED BY <1>18 DEF u

(* Records that are merged keep their files and origins; those that are new *)
(* have the origin of what they share a file with.                         *)
LEMMA MergedFollows ==
    ASSUME NEW i \in Installations, NEW old, NEW S, \A x \in old \union S : TargetFits(i, x),
           \A y \in S : \A z \in old : z.path = y.path => y.origin = z.origin
    PROVE  LET M == MergeRecords(old, S)
           IN /\ \A x \in old : \E y \in M : y.path = x.path /\ y.origin = x.origin
              /\ \A y \in M : y \in S \/ \E x \in old : x.path = y.path
<1> DEFINE M == MergeRecords(old, S)
           Kin(x) == \E y \in S : y.target = x.target /\ y.artifact = x.artifact
           again(x) == [x EXCEPT !.checksum = IF \E y \in S : y.path = x.path
                                              THEN (CHOOSE y \in S : y.path = x.path).checksum ELSE @]
<1>1. M = S \union {again(x) : x \in {z \in old : ~Kin(z)}}
  BY DEF MergeRecords
<1>2. ASSUME NEW x \in old PROVE again(x).path = x.path /\ again(x).origin = x.origin
  <2> DEFINE sum == IF \E y \in S : y.path = x.path THEN (CHOOSE y \in S : y.path = x.path).checksum ELSE x.checksum
  <2>1. DOMAIN x = {"target", "artifact", "path", "mode", "checksum", "origin"}
    BY DEF TargetFits
  <2>2. again(x) = [x EXCEPT !.checksum = sum]
    OBVIOUS
  <2> HIDE DEF again, sum
  <2> QED BY <2>1, <2>2
<1>3. ASSUME NEW x \in old, NEW y \in S, y.target = x.target, y.artifact = x.artifact
      PROVE  y.path = x.path /\ y.origin = x.origin
  <2>1. PICK e \in RegistryEntry : x.target = e.target /\ x.artifact = e.artifact /\ x.path = ArtifactDestination(i, e)
    BY DEF TargetFits
  <2>2. PICK f \in RegistryEntry : y.target = f.target /\ y.artifact = f.artifact /\ y.path = ArtifactDestination(i, f)
    BY DEF TargetFits
  <2>3. e = f
    BY <1>3, <2>1, <2>2, RegistryKeys
  <2> QED BY <2>1, <2>2, <2>3
<1> HIDE DEF again, M
<1>4. ASSUME NEW x \in old PROVE \E y \in M : y.path = x.path /\ y.origin = x.origin
  <2>1. CASE Kin(x)
    BY <1>1, <1>3, <2>1
  <2>2. CASE ~Kin(x)
    <3>1. again(x) \in M
      BY <1>1, <2>2
    <3> QED BY <1>2, <3>1
  <2> QED BY <2>1, <2>2
<1>5. ASSUME NEW y \in M, y \notin S PROVE \E x \in old : x.path = y.path
  <2>1. PICK x \in old : y = again(x)
    BY <1>1, <1>5
  <2> QED BY <1>2, <2>1
<1> QED BY <1>4, <1>5 DEF M

(* A renewed artifact has the origin of what is on record for its file; if  *)
(* nothing is, it counts as created only where there was no file.          *)
Descends(t, i, y) ==
    LET r == t.record[i]
    IN /\ TargetFits(i, y) /\ \A z \in r.targets : z.path = y.path => y.origin = z.origin
       /\ (\A z \in r.targets : z.path # y.path) => y.origin # "created-file" \/ ~Present(t, y.path)

(* So it is with what an accepted install or update selects.               *)
LEMMA RenewedOrigin ==
    ASSUME NEW t, NEW i \in Installations, ValidateTargetRecords(i, t.record[i]), RecordFits(i, t.record[i]),
           NEW e \in RegistryEntry, NEW v \in Versions,
           NEW y \in {InstalledArtifact(t, i, e, v), UpdatedArtifact(t, i, e, v)},
           \/ RecordedArtifact(t.record[i], e) # {} \/ At(t.record[i], ArtifactDestination(i, e)) # {}
           \/ UntrackedArtifactClean(t, i, e)
    PROVE  Descends(t, i, y)
<1> DEFINE r == t.record[i]
<1>1. /\ y.target = e.target /\ y.artifact = e.artifact /\ y.path = ArtifactDestination(i, e)
      /\ \A z \in At(r, y.path) : y.origin = z.origin
      /\ At(r, y.path) = {} => y.origin = IF e.mode = "owned-file" \/ ~Present(t, y.path)
                                          THEN "created-file" ELSE "existing-file"
  BY ArtifactFollows
<1>2. TargetFits(i, y)
  BY InstalledFits, UpdatedFits
<1>3. ASSUME \A z \in r.targets : z.path # y.path PROVE y.origin # "created-file" \/ ~Present(t, y.path)
  <2>1. At(r, y.path) = {}
    BY <1>3 DEF At
  <2>2. RecordedArtifact(r, e) = {}
    <3>1. ASSUME NEW x \in r.targets, x.target = e.target, x.artifact = e.artifact PROVE x.path = y.path
      <4>1. PICK f \in RegistryEntry : x.target = f.target /\ x.artifact = f.artifact /\ x.path = ArtifactDestination(i, f)
        BY DEF RecordFits, TargetFits
      <4>2. f = e
        BY <3>1, <4>1, RegistryKeys
      <4> QED BY <1>1, <4>1, <4>2
    <3> QED BY <1>3, <3>1 DEF RecordedArtifact
  <2>3. e.mode = "owned-file" => ~Present(t, y.path)
    BY <1>1, <2>1, <2>2 DEF UntrackedArtifactClean
  <2> QED BY <1>1, <2>1, <2>3
<1> QED BY <1>1, <1>2, <1>3 DEF At, Descends

(* The record of an accepted install follows the one before it.             *)
LEMMA InstallFollows ==
    ASSUME NEW t, Good(t), Fitting(t), NEW q \in Requests, InstallAccepted(t, q)
    PROVE  Follows(t, q.owner, InstallRecord(t, q), Selected(t, q), {})
<1> DEFINE i == q.owner
           r == t.record[i]
           R == InstallRecord(t, q)
           S == Selected(t, q)
           E == ArtifactsOf(Wanted(t, q))
<1>1. i \in Installations /\ q.version \in Versions
  BY RequestsAssumption
<1>2. RecordFits(i, r) /\ (r # NoRecord => ParseInstallationState(i, r))
  BY <1>1 DEF Good, Kept, Readable, Fitting
<1>3. ValidateTargetRecords(i, r)
  <2>1. ValidateTargetRecords(i, NoRecord)
    BY DEF ValidateTargetRecords, NoRecord
  <2> HIDE DEF r
  <2> QED BY <1>2, <2>1 DEF ParseInstallationState
<1>4. E \subseteq RegistryEntry
  BY ArtifactsFinite
<1>5. R.targets = MergeRecords(r.targets, S) /\ R.policy = SourcePolicySet(i, q.version) /\ r.dirs \subseteq R.dirs
  BY DEF InstallRecord, Selected
<1>6. ASSUME NEW y \in S
      PROVE  /\ TargetFits(i, y) /\ \A z \in r.targets : z.path = y.path => y.origin = z.origin
             /\ (\A z \in r.targets : z.path # y.path) => y.origin # "created-file" \/ ~Present(t, y.path)
  <2>1. PICK e \in E : y = InstalledArtifact(t, i, e, q.version)
    BY DEF Selected
  <2>2. RecordedArtifact(r, e) # {} \/ At(r, ArtifactDestination(i, e)) # {} \/ UntrackedArtifactClean(t, i, e)
    <3>1. MayInstall(t, i, e, q.version)
      BY DEF InstallAccepted
    <3> QED BY <3>1 DEF MayInstall
  <2>3. e \in RegistryEntry /\ y \in {InstalledArtifact(t, i, e, q.version), UpdatedArtifact(t, i, e, q.version)}
    BY <1>4, <2>1
  <2>4. Descends(t, i, y)
    BY <1>1, <1>2, <1>3, <2>2, <2>3, RenewedOrigin
  <2> QED BY <2>4 DEF Descends
<1>7. ASSUME NEW p \in DOMAIN R.policy, p \notin DOMAIN r.policy PROVE ~Present(t, p)
  <2>1. Placed(i, p)
    BY <1>1, <1>5, <1>7, PolicyPlaced
  <2>2. ~Installed(t, i)
    BY <1>5, <1>7 DEF InstallAccepted
  <2> QED BY <1>1, <2>1, <2>2, NothingClaimed DEF InstallAccepted
<1>8. DOMAIN r.policy \subseteq DOMAIN R.policy
  <2>1. CASE Installed(t, i)
    BY <1>5, <2>1 DEF InstallAccepted
  <2>2. CASE ~Installed(t, i)
    BY <2>2 DEF Installed, NoRecord
  <2> QED BY <2>1, <2>2
<1>9. \A x \in r.targets : TargetFits(i, x)
  BY <1>2 DEF RecordFits
<1> HIDE DEF r, R, S
<1>10. /\ \A x \in r.targets : \E y \in R.targets : y.path = x.path /\ y.origin = x.origin
       /\ \A y \in R.targets : y \in S \/ \E x \in r.targets : x.path = y.path
  BY <1>1, <1>5, <1>6, <1>9, MergedFollows
<1>11. \A y \in R.targets : \/ \E x \in r.targets : x.path = y.path
                            \/ y.origin # "created-file"
                            \/ y \in S /\ ~Present(t, y.path)
  BY <1>6, <1>10
<1> QED BY <1>5, <1>7, <1>8, <1>10, <1>11 DEF Follows, r, R, S

(* So does that of an accepted update.                                     *)
LEMMA UpdateFollows ==
    ASSUME NEW t, Good(t), Fitting(t), NEW q \in Requests, UpdateAccepted(t, q), ForceVerdict(t, q) # "manual"
    PROVE  LET R == UpdateRecord(t, q)
           IN Follows(t, q.owner, R, Renewed(t, q), Obsolete(t.record[q.owner], R))
<1> DEFINE i == q.owner
           r == t.record[i]
           R == UpdateRecord(t, q)
           S == Renewed(t, q)
           D == Obsolete(r, R)
           E == ArtifactsOf(Wanted(t, q))
<1>1. i \in Installations /\ q.version \in Versions
  BY RequestsAssumption
<1>2. RecordFits(i, r) /\ Kept(i, r) /\ r # NoRecord
  BY <1>1 DEF Good, Fitting, UpdateAccepted, Installed
<1>3. ValidateTargetRecords(i, r)
  BY <1>2 DEF ParseInstallationState, Kept, Readable
<1>4. E \subseteq RegistryEntry
  BY ArtifactsFinite
<1>5. R.targets = MergeRecords(r.targets, S) /\ R.policy = SourcePolicySet(i, q.version) /\ r.dirs \subseteq R.dirs
  BY DEF UpdateRecord, Renewed
<1>6. ASSUME NEW y \in S
      PROVE  /\ TargetFits(i, y) /\ \A z \in r.targets : z.path = y.path => y.origin = z.origin
             /\ (\A z \in r.targets : z.path # y.path) => y.origin # "created-file" \/ ~Present(t, y.path)
  <2>1. PICK e \in E : y = UpdatedArtifact(t, i, e, q.version)
    BY DEF Renewed
  <2>2. RecordedArtifact(r, e) # {} \/ UntrackedArtifactClean(t, i, e)
    BY DEF UpdateAccepted, MayUpdate
  <2>3. Descends(t, i, y)
    BY <1>1, <1>2, <1>3, <1>4, <2>1, <2>2, RenewedOrigin
  <2> QED BY <2>3 DEF Descends
<1>7. ASSUME NEW p \in DOMAIN R.policy, p \notin DOMAIN r.policy PROVE ~Present(t, p)
  <2>1. Placed(i, p)
    BY <1>1, <1>5, <1>7, PolicyPlaced
  <2>2. ValidatePolicySetTree(i, t)
    <3>1. ForceVerdict(t, q) = "fine"
      BY DEF UpdateAccepted
    <3> QED BY <1>1, <1>2, <3>1, FineTree
  <2> QED BY <1>1, <1>7, <2>1, <2>2, NothingForeign
<1>8. DOMAIN r.policy \subseteq DOMAIN R.policy \union D /\ D \subseteq DOMAIN r.policy
  BY DEF Obsolete
<1>9. \A x \in r.targets : TargetFits(i, x)
  BY <1>2 DEF RecordFits
<1> HIDE DEF r, R, S, D
<1>10. /\ \A x \in r.targets : \E y \in R.targets : y.path = x.path /\ y.origin = x.origin
       /\ \A y \in R.targets : y \in S \/ \E x \in r.targets : x.path = y.path
  BY <1>1, <1>5, <1>6, <1>9, MergedFollows
<1>11. \A y \in R.targets : \/ \E x \in r.targets : x.path = y.path
                            \/ y.origin # "created-file"
                            \/ y \in S /\ ~Present(t, y.path)
  BY <1>6, <1>10
<1>12. Follows(t, i, R, S, D)
  BY <1>5, <1>7, <1>8, <1>10, <1>11 DEF Follows, r
<1> QED BY <1>12 DEF r, R, S, D

(* The steps of a plan that write, make or record only what is its          *)
(* installation's.                                                         *)
Local(i, steps) ==
    \E Y : /\ steps \in Seq(Y)
           /\ \A y \in Y : /\ Touches(y) => y.path \in Path /\ y.path[1] \in Scope(i)
                           /\ y.op = "record" => y.owner = i
                           /\ y.op = "mkdir" => y.path[1] \in Scope(i) \union {"state"}

(* Such a plan leaves alone what another installation has recorded, and     *)
(* makes no directory in its scope.                                        *)
LEMMA RunElsewhere ==
    ASSUME NEW i \in Installations, NEW j \in Installations, i # j,
           NEW t, DOMAIN t.record = Installations, NEW steps, Local(i, steps)
    PROVE  LET u == Run(t, steps)
           IN /\ u.record[j] = t.record[j]
              /\ \A d \in u.dirs : d[1] \in Scope(j) => d \in t.dirs
              /\ \A p \in Path : p[1] \in Scope(j) => Same(t, u, p)
<1> DEFINE g == Trail(t, steps)
           N == Len(steps)
           Holds(k) == /\ DOMAIN g[k].record = Installations /\ g[k].record[j] = t.record[j]
                       /\ \A d \in g[k].dirs : d[1] \in Scope(j) => d \in t.dirs
           G == {k \in Nat : k <= N => Holds(k)}
<1>1. PICK Y : /\ steps \in Seq(Y)
               /\ \A y \in Y : /\ Touches(y) => y.path \in Path /\ y.path[1] \in Scope(i)
                               /\ y.op = "record" => y.owner = i
                               /\ y.op = "mkdir" => y.path[1] \in Scope(i) \union {"state"}
  BY DEF Local
<1>2. N \in Nat /\ DOMAIN steps = 1..N /\ \A n \in 1..N : steps[n] \in Y
  BY <1>1
<1>3. Run(t, steps) = g[N] /\ g[0] = t /\ \A n \in 1..N : g[n] = Do(g[n - 1], steps[n])
  <2> HIDE DEF N
  <2> QED BY <1>2, RunTrail DEF N
<1>4. /\ Scope(i) \intersect Scope(j) = {} /\ "state" \notin Scope(j)
      /\ StateDir[1] = "state" /\ BackupRoot[1] = "state"
  BY ScopesApart, BackupRootOf
<1> HIDE DEF g, N
<1>5. 0 \in G
  BY <1>3
<1>6. ASSUME NEW k \in Nat, k \in G PROVE k + 1 \in G
  <2>1. SUFFICES ASSUME k + 1 <= N PROVE Holds(k + 1)
    <3> HIDE DEF Holds
    <3> QED OBVIOUS
  <2>2. PICK n \in 1..N : n = k + 1 /\ n - 1 = k
    BY <1>2, <2>1
  <2>3. Holds(k)
    <3> HIDE DEF Holds
    <3> QED BY <1>2, <1>6, <2>1
  <2> DEFINE x == steps[k + 1]
             v == g[k]
             w == g[k + 1]
  <2>4. w = Do(v, x) /\ x \in Y
    BY <1>2, <1>3, <2>2
  <2>5. /\ w.record = IF x.op = "record" THEN [v.record EXCEPT ![x.owner] = x.to] ELSE v.record
        /\ w.dirs = IF x.op = "mkdir" THEN v.dirs \union {x.path}
                    ELSE IF x.op = "rmdir" THEN RemoveEmptyDirectory(v, x.path)
                    ELSE IF x.op = "backup" THEN v.dirs \union {StateDir, BackupRoot} ELSE v.dirs
    <3> HIDE DEF x, v, w
    <3> QED BY <2>4, DoRecord
  <2>6. RemoveEmptyDirectory(v, x.path) \subseteq v.dirs
    BY DEF RemoveEmptyDirectory
  <2>7. /\ x.op = "record" => x.owner = i
        /\ x.op = "mkdir" => x.path[1] \notin Scope(j)
    BY <1>1, <1>4, <2>4
  <2> HIDE DEF x, w
  <2>8. DOMAIN w.record = Installations /\ w.record[j] = t.record[j]
    BY <2>3, <2>5, <2>7 DEF v
  <2>9. \A d \in w.dirs : d[1] \in Scope(j) => d \in v.dirs
    BY <1>4, <2>5, <2>6, <2>7
  <2> QED BY <2>3, <2>8, <2>9 DEF v, w
<1>7. Holds(N)
  <2>1. N \in G
    <3> HIDE DEF G
    <3> QED BY <1>2, <1>5, <1>6, SetInduction
  <2> HIDE DEF Holds
  <2> QED BY <1>2, <2>1
<1>8. ASSUME NEW p \in Path, p[1] \in Scope(j) PROVE Same(t, Run(t, steps), p)
  <2>1. Traced(t, Run(t, steps), steps, Len(steps), p)
    BY <1>1, RunTraced
  <2>2. ASSUME NEW k \in 1..Len(steps), Touches(steps[k]) PROVE steps[k].path # p
    <3>1. steps[k] \in Y
      BY <1>1
    <3> QED BY <1>1, <1>4, <1>8, <2>2, <3>1
  <2> QED BY <2>1, <2>2 DEF Traced, Touches
<1> QED BY <1>3, <1>7, <1>8

(* So everything stays accounted for there.                                *)
LEMMA LocalAccounted ==
    ASSUME NEW i \in Installations, NEW j \in Installations, i # j,
           NEW t, DOMAIN t.record = Installations, InScope(j, t.record[j]), Rooted(t), Accounted(t, j),
           NEW steps, Local(i, steps), Rooted(Run(t, steps))
    PROVE  Accounted(Run(t, steps), j)
<1> DEFINE u == Run(t, steps)
           r == t.record[j]
<1>1. /\ u.record[j] = r
      /\ \A d \in u.dirs : d[1] \in Scope(j) => d \in t.dirs
      /\ \A p \in Path : p[1] \in Scope(j) => Same(t, u, p)
  BY RunElsewhere
<1>2. Rooted(u)
  OBVIOUS
<1> HIDE DEF u
<1>3. ASSUME NEW p \in Rendering(u), p[1] \in Scope(j) PROVE p \in Recorded(r)
  <2>1. p \in Path
    BY <1>2 DEF Rooted, Rendering
  <2>2. p \in Rendering(t)
    BY <1>1, <1>3, <2>1 DEF Same, Rendering
  <2> QED BY <1>3, <2>2 DEF Accounted
<1>4. ASSUME NEW d \in u.dirs, d[1] \in Scope(j), NEW w \in Theirs(t, j), Below(d, w) PROVE w \in Theirs(u, j)
  <2>1. d \in Path /\ Len(d) >= 2
    BY <1>2 DEF Rooted
  <2>2. w \in Path
    BY DEF Theirs, Rooted, InScope, TargetInScope
  <2>3. w[1] = d[1]
    BY <1>4, <2>1, <2>2, PrefixRoot DEF Below, IsStrictPrefix
  <2> QED BY <1>1, <1>4, <2>2, <2>3 DEF Theirs, Same
<1>5. ASSUME NEW d \in u.dirs, d[1] \in Scope(j)
      PROVE  d \in UserDirs \union r.dirs \/ \E w \in Theirs(u, j) : Below(d, w)
  <2>1. d \in UserDirs \union r.dirs \/ \E w \in Theirs(t, j) : Below(d, w)
    BY <1>1, <1>5 DEF Accounted
  <2> QED BY <1>4, <1>5, <2>1
<1>6. Accounted(u, j)
  BY <1>1, <1>3, <1>5 DEF Accounted
<1> QED BY <1>6 DEF u

(* Renewals and uninstalls are such plans.                                 *)
LEMMA RenewalLocal ==
    ASSUME NEW i \in Installations, NEW seen, NEW S, NEW R, NEW D, Renewing(i, S, R, D), S \subseteq R.targets,
           InScope(i, R), NEW planned, planned \subseteq R.dirs,
           NEW steps, Renews(steps, Renewal(i, seen, S, R, D), planned)
    PROVE  Local(i, steps)
<1>1. PICK Y : /\ steps \in Seq(Y)
               /\ \A y \in Y : /\ y.op # "rmdir" /\ (y.op = "record" => y = Record(i, R))
                               /\ y.op = "mkdir" => y.path \in planned
                               /\ y.op = "write" => y.path \in {x.path : x \in S} \union DOMAIN R.policy
                               /\ y.op = "remove" => y.path \in D
  BY RenewalSteps
<1>2. \A p \in {x.path : x \in S} : p \in Path /\ p[1] \in Scope(i)
  BY DEF InScope, TargetInScope
<1>3. \A p \in DOMAIN R.policy \union D : p \in Path /\ p[1] \in Scope(i)
  <2>1. \A p \in DOMAIN R.policy : p \in Path /\ p[1] \in Scope(i)
    BY SourcePolicySetOf DEF Renewing
  <2>2. \A p \in D : p \in Path /\ p[1] \in Scope(i)
    BY PlacedScope DEF Renewing
  <2> QED BY <2>1, <2>2
<1>4. \A d \in planned : d[1] \in Scope(i) \union {"state"}
  BY NamespacesOf DEF InScope, DirectoryInScope
<1>5. \A y \in Y : /\ Touches(y) => y.path \in Path /\ y.path[1] \in Scope(i)
                   /\ y.op = "record" => y.owner = i
                   /\ y.op = "mkdir" => y.path[1] \in Scope(i) \union {"state"}
  <2>1. Record(i, R).owner = i
    BY DEF Record
  <2> QED BY <1>1, <1>2, <1>3, <1>4, <2>1 DEF Touches
<1> QED BY <1>1, <1>5 DEF Local

(* So does an uninstall.                                                   *)
LEMMA UninstallLocal ==
    ASSUME NEW t, NEW seen, NEW q, Uninstalling(t, seen, q)
    PROVE  Local(q.owner, UninstallSteps(seen, q))
<1> DEFINE i == q.owner
           r == t.record[i]
           R == UninstallRecord(seen, q)
           steps == UninstallSteps(seen, q)
<1>1. i \in Installations /\ Kept(i, r) /\ RecordFits(i, r)
  BY DEF Uninstalling
<1>2. PICK Y : /\ steps \in Seq(Y)
               /\ \A y \in Y : y.op # "mkdir" /\ (y.op = "record" => y = Record(i, R))
               /\ \A y \in Y : Touches(y) => \/ \E x \in r.targets : y = UninstallTarget(seen, x)
                                             \/ y.op = "remove" /\ y.path \in DOMAIN r.policy \union {PolicyPath(i)}
  BY UninstallSteady
<1>3. \A x : UninstallTarget(seen, x).path = x.path
  BY DEF UninstallTarget, Unlink, Write
<1>4. \A x \in r.targets : x.path \in Path /\ x.path[1] \in Scope(i)
  BY <1>1 DEF Kept, InScope, TargetInScope
<1>5. \A p \in DOMAIN r.policy \union {PolicyPath(i)} : p \in Path /\ p[1] \in Scope(i)
  <2>1. \A p \in DOMAIN r.policy \union {PolicyPath(i)} : p \in Path /\ Placed(i, p)
    BY <1>1, FittingPolicy, PolicyPlaced
  <2> QED BY <1>1, <2>1, PlacedScope
<1> HIDE DEF steps, R, r
<1>6. \A y \in Y : /\ Touches(y) => y.path \in Path /\ y.path[1] \in Scope(i)
                   /\ y.op = "record" => y.owner = i
                   /\ y.op = "mkdir" => y.path[1] \in Scope(i) \union {"state"}
  <2>1. Record(i, R).owner = i
    BY DEF Record
  <2> QED BY <1>2, <1>3, <1>4, <1>5, <2>1
<1>7. Local(i, steps)
  BY <1>2, <1>6 DEF Local
<1> QED BY <1>7 DEF steps

(* An install or update keeps the account of every installation: of its own *)
(* as it renews it, of the others as it stays in its scope.                *)
LEMMA RenewalTidy ==
    ASSUME NEW i \in Installations, NEW t, Good(t), Rooted(t), \A j \in Installations : Accounted(t, j),
           NEW seen, seen.record[i] = t.record[i],
           NEW S, NEW R, NEW D, Renewing(i, S, R, D), S \subseteq R.targets, InScope(i, R), Follows(seen, i, R, S, D),
           NEW planned, planned \subseteq R.dirs,
           NEW steps, Renews(steps, Renewal(i, seen, S, R, D), planned),
           \A p \in {x.path : x \in S} \union DOMAIN R.policy : Present(t, p) => Present(seen, p),
           Rooted(Run(t, steps))
    PROVE  \A j \in Installations : Accounted(Run(t, steps), j)
<1>1. DOMAIN t.record = Installations /\ \A j \in Installations : InScope(j, t.record[j])
  BY DEF Good, Kept
<1>2. Accounted(Run(t, steps), i)
  BY <1>1, RenewalAccounted
<1>3. Local(i, steps)
  BY RenewalLocal
<1>4. ASSUME NEW j \in Installations, j # i PROVE Accounted(Run(t, steps), j)
  BY <1>1, <1>3, <1>4, LocalAccounted
<1> QED BY <1>2, <1>4

(* An accepted install keeps the accounts.                                 *)
LEMMA InstallTidy ==
    ASSUME NEW t, Good(t), Fitting(t), Rooted(t), \A j \in Installations : Accounted(t, j),
           NEW q \in Requests, InstallAccepted(t, q), Rooted(Run(t, InstallSteps(t, q)))
    PROVE  \A j \in Installations : Accounted(Run(t, InstallSteps(t, q)), j)
<1> DEFINE i == q.owner
           R == InstallRecord(t, q)
           S == Selected(t, q)
           steps == InstallSteps(t, q)
           planned == R.dirs \ t.dirs
<1>1. /\ i \in Installations /\ InScope(i, R) /\ S \subseteq R.targets
      /\ Renewing(i, S, R, {}) /\ Renews(steps, Renewal(i, t, S, R, {}), planned)
  BY InstallRenews, RequestsAssumption
<1>2. Follows(t, i, R, S, {})
  BY InstallFollows
<1>3. planned \subseteq R.dirs
  OBVIOUS
<1>4. Rooted(Run(t, steps))
  OBVIOUS
<1> HIDE DEF S, R, planned, steps
<1>5. \A j \in Installations : Accounted(Run(t, steps), j)
  BY <1>1, <1>2, <1>3, <1>4, RenewalTidy
<1> QED BY <1>5 DEF steps

(* What a plan writes was there when it was prepared, if it is there now.   *)
LEMMA RenewedPresent ==
    ASSUME NEW i, NEW seen, NEW S, NEW R, NEW D, NEW planned,
           NEW steps, Renews(steps, Renewal(i, seen, S, R, D), planned),
           \A n \in DOMAIN steps : SameAsSeen(seen, steps[n]),
           NEW p \in {x.path : x \in S} \union DOMAIN R.policy
    PROVE  Present(tree, p) => Present(seen, p)
<1>1. \E c : Write(p, c) \in Renewal(i, seen, S, R, D)
  <2>1. CASE p \in DOMAIN R.policy
    BY <2>1 DEF Renewal, PolicyWrites
  <2>2. CASE p \in {x.path : x \in S}
    <3>1. PICK x \in S : p = x.path
      BY <2>2
    <3>2. Write(x.path, Render(seen, x, R.version)) \in Rendered(seen, S, R.version)
      BY DEF Rendered
    <3> QED BY <3>1, <3>2 DEF Renewal
  <2> QED BY <2>1, <2>2
<1>2. PICK c : Write(p, c) \in ToSet(steps)
  BY <1>1 DEF Renews
<1> DEFINE y == Write(p, c)
<1>3. y.op = "write" /\ y.path = p
  BY DEF Write
<1>4. PICK n \in DOMAIN steps : steps[n] = y
  BY <1>2 DEF ToSet
<1>5. SameAsSeen(seen, y)
  BY <1>4
<1> HIDE DEF y
<1> QED BY <1>3, <1>5 DEF SameAsSeen

(* An accepted update keeps the accounts where it still applies.            *)
LEMMA UpdateTidy ==
    ASSUME Good(tree), Rooted(tree), \A j \in Installations : Accounted(tree, j),
           NEW seen, Good(seen), Fitting(seen), NEW q \in Requests, UpdateAccepted(seen, q),
           ForceVerdict(seen, q) # "manual", seen.record[q.owner] = tree.record[q.owner],
           \A n \in DOMAIN UpdateSteps(seen, q) : SameAsSeen(seen, UpdateSteps(seen, q)[n]),
           Rooted(Run(tree, UpdateSteps(seen, q)))
    PROVE  \A j \in Installations : Accounted(Run(tree, UpdateSteps(seen, q)), j)
<1> DEFINE i == q.owner
           r == seen.record[i]
           R == UpdateRecord(seen, q)
           S == Renewed(seen, q)
           D == Obsolete(r, R)
           planned == R.dirs \ r.dirs
           steps == UpdateSteps(seen, q)
<1>1. /\ i \in Installations /\ InScope(i, R) /\ S \subseteq R.targets
      /\ Renewing(i, S, R, D) /\ Renews(steps, Renewal(i, seen, S, R, D), planned)
  BY UpdateRenews, RequestsAssumption
<1>2. Follows(seen, i, R, S, D)
  BY UpdateFollows
<1>3. planned \subseteq R.dirs
  OBVIOUS
<1>4. Rooted(Run(tree, steps)) /\ \A n \in DOMAIN steps : SameAsSeen(seen, steps[n])
  OBVIOUS
<1> HIDE DEF S, R, planned, steps, D
<1>5. \A p \in {x.path : x \in S} \union DOMAIN R.policy : Present(tree, p) => Present(seen, p)
  BY <1>1, <1>4, RenewedPresent
<1>6. \A j \in Installations : Accounted(Run(tree, steps), j)
  BY <1>1, <1>2, <1>3, <1>4, <1>5, RenewalTidy
<1> QED BY <1>6 DEF steps

(* So does an uninstall.                                                   *)
LEMMA UninstallTidy ==
    ASSUME NEW t, Good(t), Fitting(t), Rooted(t), \A j \in Installations : Accounted(t, j),
           NEW seen, NEW q \in Requests, Installed(seen, q.owner), seen.record[q.owner] = t.record[q.owner],
           Rooted(Run(t, UninstallSteps(seen, q)))
    PROVE  \A j \in Installations : Accounted(Run(t, UninstallSteps(seen, q)), j)
<1> DEFINE i == q.owner
           steps == UninstallSteps(seen, q)
<1>1. i \in Installations /\ DOMAIN t.record = Installations /\ \A j \in Installations : InScope(j, t.record[j])
  BY RequestsAssumption DEF Good, Kept
<1>2. Uninstalling(t, seen, q)
  BY <1>1 DEF Uninstalling, Good, Fitting
<1>3. Accounted(Run(t, steps), i)
  BY <1>1, <1>2, UninstallAccounted
<1>4. Local(i, steps)
  BY <1>2, UninstallLocal
<1>5. ASSUME NEW j \in Installations, j # i PROVE Accounted(Run(t, steps), j)
  BY <1>1, <1>4, <1>5, LocalAccounted
<1> QED BY <1>3, <1>5

(* A plan of one step does that step.                                      *)
LEMMA RunSingle ==
    ASSUME NEW t, NEW x
    PROVE  Run(t, <<x>>) = Do(t, x)
<1> DEFINE s == <<x>>
<1>1. Len(s) = 1 /\ s[1] = x
  OBVIOUS
<1> HIDE DEF s
<1>2. /\ Run(t, s) = Trail(t, s)[Len(s)] /\ Trail(t, s)[0] = t
      /\ \A n \in 1..Len(s) : Trail(t, s)[n] = Do(Trail(t, s)[n - 1], s[n])
  <2>1. Len(s) \in Nat
    BY <1>1
  <2> QED BY <2>1, RunTrail
<1>3. Trail(t, s)[1] = Do(Trail(t, s)[0], s[1])
  BY <1>1, <1>2
<1>4. Run(t, s) = Do(t, x)
  BY <1>1, <1>2, <1>3
<1> QED BY <1>4 DEF s

(* What adds nothing in a scope and takes away nothing of theirs keeps the  *)
(* account of its installation.                                            *)
LEMMA AccountKept ==
    ASSUME NEW t, NEW u, NEW i \in Installations, u.record[i] = t.record[i],
           \A d \in u.dirs : d[1] \in Scope(i) => d \in t.dirs,
           Rendering(u) \subseteq Rendering(t), Theirs(t, i) \subseteq Theirs(u, i), Accounted(t, i)
    PROVE  Accounted(u, i)
<1>1. \A p \in Rendering(u) : p[1] \in Scope(i) => p \in Recorded(u.record[i])
  BY DEF Accounted
<1>2. ASSUME NEW d \in u.dirs, d[1] \in Scope(i)
      PROVE  d \in UserDirs \union u.record[i].dirs \/ \E w \in Theirs(u, i) : Below(d, w)
  <2>1. d \in UserDirs \union t.record[i].dirs \/ \E w \in Theirs(t, i) : Below(d, w)
    BY <1>2 DEF Accounted
  <2> QED BY <2>1
<1> QED BY <1>1, <1>2 DEF Accounted

(* A backup alone keeps the accounts.                                      *)
LEMMA BackupTidy ==
    ASSUME NEW t, \A j \in Installations : Accounted(t, j), NEW x, x.op = "backup"
    PROVE  \A j \in Installations : Accounted(Do(t, x), j)
<1> DEFINE u == Do(t, x)
<1>1. u.files = t.files
  BY DoFiles
<1>2. u.record = t.record /\ u.dirs = t.dirs \union {StateDir, BackupRoot}
  BY DoRecord
<1>3. ASSUME NEW j \in Installations PROVE Accounted(u, j)
  <2>1. "state" \notin Scope(j)
    BY NamespaceRoots
  <2> HIDE DEF u
  <2>2. \A d \in u.dirs : d[1] \in Scope(j) => d \in t.dirs
    BY <1>2, <2>1, BackupRootOf
  <2>3. Rendering(u) \subseteq Rendering(t) /\ Theirs(t, j) \subseteq Theirs(u, j)
    BY <1>1, <1>2 DEF Rendering, Theirs
  <2> QED BY <1>2, <2>2, <2>3, AccountKept
<1> QED BY <1>3

(* Whatever plan still applies keeps the accounts of all installations.     *)
LEMMA PlanTidy ==
    ASSUME Good(tree), Fitting(tree), Rooted(tree), \A j \in Installations : Accounted(tree, j),
           NEW seen, Good(seen), Fitting(seen), NEW q \in Requests,
           Accepted(seen, q), NEW steps, steps = Steps(seen, q),
           StillValid(q, seen, steps), Applicable(tree, steps)
    PROVE  \A j \in Installations : Accounted(Run(tree, steps), j)
<1> DEFINE i == q.owner
<1>1. i \in Installations /\ Kept(i, seen.record[i])
  BY RequestsAssumption DEF Good
<1>2. Rooted(Run(tree, steps)) /\ \A n \in DOMAIN steps : SameAsSeen(seen, steps[n])
  BY PlanRooted DEF StillValid
<1>3. CASE Manual(seen, q)
  <2> DEFINE x == Backup(Saved(seen, {y.path : y \in ForcedPreparation(seen, q).record} \union {PolicyPath(i)}))
  <2>1. steps = <<x>>
    BY <1>3 DEF Steps, ManualRecovery
  <2>2. x.op = "backup"
    BY DEF Backup
  <2> HIDE DEF x
  <2>3. \A j \in Installations : Accounted(Do(tree, x), j)
    BY <2>2, BackupTidy
  <2> QED BY <2>1, <2>3, RunSingle
<1>4. CASE ~Manual(seen, q) /\ q.kind = "install"
  <2>1. steps = InstallSteps(tree, q) /\ InstallAccepted(tree, q)
    BY <1>4 DEF StillValid, PreparedAgain
  <2> QED BY <1>2, <2>1, InstallTidy
<1>5. CASE ~Manual(seen, q) /\ q.kind = "update"
  <2>1. steps = UpdateSteps(seen, q) /\ UpdateAccepted(seen, q)
    BY <1>5 DEF Steps, Accepted
  <2>2. ForceVerdict(seen, q) # "manual"
    BY <1>5, <2>1 DEF Manual, UpdateAccepted
  <2> DEFINE R == UpdateRecord(seen, q)
  <2>3. Sized(R) /\ InScope(i, R)
    BY <1>1, <2>1, <2>2, RequestsAssumption, UpdateRecordOf DEF UpdateAccepted, Kept
  <2>4. RecordsOnly(steps, Record(i, R))
    BY <1>1, <2>1, <2>3, UpdatePlan DEF Kept
  <2> HIDE DEF R
  <2>5. seen.record[i] = tree.record[i]
    BY <2>4, RecordSeen
  <2> QED BY <1>2, <2>1, <2>2, <2>5, UpdateTidy
<1>6. CASE ~Manual(seen, q) /\ q.kind = "uninstall"
  <2>1. steps = UninstallSteps(seen, q) /\ UninstallAccepted(seen, q)
    BY <1>6 DEF Steps, Accepted
  <2>2. CASE ~Installed(seen, i)
    <3>1. steps = <<>>
      BY <2>1, <2>2 DEF UninstallSteps
    <3>2. Len(steps) = 0
      BY <3>1
    <3>3. Run(tree, steps) = tree
      BY <3>2, RunTrail
    <3> QED BY <3>3
  <2>3. CASE Installed(seen, i)
    <3>1. RecordsOnly(steps, Record(i, UninstallRecord(seen, q)))
      BY <1>1, <2>1, <2>3, UninstallPlan DEF Kept
    <3>2. seen.record[i] = tree.record[i]
      BY <3>1, RecordSeen
    <3> QED BY <1>2, <2>1, <2>3, <3>2, UninstallTidy
  <2> QED BY <2>2, <2>3
<1>7. q.kind \in {"install", "update", "uninstall"}
  BY DEF Accepted
<1> QED BY <1>3, <1>4, <1>5, <1>6, <1>7

-----------------------------------------------------------------------------
(* Unless a command was killed, every installation is accounted for.       *)
TidyInvariant ==
    /\ kills = 0 => \A i \in Installations : Accounted(tree, i)
    /\ last.kind = "uninstall" => last.owner \in Installations

(* A format 1 installation is accounted for, and the others hold nothing.   *)
LEMMA InitTidy == Init => TidyInvariant
<1> SUFFICES ASSUME Init PROVE TidyInvariant
  OBVIOUS
<1>1. last.kind # "uninstall"
  BY DEF Init, NoCommand
<1> SUFFICES ASSUME NEW i \in Installations PROVE Accounted(tree, i)
  BY <1>1 DEF TidyInvariant
<1>2. /\ tree.files = InitialFiles /\ tree.dirs = UserDirs \union UNION {LegacyRecord(j).dirs : j \in Legacy}
      /\ tree.record[i] = IF i \in Legacy THEN LegacyRecord(i) ELSE NoRecord
  BY DEF Init
<1>3. \A j \in Legacy : j \in Installations /\ InScope(j, LegacyRecord(j))
  BY LegacyAssumption, LegacyRecordOf DEF Kept
<1>4. ASSUME NEW j \in Legacy, NEW p \in Recorded(LegacyRecord(j)), p[1] \in Scope(i) PROVE i = j
  <2>1. j \in Installations /\ LegacyRecord(j).policy = SourcePolicySet(j, 1) /\ 1 \in Versions
    BY <1>3, LegacyAssumption, LegacyRecordFits
  <2>2. \A f \in DOMAIN LegacyRecord(j).policy : f[1] \in Scope(j)
    BY <2>1, SourcePolicySetOf
  <2>3. \A x \in LegacyRecord(j).targets : x.path[1] \in Scope(j)
    BY <1>3 DEF InScope, TargetInScope
  <2>4. p[1] \in Scope(j)
    BY <1>4, <2>2, <2>3 DEF Recorded
  <2> QED BY <1>4, <2>1, <2>4, ScopesApart
<1>5. ASSUME NEW j \in Legacy, NEW d \in LegacyRecord(j).dirs, d[1] \in Scope(i) PROVE i = j
  <2>1. d \in Namespaces(j) \/ d[1] \in Scope(j)
    BY <1>3 DEF InScope, DirectoryInScope
  <2>2. d \in Namespaces(j) => d[1] = "state"
    BY <1>3, NamespacesOf
  <2>3. d[1] \in Scope(j)
    BY <1>5, <2>1, <2>2, NamespaceRoots
  <2> QED BY <1>3, <1>5, <2>3, ScopesApart
<1>6. ASSUME NEW p \in Rendering(tree), p[1] \in Scope(i) PROVE p \in Recorded(tree.record[i])
  <2>1. PICK j \in Legacy : p \in Recorded(LegacyRecord(j))
    BY <1>2 DEF Rendering, InitialFiles, Recorded
  <2> QED BY <1>2, <1>4, <1>6, <2>1
<1>7. ASSUME NEW d \in tree.dirs, d[1] \in Scope(i) PROVE d \in UserDirs \union tree.record[i].dirs
  BY <1>2, <1>5, <1>7
<1> QED BY <1>6, <1>7 DEF Accounted

(* What users write is theirs, and what they change stays on record.       *)
LEMMA EditTidy ==
    ASSUME Shaped(tree), TidyInvariant, NEW p, NEW c, Edit(p, c), c.body # 0 => p \in Rendering(tree)
    PROVE  TidyInvariant'
<1>1. tree' = [tree EXCEPT !.files = Put(@, p, c)] /\ kills' = kills /\ last' = NoCommand
  BY DEF Edit
<1>2. tree'.record = tree.record /\ tree'.dirs = tree.dirs /\ tree'.files = Put(tree.files, p, c)
  BY <1>1 DEF Shaped
<1>3. DOMAIN tree'.files = DOMAIN tree.files \union {p} /\ \A f \in DOMAIN tree'.files : tree'.files[f] = IF f = p THEN c ELSE tree.files[f]
  BY <1>2 DEF Put
<1>4. Rendering(tree') \subseteq Rendering(tree)
  BY <1>3 DEF Rendering
<1>5. ASSUME kills = 0, NEW i \in Installations PROVE Accounted(tree', i)
  <2>1. Accounted(tree, i)
    BY <1>5 DEF TidyInvariant
  <2>2. Theirs(tree, i) \subseteq Theirs(tree', i)
    BY <1>2, <1>3 DEF Theirs
  <2> QED BY <1>2, <1>4, <2>1, <2>2, AccountKept
<1>6. last'.kind # "uninstall"
  BY <1>1 DEF NoCommand
<1> QED BY <1>1, <1>5, <1>6 DEF TidyInvariant

(* What users delete was on record.                                        *)
LEMMA DeleteTidy ==
    ASSUME Good(tree), Fitting(tree), Rooted(tree), Rooted(tree'), \A j \in Installations : Accounted(tree, j), Delete
    PROVE  \A j \in Installations : Accounted(tree', j)
<1>1. PICK i \in Installations : \E f \in Recorded(tree.record[i]) : tree' = Do(tree, Unlink(f))
  BY DEF Delete, Recorded
<1>2. PICK p \in Recorded(tree.record[i]) : tree' = Do(tree, Unlink(p))
  BY <1>1
<1> DEFINE x == Unlink(p)
<1>3. x.op = "remove" /\ x.path = p
  BY DEF Unlink
<1>4. p \in Path /\ p[1] \in Scope(i)
  <2>1. Belongs(i, p)
    BY <1>2, RecordedBelongs DEF Good, Fitting, Kept, Readable, Recorded
  <2> QED BY <2>1, BelongsScope
<1>5. tree' = Do(tree, x)
  BY <1>2
<1> HIDE DEF x
<1>6. /\ DOMAIN tree'.files = DOMAIN tree.files \ {p}
      /\ \A f \in DOMAIN tree.files \ {p} : tree'.files[f] = tree.files[f]
  BY <1>3, <1>5, DoFiles
<1>7. tree'.record = tree.record /\ tree'.dirs = tree.dirs
  BY <1>3, <1>5, DoRecord
<1>8. Accounted(tree', i)
  <2>1. Rendering(tree') \subseteq Rendering(tree)
    BY <1>6 DEF Rendering
  <2>2. Theirs(tree, i) \subseteq Theirs(tree', i)
    BY <1>2, <1>6, <1>7 DEF Theirs
  <2> QED BY <1>7, <2>1, <2>2, AccountKept
<1>9. ASSUME NEW j \in Installations, j # i PROVE Accounted(tree', j)
  <2>1. tree' = Run(tree, <<x>>)
    BY <1>5, RunSingle
  <2>2. <<x>> \in Seq({x})
    OBVIOUS
  <2>3. Local(i, <<x>>)
    <3> DEFINE Y == {x}
               s == <<x>>
    <3>1. \A y \in Y : /\ Touches(y) => y.path \in Path /\ y.path[1] \in Scope(i)
                       /\ y.op = "record" => y.owner = i
                       /\ y.op = "mkdir" => y.path[1] \in Scope(i) \union {"state"}
      BY <1>3, <1>4
    <3>2. s \in Seq(Y)
      BY <2>2
    <3> HIDE DEF Y, s
    <3>3. Local(i, s)
      BY <3>1, <3>2 DEF Local
    <3> QED BY <3>3 DEF s
  <2>4. DOMAIN tree.record = Installations /\ InScope(j, tree.record[j])
    BY DEF Good, Kept
  <2> QED BY <1>9, <2>1, <2>3, <2>4, LocalAccounted
<1> QED BY <1>8, <1>9

(* Every step keeps the accounts, until one is killed.                     *)
LEMMA NextTidy ==
    LifecycleInvariant /\ FittingInvariant /\ RootedInvariant /\ RootedInvariant' /\ TidyInvariant /\ [Next]_vars
        => TidyInvariant'
<1> SUFFICES ASSUME LifecycleInvariant, FittingInvariant, RootedInvariant, RootedInvariant', TidyInvariant, [Next]_vars
             PROVE  TidyInvariant'
  OBVIOUS
<1>1. Good(tree) /\ Fitting(tree) /\ Shaped(tree) /\ Rooted(tree) /\ Rooted(tree') /\ kills \in Nat
  BY DEF LifecycleInvariant, FittingInvariant, RootedInvariant, Good, Standing
<1>2. ASSUME NEW p \in Procs, pending[p].busy
      PROVE  /\ pending[p].request \in Requests /\ pending[p].request.owner \in Installations
             /\ Good(pending[p].seen) /\ Fitting(pending[p].seen) /\ Accepted(pending[p].seen, pending[p].request)
  BY <1>2, RequestsAssumption DEF LifecycleInvariant, FittingInvariant
<1>3. NoCommand.kind # "uninstall"
  BY DEF NoCommand
<1>4. ASSUME NEW p \in Procs, Prepare(p) PROVE TidyInvariant'
  <2>1. tree' = tree /\ kills' = kills /\ last' = NoCommand
    BY <1>4 DEF Prepare
  <2> QED BY <1>3, <2>1 DEF TidyInvariant
<1>5. ASSUME NEW p \in Procs, Apply(p) PROVE TidyInvariant'
  <2> DEFINE q == pending[p].request
             seen == pending[p].seen
             steps == Steps(seen, q)
  <2>1. pending[p].busy /\ kills' = kills /\ last' \in {NoCommand, q}
    BY <1>5 DEF Apply
  <2>2. last'.kind = "uninstall" => last'.owner \in Installations
    BY <1>2, <1>3, <2>1
  <2>3. ASSUME kills = 0 PROVE \A i \in Installations : Accounted(tree', i)
    <3>1. \A i \in Installations : Accounted(tree, i)
      BY <2>3 DEF TidyInvariant
    <3>2. CASE StillValid(q, seen, steps) /\ Applicable(tree, steps)
      <4>1. tree' = Run(tree, steps)
        BY <1>5, <3>2 DEF Apply
      <4> QED BY <1>1, <1>2, <2>1, <3>1, <3>2, <4>1, PlanTidy
    <3>3. CASE ~(StillValid(q, seen, steps) /\ Applicable(tree, steps))
      <4>1. tree' = tree
        BY <1>5, <3>3 DEF Apply
      <4> QED BY <3>1, <4>1
    <3> QED BY <3>2, <3>3
  <2> QED BY <2>1, <2>2, <2>3 DEF TidyInvariant
<1>6. ASSUME NEW p \in Procs, Kill(p) PROVE TidyInvariant'
  <2>1. kills' = kills + 1 /\ last' = NoCommand
    BY <1>6 DEF Kill
  <2>2. kills' # 0
    BY <1>1, <2>1
  <2> QED BY <1>3, <2>1, <2>2 DEF TidyInvariant
<1>7. CASE WriteOwn
  <2>1. PICK p \in UserFiles : Edit(p, IF Present(tree, p) THEN [tree.files[p] EXCEPT !.own = TRUE] ELSE UserText)
    BY <1>7 DEF WriteOwn
  <2> DEFINE c == IF Present(tree, p) THEN [tree.files[p] EXCEPT !.own = TRUE] ELSE UserText
  <2>2. c.body # 0 => p \in Rendering(tree)
    <3>1. SUFFICES ASSUME c.body # 0 PROVE p \in Rendering(tree)
      OBVIOUS
    <3>2. Present(tree, p)
      BY <3>1 DEF UserText
    <3>3. DOMAIN tree.files[p] = {"body", "marks", "own"}
      BY <1>1, <3>2 DEF Fitting, FileFits, Present
    <3>4. c.body = tree.files[p].body
      BY <3>2, <3>3
    <3> QED BY <3>1, <3>2, <3>4 DEF Rendering, Present
  <2> QED BY <1>1, <2>1, <2>2, EditTidy
<1>8. CASE EditBody
  <2>1. PICK p \in DOMAIN tree.files : Ours(p) /\ Edit(p, [tree.files[p] EXCEPT !.body = Edited])
    BY <1>8 DEF EditBody
  <2>2. p \in Rendering(tree)
    BY <2>1, PolicySetAssumption DEF Ours, Rendering
  <2> QED BY <1>1, <2>1, <2>2, EditTidy
<1>9. CASE BreakMarkers
  <2>1. PICK p \in DOMAIN tree.files :
           \/ Edit(p, [tree.files[p] EXCEPT !.marks = "torn"])
           \/ Edit(p, [tree.files[p] EXCEPT !.marks = "garbled"])
           \/ Edit(p, [tree.files[p] EXCEPT !.marks = "none", !.body = 0])
    BY <1>9 DEF BreakMarkers
  <2>2. DOMAIN tree.files[p] = {"body", "marks", "own"}
    BY <1>1 DEF Fitting, FileFits
  <2>3. ASSUME NEW c, Edit(p, c), c.body = tree.files[p].body \/ c.body = 0 PROVE TidyInvariant'
    <3>1. c.body # 0 => p \in Rendering(tree)
      BY <2>3 DEF Rendering
    <3> QED BY <1>1, <2>3, <3>1, EditTidy
  <2> QED BY <2>1, <2>2, <2>3
<1>10. CASE Delete
  <2>1. kills' = kills /\ last' = NoCommand
    BY <1>10 DEF Delete
  <2>2. ASSUME kills = 0 PROVE \A i \in Installations : Accounted(tree', i)
    BY <1>1, <1>10, <2>2, DeleteTidy DEF TidyInvariant
  <2> QED BY <1>3, <2>1, <2>2 DEF TidyInvariant
<1>11. CASE UNCHANGED vars
  BY <1>11 DEF vars, TidyInvariant
<1> QED BY <1>4, <1>5, <1>6, <1>7, <1>8, <1>9, <1>10, <1>11 DEF Next

(* What is off the record has none of OAW's text, and no directory of it    *)
(* remains but for something of theirs.                                    *)
LEMMA UnrecordedLeavesNothing ==
    ASSUME NEW t, NEW i \in Installations, Accounted(t, i), ~Installed(t, i)
    PROVE  /\ \A p \in DOMAIN t.files : p[1] \in Scope(i) => t.files[p].body = 0
           /\ \A d \in t.dirs : d[1] \in Scope(i) => d \in UserDirs \/ ~Empty(t, d)
<1>1. t.record[i] = NoRecord
  BY DEF Installed
<1>2. Recorded(t.record[i]) = {} /\ t.record[i].dirs = {} /\ t.record[i].targets = {}
  BY <1>1 DEF NoRecord, Recorded
<1>3. Theirs(t, i) \subseteq DOMAIN t.files
  BY <1>2 DEF Theirs
<1>4. ASSUME NEW p \in DOMAIN t.files, p[1] \in Scope(i) PROVE t.files[p].body = 0
  BY <1>2, <1>4 DEF Accounted, Rendering
<1>5. ASSUME NEW d \in t.dirs, d[1] \in Scope(i) PROVE d \in UserDirs \/ ~Empty(t, d)
  <2>1. d \in UserDirs \/ \E w \in Theirs(t, i) : Below(d, w)
    BY <1>2, <1>5 DEF Accounted
  <2> QED BY <1>3, <2>1 DEF Empty
<1> QED BY <1>4, <1>5

(* When the last target of an installation is uninstalled, and no command  *)
(* was killed, nothing of OAW's remains in its scope, whatever was          *)
(* installed, updated, edited and uninstalled before, and by however many   *)
(* processes.                                                              *)
THEOREM NothingIsLeft == Spec => []NothingLeft
<1>1. Init => TidyInvariant
  BY InitTidy
<1>2. LifecycleInvariant /\ FittingInvariant /\ RootedInvariant /\ RootedInvariant' /\ TidyInvariant /\ [Next]_vars
          => TidyInvariant'
  BY NextTidy
<1>3. TidyInvariant => NothingLeft
  BY UnrecordedLeavesNothing DEF TidyInvariant, NothingLeft
<1> QED BY <1>1, <1>2, <1>3, LifecycleHolds, FilesFit, TreeHangs, PTL DEF Spec

(* While no command was killed check sees everything for any number of      *)
(* processes, also between the steps of one and of another: only a kill     *)
(* and a second process together can hide what OAW wrote from it.           *)
THEOREM UnkilledCheckIsHonest == Spec => [](kills = 0 => CheckSeesEverything)
<1>1. Init => TidyInvariant
  BY InitTidy
<1>2. LifecycleInvariant /\ FittingInvariant /\ RootedInvariant /\ RootedInvariant' /\ TidyInvariant /\ [Next]_vars
          => TidyInvariant'
  BY NextTidy
<1>3. LifecycleInvariant /\ FittingInvariant /\ TidyInvariant => (kills = 0 => CheckSeesEverything)
  <2> SUFFICES ASSUME LifecycleInvariant, FittingInvariant, TidyInvariant, kills = 0,
                      NEW i \in Installations,
                      \A id \in Supported(i) : TargetStatus(tree, i, id) \notin {"drift", "invalid-state"},
                      NEW p \in DOMAIN tree.files, p[1] \in Scope(i), tree.files[p].body # 0
               PROVE  LET r == tree.record[i]
                      IN \/ p \in DOMAIN r.policy /\ PolicyFileClean(tree, r, p)
                         \/ \E x \in At(r, p) : ValidateLiveTargetRecord(tree, x)
    BY DEF CheckSeesEverything
  <2> DEFINE r == tree.record[i]
  <2>1. Kept(i, r) /\ RecordFits(i, r) /\ Accounted(tree, i)
    BY DEF LifecycleInvariant, Good, FittingInvariant, Fitting, TidyInvariant
  <2>2. p \in Recorded(r)
    BY <2>1 DEF Accounted, Rendering
  <2>3. Installed(tree, i)
    BY <2>2 DEF Installed, Recorded, NoRecord
  <2>4. ParseInstallationState(i, r) /\ ValidateOwnedDirectories(i, r)
    BY <2>1, <2>3 DEF Kept, Readable, Installed
  <2>5. CASE p \in DOMAIN r.policy
    <3>1. Belongs(i, p)
      BY <2>1, <2>5, RecordedBelongs DEF Kept, Readable
    <3>2. \E id \in Supported(i) : TRUE
      BY <3>1 DEF Belongs
    <3>3. ValidatePolicySetFiles(i, tree)
      BY <2>3, <2>4, <3>2 DEF TargetStatus
    <3> QED BY <2>5, <3>3 DEF ValidatePolicySetFiles
  <2>6. CASE \E x \in r.targets : p = x.path
    <3>1. PICK x \in r.targets : p = x.path
      BY <2>6
    <3>2. x.target \in Supported(i)
      BY <2>4 DEF ParseInstallationState, ValidateTargetRecords
    <3> DEFINE mine == {y \in r.targets : y.target = x.target}
    <3>3. x \in mine
      OBVIOUS
    <3>4. \A y \in mine : ValidateLiveTargetRecord(tree, y)
      BY <2>3, <2>4, <3>2, <3>3 DEF TargetStatus
    <3> QED BY <3>1, <3>3, <3>4 DEF At
  <2> QED BY <2>2, <2>5, <2>6 DEF Recorded
<1> QED BY <1>1, <1>2, <1>3, LifecycleHolds, FilesFit, TreeHangs, PTL DEF Spec
=============================================================================
