------------------------ MODULE MCProfileObservation ------------------------
(* One instance of ProfileObservation: Provider "p" distributes a Skill and *)
(* a role together, found by version directory or behind a link; Provider   *)
(* "q" distributes a Skill of the same name.                                *)
EXTENDS ProfileObservation

MCBindings ==
    {[id |-> "p-plan", provider |-> "p", distribution |-> "pd", kind |-> "skill",
      reference |-> "plan", root |-> "skill"],
     [id |-> "p-role", provider |-> "p", distribution |-> "pd", kind |-> "role",
      reference |-> "role", root |-> "role"],
     [id |-> "q-plan", provider |-> "q", distribution |-> "qd", kind |-> "skill",
      reference |-> "plan", root |-> "skill"]}

MCFiles == {<<"role", "SKILL.md">>, <<"skill", "SKILL.md">>, <<"skill", "more.md">>, Manifest}
Skill == <<"skill", "SKILL.md">>

(* The directory "2.0" is also what "link" leads to.                        *)
MCLinks == "1.0" :> "l1" @@ "2.0" :> "l2" @@ "link" :> "l2" @@ "direct" :> "l3"
MCProbes ==
    {[provider |-> "p", distribution |-> "pd", names |-> {"1.0", "2.0"}, versioned |-> TRUE,
      evidence |-> Skill],
     [provider |-> "p", distribution |-> "pd", names |-> {"link"}, versioned |-> FALSE,
      evidence |-> Skill],
     [provider |-> "q", distribution |-> "qd", names |-> {"direct"}, versioned |-> FALSE,
      evidence |-> Skill],
     [provider |-> "q", distribution |-> "unbound", names |-> {"link"}, versioned |-> FALSE,
      evidence |-> <<"skill", "more.md">>]}
MCRevision == "pd" :> "1.0" @@ "qd" :> "1.0" @@ "unbound" :> "1.0"

(* A published tree has no manifest.                                        *)
MCExpected == [p \in MCFiles |-> IF p = Manifest THEN "absent" ELSE "right"]
Nothing == [p \in MCFiles |-> "absent"]
Installed(a, b, c) == "l1" :> a @@ "l2" :> b @@ "l3" :> c
WithManifest(content) == [MCExpected EXCEPT ![Manifest] = content]
Row(responsibility, references) ==
    [responsibility |-> responsibility, action |-> "text", references |-> references]
Text(id, rows) == [id |-> id, rows |-> rows, valid |-> TRUE]
Good == Text("mine", <<Row("Plan", <<"plan">>)>>)
Longer == Text("mine", <<Row("Plan", <<"plan">>), Row("Review", <<"plan">>)>>)
Unsure == Text("mine", <<Row("Plan", <<"plan">>), Row("Dance", <<"plan">>)>>)
Twice == Text("mine", <<Row("Plan", <<"plan">>), Row("Plan", <<>>)>>)
Idle == Text("mine", <<[responsibility |-> "Plan", action |-> "empty", references |-> <<>>]>>)
Plain == Text("mine", <<Row("Plan", <<>>)>>)
Reserved == Text("SP", <<Row("Plan", <<"plan">>)>>)
Broken == [Good EXCEPT !.valid = FALSE]
MCBuiltIn == {Text("SP", <<Row("Plan", <<"plan">>)>>)}
MCProfileTexts == {Good, Longer}
MCProfileFiles == {<<"project", "a.md">>, <<"user", "a.md">>, <<"user", "b.md">>}
InDirectories(a, b, c) == <<"project", "a.md">> :> a @@ <<"user", "a.md">> :> b @@ <<"user", "b.md">> :> c
Disk(t, ps) == [tree |-> t, profiles |-> ps]
MCInitialDisks ==
    {Disk(Installed(MCExpected, Nothing, MCExpected), InDirectories(Longer, None, None)),
     Disk(Installed(Nothing, MCExpected, WithManifest("right")), InDirectories(Good, Reserved, Good)),
     Disk(Installed([MCExpected EXCEPT ![<<"role", "SKILL.md">>] = "wrong"], Nothing, WithManifest("wrong")),
          InDirectories(Good, Reserved, Broken)),
     Disk(Installed(Nothing, Nothing, [MCExpected EXCEPT ![Skill] = "garbled"]),
          InDirectories(Longer, None, None))}
    \union {Disk(Installed(Nothing, Nothing, Nothing), InDirectories(t, None, None)) :
              t \in {Unsure, Twice, Idle, Plain}}

Request(source, id) == [selector |-> [source |-> source, id |-> id], context |-> "valid"]
MCRequests == {Request("project", "mine"), Request("user", "mine"), Request("any", "mine"),
               Request("built-in", "SP"), Request("user", "SP"), Request("any", "SP"),
               [Request("project", "mine") EXCEPT !.context = "stale"]}

Entry(location, file) == [name |-> "plan", valid |-> TRUE, enabled |-> TRUE,
                          location |-> location, file |-> file]
At(location) == Entry(location, <<"skill", "SKILL.md">>)
Listed(entries) == [cwd |-> "ours", skills |-> entries]
MCAnswers ==
    {Listed(<<At("l1"), [At("l3") EXCEPT !.enabled = FALSE]>>),
     Listed(<<At("l1"), At("l3")>>),
     Listed(<<At("l2"), At("l3")>>),
     Listed(<<At("l3"), At("l3")>>),
     Listed(<<At("elsewhere"), [At("l1") EXCEPT !.valid = FALSE],
              [At("l3") EXCEPT !.name = "other"], Entry("l3", <<"role", "SKILL.md">>),
              Entry("l3", <<"skill", "more.md">>), At("l3")>>),
     [Listed(<<At("l3")>>) EXCEPT !.cwd = "another"]}
=============================================================================
