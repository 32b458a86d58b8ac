---------------------------- MODULE ConfigLayouts ----------------------------
(* Layouts of a config.toml with two projects, for the instances of           *)
(* ConfigFile that TLC checks.                                                *)
EXTENDS TomlLines

Enabled == Field("channel_enabled", "on", "plain")
Bare == Field("channel_listen", "all", "none")
Listen == Field("channel_listen", "all", "plain")
Sub == <<Header("sub"), Plain("key")>>
Table == <<Header("table"), Plain("key")>>
ProjectsTable == Header("projects")

\* The main lines of a block, in any order and with blank and comment lines.
Mains(p) ==
    { <<Id(p)>>, <<Enabled, Id(p), Plain("remark")>>, <<Id(p), Bare, Plain("blank"), Enabled>>,
      <<Plain("blank"), Id(p), Plain("key"), Listen, Enabled>> }
Blocks(p) == {<<ProjectsTable>> \o main \o tail : main \in Mains(p), tail \in {<<>>, Sub \o <<Plain("blank")>>}}
TwoProjects ==
    {a \o b \o tail : a \in Blocks("a"), b \in Blocks("b"), tail \in {<<>>, Table}}

OneFile == {<<ProjectsTable, Id("a"), Enabled, ProjectsTable, Id("b")>>}
OneLess == {<<ProjectsTable, Id("b")>>}
\* A project less, a value changed, the blocks in another order.
SomeEdits ==
    OneLess \cup
    { <<ProjectsTable, Id("a"), Bare>> \o Sub \o <<ProjectsTable, Id("b"), Enabled>>,
      <<ProjectsTable, Id("b"), Listen, Plain("blank"), ProjectsTable, Id("a")>> }

===============================================================================
