------------------------------- MODULE Deploy -------------------------------
(***************************************************************************)
(* What Zpit writes into a project and into a worktree of it: hook         *)
(* scripts, hook settings, agents, docs and .mcp.json, and the keys that   *)
(* deploy, redeploy and remove them (internal/worktree/hooks.go and        *)
(* internal/tui/launch.go, confirm.go, loop_cmds.go).  A command is the    *)
(* sequence of the steps it still has to take; each step is one file or    *)
(* one directory, and commands of several keys or clients interleave.      *)
(***************************************************************************)
EXTENDS Naturals, Sequences, FiniteSets, SequencesExt

CONSTANTS
    Modes,          \* values of hook_mode the config may have
    Forms,          \* what settings.json may be at first
    Kinds,          \* the operations used
    Exclusive,      \* is one operation asked for only when the last is over?
    Faults,         \* steps that may fail; "mcp": or there is no channel
    MaxCommands,    \* bound: operations asked for
    MaxReloads,     \* bound: changes of hook_mode
    MaxCrashes,     \* bound: ends of the program
    MaxEdits        \* bound: edits of settings by the user

DeployAssumption ==
    /\ Modes \subseteq {"strict", "standard", "relaxed"} /\ Modes # {}
    /\ Forms \subseteq {"absent", "object", "broken", "null"} /\ Exclusive \in BOOLEAN
    /\ Kinds \subseteq {"claude", "clarifier", "reviewer", "efficiency", "redeploy", "undeploy", "loop"}
    /\ Faults \subseteq {"write", "remove", "mcp"}
    /\ {MaxCommands, MaxReloads, MaxCrashes, MaxEdits} \subseteq Nat

\* Agents that run under the hooks (needsAgentEnv, without a plain claude)
Guarded == {"clarifier", "reviewer", "coding"}
AllAgents == {"clarifier", "reviewer", "task-runner", "efficiency"}

NoSettings == [form |-> "absent", keys |-> {}, hooks |-> "none"]
Empty == [scripts |-> "none", settings |-> NoSettings, local |-> "absent",
          agents |-> {}, docs |-> FALSE, mcp |-> 0, ignored |-> FALSE]

VARIABLES
    tree,       \* the files below a project and below its worktree
    mode,       \* hook_mode of the config
    cmds,       \* commands that run
    starting,   \* terminals opened, whose agent has not read its files yet
    prepared,   \* has the worktree been made and given its hooks?
    ended,      \* did a command end the program?
    started,    \* history: agents, with what they found
    userKeys,   \* history: the keys the user has in settings.json
    used
vars == <<tree, mode, cmds, starting, prepared, ended, started, userKeys, used>>

InitialSettings(form) ==
    [form |-> form, keys |-> IF form \in {"object", "broken"} THEN {"plugins"} ELSE {}, hooks |-> "none"]
Init ==
    /\ \E form \in Forms :
          LET s == InitialSettings(form)
          IN  /\ tree = [t \in {"project", "worktree"} |->
                            IF t = "project" THEN [Empty EXCEPT !.settings = s] ELSE Empty]
              /\ userKeys = s.keys
    /\ mode \in Modes
    /\ cmds = {} /\ starting = {} /\ prepared = FALSE /\ ended = FALSE /\ started = {}
    /\ used = [commands |-> 0, reloads |-> 0, crashes |-> 0, edits |-> 0]

-----------------------------------------------------------------------------
(* The steps of the operations *)

\* Bug for comparison: the hooks are taken out of settings.json first.
UndeploySettingsFirst == <<"read", "clean", "rm agents", "rm docs", "rm scripts", "rm mcp", "rm local">>
\* undeployFiles
Undeploy == <<"rm agents", "rm docs", "rm scripts", "rm mcp", "rm local", "read", "clean">>
\* Bug for comparison: the agent before its hooks.
DeployAgentFirst ==
    <<"ignore", "agent", "scripts", "read", "merge", "docs", "mcp", "launch">>
\* Bug for comparison: the ignore rules last.
DeployIgnoreLast ==
    <<"scripts", "read", "merge", "agent", "docs", "mcp", "ignore", "launch">>
\* Bug for comparison: the .mcp.json of the last agent is left.
DeployKeepsMcp == <<"ignore", "scripts", "read", "merge", "agent", "docs", "launch">>
\* deployAndLaunchAgent
DeployAgent == <<"ignore", "scripts", "read", "merge", "agent", "docs", "mcp", "launch">>
\* deployAndLaunchAgentLite
DeployLite == <<"ignore", "agent", "docs", "mcp", "launch">>
\* launchClaudeCmd, launchClarifierCmd, launchReviewerCmd, launchEfficiencyCmd
Launch == <<"mcp", "launch">>
\* deployAllCmd
Redeploy == Undeploy \o <<"ignore", "scripts", "read", "merge", "all agents", "docs">>
\* loopCreateWorktreeCmd
CreateWorktree == <<"checkout", "ignore", "scripts", "overlay", "mcp", "prepared">>
\* Bug for comparison: the hooks are not deployed a second time.
WriteAgentKeepsOverlay == <<"ignore", "docs", "agent", "launch">>
\* loopWriteAgentCmd and loopLaunchCoderCmd
WriteAgent == <<"ignore", "scripts", "overlay", "docs", "agent", "launch">>

\* [Enter], [c], [r], [f]: an agent whose file is there is launched as it is.
StepsOf(kind) ==
    CASE kind = "claude" -> Launch
      [] kind = "redeploy" -> Redeploy
      [] kind = "undeploy" -> Undeploy
      [] kind = "loop" -> IF prepared THEN WriteAgent ELSE CreateWorktree
      [] kind \in tree["project"].agents -> Launch
      [] kind = "efficiency" -> DeployLite
      [] OTHER -> DeployAgent

Press(kind) ==
    /\ ~ended /\ used.commands < MaxCommands
    /\ Exclusive => cmds = {} /\ starting = {}
    /\ kind = "loop" => \A c \in cmds : c.kind # "loop"
    /\ used' = [used EXCEPT !.commands = @ + 1]
    /\ cmds' = cmds \cup
         {[id |-> used.commands + 1, kind |-> kind, mode |-> mode, todo |-> StepsOf(kind), read |-> NoSettings,
           target |-> IF kind = "loop" THEN "worktree" ELSE "project"]}
    /\ UNCHANGED <<tree, mode, starting, prepared, ended, started, userKeys>>

AgentOf(c) == IF c.kind = "loop" THEN "coding" ELSE c.kind

-----------------------------------------------------------------------------
(* One step of a command *)

\* Bug for comparison: a command that is over stays.
AdvanceKeeps(c) == cmds' = (cmds \ {c}) \cup {[c EXCEPT !.todo = Tail(@)]}
Advance(c) == cmds' = (cmds \ {c}) \cup IF Len(c.todo) > 1 THEN {[c EXCEPT !.todo = Tail(@)]} ELSE {}
Abandon(c) == cmds' = cmds \ {c}
At(c, step) == ~ended /\ c.todo # <<>> /\ Head(c.todo) = step
Leave == UNCHANGED <<mode, userKeys, used>>
Quiet == Leave /\ UNCHANGED <<starting, prepared, ended, started>>

\* Only the field of the step changes.
Write(c, f) == tree' = [tree EXCEPT ![c.target] = f]
Here(c) == tree[c.target]

\* os.RemoveAll and os.Remove; their errors are not looked at.
RemoveFiles(c) ==
    /\ \E step \in {"rm agents", "rm docs", "rm scripts", "rm mcp", "rm local"} :
          /\ At(c, step)
          /\ \/ Write(c, CASE step = "rm agents" -> [Here(c) EXCEPT !.agents = {}]
                           [] step = "rm docs" -> [Here(c) EXCEPT !.docs = FALSE]
                           [] step = "rm scripts" -> [Here(c) EXCEPT !.scripts = "none"]
                           [] step = "rm mcp" -> [Here(c) EXCEPT !.mcp = 0]
                           [] OTHER -> [Here(c) EXCEPT !.local = "absent"])
             \/ "remove" \in Faults /\ UNCHANGED tree
    /\ Advance(c) /\ Quiet

\* EnsureGitignore, deployDocs: errors are not looked at; writeMCPConfig: they are logged,
\* and it is not called with the channel off or without a broker ("mcp").
Ignore(c) == At(c, "ignore") /\ Write(c, [Here(c) EXCEPT !.ignored = TRUE]) /\ Advance(c) /\ Quiet
Docs(c) == At(c, "docs") /\ Write(c, [Here(c) EXCEPT !.docs = TRUE]) /\ Advance(c) /\ Quiet
WriteMcp(c) ==
    /\ At(c, "mcp")
    /\ Write(c, [Here(c) EXCEPT !.mcp = c.id]) \/ ("mcp" \in Faults /\ UNCHANGED tree)
    /\ Advance(c) /\ Quiet

\* Bug for comparison: errors of the first deployment are not looked at either.
ScriptsGoOn(c) ==
    /\ At(c, "scripts")
    /\ \/ Write(c, [Here(c) EXCEPT !.scripts = "all"])
       \/ "write" \in Faults /\ Write(c, [Here(c) EXCEPT !.scripts = IF @ = "none" THEN "some" ELSE @])
    /\ Advance(c) /\ Quiet
\* deployHookScripts writes them one by one.  A write that fails leaves its file as
\* it was; the loop's second deployment goes on whatever happened.
Scripts(c) ==
    /\ At(c, "scripts")
    /\ \/ Write(c, [Here(c) EXCEPT !.scripts = "all"]) /\ Advance(c)
       \/ /\ "write" \in Faults
          /\ Write(c, [Here(c) EXCEPT !.scripts = IF @ = "none" THEN "some" ELSE @])
          /\ IF c.kind = "loop" /\ prepared THEN Advance(c) ELSE Abandon(c)
    /\ Quiet

ReadSettings(c) ==
    /\ At(c, "read")
    /\ cmds' = (cmds \ {c}) \cup {[c EXCEPT !.todo = Tail(@), !.read = Here(c).settings]}
    /\ UNCHANGED tree /\ Quiet

\* Bug for comparison: settings.json is written anew.
MergedAnew(s, m) == [form |-> "object", keys |-> {}, hooks |-> m]
\* A file that does not parse counts as an empty one.
Merged(s, m) == [form |-> "object", keys |-> IF s.form = "object" THEN s.keys ELSE {}, hooks |-> m]
\* mergeSettingsHooks: null is a map that cannot be written.
MergeSettings(c) ==
    /\ At(c, "merge")
    /\ IF c.read.form = "null"
       THEN ended' = TRUE /\ UNCHANGED <<tree, cmds>>
       ELSE /\ \/ Write(c, [Here(c) EXCEPT !.settings = Merged(c.read, c.mode)]) /\ Advance(c)
               \/ "write" \in Faults /\ Abandon(c) /\ UNCHANGED tree
            /\ UNCHANGED ended
    /\ Leave /\ UNCHANGED <<starting, prepared, started>>

\* CleanSettingsHooks
CleanSettings(c) ==
    /\ At(c, "clean")
    /\ IF c.read.form # "object" \/ c.read.hooks = "none"
       THEN UNCHANGED tree
       ELSE \/ Write(c, [Here(c) EXCEPT !.settings =
                            IF c.read.keys = {} THEN NoSettings ELSE [c.read EXCEPT !.hooks = "none"]])
            \/ "remove" \in Faults /\ UNCHANGED tree
    /\ Advance(c) /\ Quiet

\* setupHookMode: no overlay in strict mode, and none is removed.
Overlay(c) ==
    /\ At(c, "overlay")
    /\ \/ /\ Write(c, [Here(c) EXCEPT !.local = IF c.mode = "strict" THEN @ ELSE c.mode])
          /\ Advance(c)
       \/ /\ "write" \in Faults /\ c.mode # "strict" /\ UNCHANGED tree
          /\ IF prepared THEN Advance(c) ELSE Abandon(c)
    /\ Quiet

WriteAgents(c) ==
    /\ \E step \in {"agent", "all agents"} :
          /\ At(c, step)
          /\ LET asked == IF step = "agent" THEN {AgentOf(c)} ELSE AllAgents
             IN  \/ Write(c, [Here(c) EXCEPT !.agents = @ \cup asked]) /\ Advance(c)
                 \/ /\ "write" \in Faults
                    /\ \E some \in SUBSET asked \ {asked} : Write(c, [Here(c) EXCEPT !.agents = @ \cup some])
                    /\ Abandon(c)
    /\ Quiet

\* Manager.Create: the worktree has what is in git, nothing of the above.  After a crash
\* it succeeds again only if the user has removed what was left.
Checkout(c) ==
    /\ At(c, "checkout")
    /\ \/ tree' = [tree EXCEPT !["worktree"] = Empty] /\ Advance(c)
       \/ Abandon(c) /\ UNCHANGED tree
    /\ Quiet
Prepared(c) ==
    /\ At(c, "prepared") /\ prepared' = TRUE /\ Advance(c)
    /\ UNCHANGED <<tree, starting, ended, started>> /\ Leave

LaunchClaude(c) ==
    /\ At(c, "launch") /\ Advance(c)
    /\ \/ starting' = starting \cup {[id |-> c.id, agent |-> AgentOf(c), target |-> c.target, mode |-> c.mode]}
       \/ UNCHANGED starting
    /\ UNCHANGED <<tree, prepared, ended, started>> /\ Leave

Command(c) ==
    RemoveFiles(c) \/ Ignore(c) \/ Docs(c) \/ WriteMcp(c) \/ Scripts(c) \/ ReadSettings(c) \/ MergeSettings(c)
    \/ CleanSettings(c) \/ Overlay(c) \/ WriteAgents(c) \/ Checkout(c) \/ Prepared(c) \/ LaunchClaude(c)

-----------------------------------------------------------------------------
(* Around *)

HooksOf(t) == {tree[t].settings.hooks, tree[t].local} \ {"none", "absent", "user"}

\* Claude Code reads its configuration when it starts.
ClaudeStarts(a) ==
    /\ starting' = starting \ {a}
    /\ started' = started \cup
         {[agent |-> a.agent, target |-> a.target, mode |-> a.mode, id |-> a.id, mcp |-> tree[a.target].mcp,
           scripts |-> tree[a.target].scripts, hooks |-> HooksOf(a.target)]}
    /\ UNCHANGED <<tree, mode, cmds, prepared, ended, userKeys, used>>

\* The user, or Claude Code for the user, edits settings.json or settings.local.json
\* of the project, not between a command's reading and writing of the file.
UserEdits ==
    /\ used.edits < MaxEdits /\ used' = [used EXCEPT !.edits = @ + 1]
    /\ \A c \in cmds : c.todo[1] \notin {"merge", "clean"}
    /\ LET s == tree["project"].settings
       IN  \/ /\ s.form \in {"absent", "object"}
              /\ \E keys \in SUBSET {"plugins", "env"} \ {{}, s.keys} :
                    /\ tree' = [tree EXCEPT !["project"].settings = [s EXCEPT !.form = "object", !.keys = keys]]
                    /\ userKeys' = keys
           \/ tree' = [tree EXCEPT !["project"].local = "user"] /\ UNCHANGED userKeys
    /\ UNCHANGED <<mode, cmds, starting, prepared, ended, started>>

\* hook_mode changes by a reload.
Reload ==
    /\ used.reloads < MaxReloads /\ used' = [used EXCEPT !.reloads = @ + 1]
    /\ mode' \in Modes \ {mode}
    /\ UNCHANGED <<tree, cmds, starting, prepared, ended, started, userKeys>>

\* The program ends and is started again; commands do not survive, terminals do.
Crash ==
    /\ used.crashes < MaxCrashes /\ used' = [used EXCEPT !.crashes = @ + 1]
    /\ cmds # {} /\ cmds' = {}
    /\ UNCHANGED <<tree, mode, starting, prepared, ended, started, userKeys>>

Next ==
    \/ \E kind \in Kinds : Press(kind)
    \/ \E c \in cmds : Command(c)
    \/ \E a \in starting : ClaudeStarts(a)
    \/ UserEdits \/ Reload \/ Crash

Spec == Init /\ [][Next]_vars

-----------------------------------------------------------------------------
(* Properties *)

\* The kinds of the variables; a command that has read settings.json is about to write it.
DeployTypeOK ==
    /\ \A t \in DOMAIN tree :
          /\ tree[t].scripts \in {"none", "some", "all"} /\ tree[t].local \in Modes \cup {"absent", "user"}
          /\ tree[t].settings.hooks \in Modes \cup {"none"}
          /\ tree[t].settings.form # "object" => tree[t].settings.hooks = "none"
    /\ \A c \in cmds : c.todo # <<>> /\ (c.read # NoSettings => c.kind # "loop")
    /\ \A c, d \in cmds : c.id = d.id => c = d

\* A clarifier or reviewer starts with every hook script, and with the hooks of the
\* mode its operation was asked under, whatever failed or was cut off before.
AgentsGuarded ==
    \A a \in started :
        a.target = "project" /\ a.agent \in Guarded => a.scripts = "all" /\ a.mode \in a.hooks

\* The same for the coding agent in its worktree.
WorktreeGuarded ==
    \A a \in started :
        a.target = "worktree" => a.scripts = "all" /\ a.mode \in a.hooks

\* deployStatus
Full == /\ AllAgents \subseteq tree["project"].agents /\ tree["project"].docs
        /\ tree["project"].scripts = "all"
\* The tag next to a project does not say "deployed" while settings.json runs none of
\* the hooks, at any moment of a deployment, a removal, a failure or a crash.
FullIsGuarded == Full => tree["project"].settings.hooks # "none"

\* Deploying and removing keep the keys the user has in settings.json.
KeysKept == tree["project"].settings.keys = userKeys

\* An agent starts with the .mcp.json that was written for it (with the channel on).
OwnIdentity == \A a \in started : a.target = "project" => a.mcp = a.id

\* What Zpit has written into the project is kept out of git.
AllIgnored ==
    \/ tree["project"].ignored
    \/ /\ tree["project"].scripts = "none" /\ tree["project"].settings.hooks = "none"
       /\ tree["project"].agents = {} /\ tree["project"].mcp = 0

\* The user's settings.local.json stays.
LocalKept == [][tree["project"].local = "user" => tree'["project"].local = "user"]_vars

\* No settings.json ends the program.
NeverPanics == ~ended

=============================================================================
