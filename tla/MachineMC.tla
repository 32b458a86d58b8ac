------------------------------ MODULE MachineMC ------------------------------
(***************************************************************************)
(* The models of what Zpit does on the user's machine and beside the       *)
(* agents, each in small instances of its own.  A behaviour is one of an   *)
(* instance, the scenario: the other models rest in their initial state.   *)
(* The models with theorems are extended, the others are instances over    *)
(* variables that are named as theirs unless two models share the name.    *)
(***************************************************************************)
EXTENDS DesktopProxy, DesktopAgent, LoopPoll, Worktrees, SequencesExt

CONSTANT Never      \* a model value: no notification is remembered

VARIABLES
    scenario,
    \* LogTail
    logFile, created, offset, start, told, readerAt, from, to, batch, handedOut,
    \* Alerts
    worker, log, signal, watch, first, handed, term, scan, since, loopAt, alerts,
    \* Deploy
    tree, mode, commands, starting, prepared, ended, started, userKeys, used

-----------------------------------------------------------------------------
(* Values for the constants of DesktopProxy: one tool of each list of          *)
(* policy.go, two keys of the deny list, and files with a profile, overrides   *)
(* and mistakes                                                                *)

MCTools == {"screenshot", "key", "clipboard", "shell", "run_script", "new_tool"}
MCDefaultAllowed == {"screenshot", "key"}
MCDefaultDenied == {"clipboard", "shell", "run_script"}
MCReadOnly == {"screenshot"}
MCStandardExtra == {"clipboard"}
MCNoneScriptExtra == {"shell"}
MCTexts == {"a", "alt+f4", "alt+tab+f4"}
MCDenyKeys == {"alt+f4", "alt+tab"}
MCLockout == {"alt+tab"}
MCTrips == [k \in MCDenyKeys |-> IF k = "alt+f4" THEN {"alt+f4"} ELSE {"alt+tab+f4"}]
MCApps == {"editor", "mail"}

Toml(profile, over) == [is |-> "toml", profile |-> profile, over |-> over]
OnlyEditor == [bundles |-> {"editor"}]
MCFiles ==
    {Toml(p, <<>>) : p \in Profiles}
      \cup {Toml("", OnlyEditor), Toml("typo", <<>>), Toml("trusted", [denied |-> {"key"}]),
            Toml("strict", [focus |-> "typo"]), Malformed}

Call(tool, text, app, focus) == [tool |-> tool, text |-> text, app |-> app, focus |-> focus]
MCCalls ==
    {Call("screenshot", "", NoApp, ""), Call("screenshot", "", "mail", ""),
     Call("key", "a", NoApp, "none"), Call("key", "alt+f4", NoApp, ""),
     Call("key", "alt+tab+f4", "editor", "strict"),
     Call("clipboard", "", NoApp, ""), Call("shell", "", NoApp, ""),
     Call("run_script", "", NoApp, ""), Call("new_tool", "", NoApp, "")}

\* Every call under every file; frames of every kind under a policy or none.
Gate == INSTANCE DesktopProxy WITH
    FrameKinds <- {"call", "list"}, AnswerKinds <- {"result"}, MaxFrames <- 1
Traffic == INSTANCE DesktopProxy WITH
    Files <- {Toml("trusted", <<>>), Toml("strict", [focus |-> "typo"])},
    Calls <- {Call("screenshot", "", NoApp, ""), Call("run_script", "", NoApp, "")},
    FrameKinds <- {"call", "other", "junk", "huge"},
    AnswerKinds <- {"result", "known_error", "rpc_error", "huge"},
    MaxStarts <- 1

-----------------------------------------------------------------------------
(* Values for LoopPoll: every dependency graph over three issues with two     *)
(* entries each, under a tracker that stays; a few graphs while it changes     *)

UpToTwo == {depends \in UNION {[1..n -> 1..3] : n \in 0..2} : IsInjective(depends)}
AllBodies == [1..3 -> UpToTwo]
SomeBodies ==
    {<< <<2, 3>>, <<3>>, <<>> >>, << <<2>>, <<1>>, <<1>> >>, << <<2, 3>>, <<>>, <<1>> >>,
     << <<2, 3>>, <<1>>, <<2>> >>, << <<>>, <<2>>, <<2, 1>> >>}
AnyTracker ==
    {t \in [todo : SUBSET (1..3), closed : SUBSET (1..3)] : t.todo \cap t.closed = {}}

-----------------------------------------------------------------------------
(* The other scenarios *)

\* A record in two writes and one that is too long; two goroutines on one log.
TailOrder == INSTANCE LogTail WITH
    Readers <- {"r1"}, Records <- 1..3, Halves <- TRUE, Huge <- {3},
    file <- logFile, at <- readerAt, got <- handedOut
TailTwo == INSTANCE LogTail WITH
    Readers <- {"r1", "r2"}, Records <- 1..3, Halves <- FALSE, Huge <- {},
    file <- logFile, at <- readerAt, got <- handedOut

\* A user who decides what the list shows; questions and permissions at any time.
AlertPatient == INSTANCE Alerts WITH
    Questions <- {"q1", "none"}, NoText <- "none", Cooldown <- 1, Writes <- 3,
    AsksWhen <- {"settled"}, Patient <- TRUE, Clients <- 1, Loop <- FALSE,
    agent <- worker, phase <- watch
AlertQuestions == INSTANCE Alerts WITH
    Questions <- {"q1", "q2", "none"}, NoText <- "none", Cooldown <- 1, Writes <- 3,
    AsksWhen <- {"launched", "lagging", "settled"}, Patient <- FALSE, Clients <- 2, Loop <- FALSE,
    agent <- worker, phase <- watch

\* Writing and crashing; removing; the loop's worktree, and once more for the rework.
DeployProject == INSTANCE Deploy WITH
    Modes <- {"strict"}, Forms <- {"absent", "object"},
    Kinds <- {"clarifier", "efficiency", "redeploy", "undeploy"}, Exclusive <- TRUE,
    Faults <- {"write"}, MaxCommands <- 3, MaxReloads <- 0, MaxCrashes <- 1, MaxEdits <- 1, cmds <- commands
DeployOrder == INSTANCE Deploy WITH
    Modes <- {"standard"}, Forms <- {"absent", "broken", "null"},
    Kinds <- {"clarifier", "reviewer", "efficiency", "redeploy", "undeploy"}, Exclusive <- TRUE,
    Faults <- {"remove"}, MaxCommands <- 3, MaxReloads <- 0, MaxCrashes <- 1, MaxEdits <- 0, cmds <- commands
DeployWorktree == INSTANCE Deploy WITH
    Modes <- {"standard", "relaxed"}, Forms <- {"absent"}, Kinds <- {"loop"}, Exclusive <- TRUE,
    Faults <- {"write", "mcp"}, MaxCommands <- 4, MaxReloads <- 0, MaxCrashes <- 1, MaxEdits <- 0, cmds <- commands
DeployRework == INSTANCE Deploy WITH
    Modes <- {"standard", "relaxed"}, Forms <- {"absent"}, Kinds <- {"loop"}, Exclusive <- TRUE,
    Faults <- {"mcp"}, MaxCommands <- 3, MaxReloads <- 1, MaxCrashes <- 1, MaxEdits <- 0, cmds <- commands

ASSUME MachineAssumption ==
    /\ PollAssumption
    /\ TailOrder!TailAssumption /\ TailTwo!TailAssumption
    /\ AlertPatient!AlertsAssumption /\ AlertQuestions!AlertsAssumption
    /\ DeployProject!DeployAssumption /\ DeployOrder!DeployAssumption
    /\ DeployWorktree!DeployAssumption /\ DeployRework!DeployAssumption

-----------------------------------------------------------------------------
(* The specification: a scenario is chosen once *)

proxyVars == <<file, policy, edited, proc, starts, cancelled, sent, inbox, inOpen,
               claude, upstream, up, received, working, upOut, out>>
tailVars == <<logFile, created, offset, start, told, readerAt, from, to, batch, handedOut>>
alertVars == <<worker, log, signal, watch, first, handed, term, scan, since, loopAt, alerts>>
deployVars == <<tree, mode, commands, starting, prepared, ended, started, userKeys, used>>

Proxies == {"gate", "traffic"}
Polls == {"walk", "poll"}
Tails == {"halves", "two"}
Warnings == {"patient", "questions"}
Trees == {"trees", "parallel", "all"}
Agents == {"one", "mishaps", "hasty"}
Deploys == {"project", "removal", "worktree", "rework"}

\* A model at rest starts in one state of those it may start in.
PollStart ==
    CASE scenario = "walk" -> todo = IssueIDs
      [] scenario = "poll" -> deps \in SomeBodies
      [] OTHER -> deps = << <<2>>, <<1>>, <<1>> >> /\ todo = {} /\ closed = {}
\* Issues one after the other and nothing else; with parallel tasks; with every fault but
\* those that one of the parts of TreesAreWhole and TreesLeftAlone excludes.
TreesStart ==
    CASE scenario = "parallel" -> faults = {"parallel"}
      [] scenario = "all" -> faults \in {{"reopen"}, Faults \ {"overlap", "reopen"},
                                         Faults \ {"crash", "git", "locked", "reopen"}}
      [] OTHER -> faults = {}
\* One desktop agent at a time; everything that may go otherwise.
AgentStart ==
    CASE scenario = "mishaps" -> mishaps = {"late", "dropped", "unreadable", "restart"}
      [] scenario = "hasty" -> mishaps = {"hasty", "slow", "foreign"}
      [] OTHER -> mishaps = {}
TailInit == IF scenario = "two" THEN TailTwo!Init ELSE TailOrder!Init
DeployInit ==
    CASE scenario = "project" -> DeployProject!Init
      [] scenario \in {"worktree", "rework"} -> DeployWorktree!Init
      [] scenario = "removal" -> DeployOrder!Init
      [] OTHER -> DeployOrder!Init /\ DeployWorktree!Init

MachineInit ==
    /\ scenario \in Proxies \cup Polls \cup Tails \cup Warnings \cup Trees
                    \cup Deploys \cup Agents
    /\ Init /\ PollInit /\ PollStart /\ TailInit /\ AlertPatient!Init /\ TreesInit /\ TreesStart
    /\ DeployInit /\ AgentInit /\ AgentStart

ProxyStep ==
    /\ \/ scenario = "gate" /\ Gate!Next
       \/ scenario = "traffic" /\ Traffic!Next
    /\ UNCHANGED <<pollVars, tailVars, alertVars, treeVars, deployVars, desktopVars>>
PollerStep ==
    /\ scenario \in Polls
    /\ PollNext
    /\ scenario = "walk" => edits' = 0
    /\ UNCHANGED <<proxyVars, tailVars, alertVars, treeVars, deployVars, desktopVars>>
TailStep ==
    /\ \/ scenario = "halves" /\ TailOrder!Next
       \/ scenario = "two" /\ TailTwo!Next
    /\ UNCHANGED <<proxyVars, pollVars, alertVars, treeVars, deployVars, desktopVars>>
AlertStep ==
    /\ \/ scenario = "patient" /\ AlertPatient!Next
       \/ scenario = "questions" /\ AlertQuestions!Next
    /\ UNCHANGED <<proxyVars, pollVars, tailVars, treeVars, deployVars, desktopVars>>
\* Three issues and no tasks of agents, or two issues.
TreeStep ==
    /\ scenario \in Trees
    /\ TreesNext
    /\ scenario # "trees" => 3 \notin todoIssues'
    /\ UNCHANGED <<proxyVars, pollVars, tailVars, alertVars, deployVars, desktopVars>>
DeployStep ==
    /\ \/ scenario = "project" /\ DeployProject!Next
       \/ scenario = "removal" /\ DeployOrder!Next
       \/ scenario = "worktree" /\ DeployWorktree!Next
       \/ scenario = "rework" /\ DeployRework!Next
    /\ UNCHANGED <<proxyVars, pollVars, tailVars, alertVars, treeVars, desktopVars>>
AgentStep ==
    /\ scenario \in Agents
    /\ AgentNext
    /\ scenario = "hasty" => Scans' = {}
    /\ UNCHANGED <<proxyVars, pollVars, tailVars, alertVars, treeVars, deployVars>>

MachineNext ==
    /\ \/ ProxyStep \/ PollerStep \/ TailStep \/ AlertStep
       \/ TreeStep \/ DeployStep \/ AgentStep
    /\ UNCHANGED scenario

machineVars == <<scenario, proxyVars, pollVars, tailVars, alertVars, treeVars, deployVars,
                 desktopVars>>
MachineSpec == MachineInit /\ [][MachineNext]_machineVars

-----------------------------------------------------------------------------
(* Properties: each names the parts it is made of, with the scenarios that can *)
(* break them; the others are those of the extended models                      *)

\* What the handlers see of a log is new, in order and seen once, however the writes fall
\* between open, read and the offset; what the terminal list shows of it the user was
\* notified of, the cooldown of another notification notwithstanding, and a decided
\* permission is neither shown nor found again (Watcher.readNew, checkPermissionSignals,
\* handleAgentEvent, NotifyWaiting).
UserIsTold ==
    /\ scenario = "halves" => TailOrder!TailTypeOK /\ TailOrder!ReportedInOrder
    /\ scenario = "two" => TailTwo!TailTypeOK /\ TailTwo!NothingLost
    /\ scenario = "patient" => /\ AlertPatient!AlertsTypeOK /\ AlertPatient!PermissionAlerted
                               /\ AlertPatient!StateRestored
    /\ scenario = "questions" => AlertQuestions!AlertsTypeOK /\ AlertQuestions!QuestionsAlerted

\* An agent starts with every hook script, the hooks of its mode and the .mcp.json written
\* for it, whatever failed or was cut off before; "deployed" is not shown while
\* settings.json runs none of the hooks; the user's own keys in settings.json stay, and
\* what Zpit writes is kept out of git (deployAndLaunchAgent, deployStatus,
\* DeployHooksToProject, writeMCPConfig, ensureGitignore, loopWriteAgentCmd).  In the
\* project: with one hook_mode throughout, and "removal" with the channel on.  Worktrees
\* are standard or relaxed: in strict mode, and where removals fail beside writes, the
\* code keeps none of this (hooks.go:100-111).
AgentsAreGuarded ==
    /\ scenario = "project" => /\ DeployProject!DeployTypeOK /\ DeployProject!AgentsGuarded
                               /\ DeployProject!FullIsGuarded /\ DeployProject!KeysKept
    /\ scenario = "removal" => /\ DeployOrder!DeployTypeOK /\ DeployOrder!OwnIdentity
                               /\ DeployOrder!AllIgnored
    /\ scenario = "worktree" => DeployWorktree!DeployTypeOK /\ DeployWorktree!WorktreeGuarded
    /\ scenario = "rework" => DeployRework!DeployTypeOK /\ DeployRework!WorktreeGuarded

===============================================================================
