# zpit in TLA+

zpit is a terminal program that runs Claude Code agents over the issues of a
project: it makes a git worktree per issue, launches a coder and a reviewer
agent in it, follows the labels the agents set in the issue tracker, merges the
pull request and cleans up. This directory holds TLA+ models of the parts of it
whose correctness depends on the order in which things happen, the TLC runs
that check them on small instances and the TLAPS proofs that hold for every
instance. Paths below are those of the repository without `src/`.

## 1. The system

| Component | State | Operations | Talks to |
| --- | --- | --- | --- |
| Loop engine `internal/tui/loop_handler.go`, `internal/loop` | `LoopState`: active flag, one `Slot` per issue (state, round, branch, worktree) | 11 message handlers, 3 timer handlers | commands, shared `AppState` |
| Loop commands `internal/tui/loop_cmds.go` | what a closure captured | poll, scan, clean up, create worktree, write agent, launch, poll labels / PR, auto-merge, close | tracker, git, terminals; one message back |
| TUI event loop `internal/tui/model.go`, `confirm.go`, `tracker_ops.go` | overlay, dialog, pending operation, view | `update`, keys, label check before a start | all of the above |
| Shared state `internal/tui/appstate.go`, `channel.go` | loops, terminals, subscribers, `channelSubs` | subscribe, notify, channel feeds | every client (local TUI and SSH sessions), broker |
| Broker `internal/broker` | artifacts, messages, SSE counts; event bus | post, list, stream, close | agents' MCP servers, TUI |
| MCP channel server `internal/mcp` | one listener per subscribed project | tools, SSE listener with reconnect | broker, Claude Code |
| Session tracking `internal/tui/session.go`, `launch.go`, `internal/watcher` | active terminals, watcher offsets, agent state | launch, re-attach, tail the log, liveness check | log files, processes, notifier |
| Session import / export `internal/sessionsync`, `tui/sessions.go` | a bundle, the user's collision choices | pack, unpack, scan | the agents' history directory |
| Worktree manager `internal/worktree/manager.go` | git's branches, list and directories | create, remove, list | git |
| Worktree hooks `internal/worktree/hooks.go`, `tui/launch.go` | files below a project and a worktree | deploy, redeploy, undeploy, launch | Claude Code |
| Tracker clients `internal/tracker` | none | issues, labels, PRs, merge; issue-spec parsing | Forgejo, GitHub |
| Desktop proxy `internal/desktop` | policy, child process | filter tools and calls | MCP client and server |
| Desktop agent `tui/launch.go`, `session.go` | the lock `activeDesktopAgent` | launch, search, release | terminals, scan |
| Notifier `internal/notify` | time of the last notification per key | notify, reset | sounds, toasts |
| Git status `tui/gitstatus.go`, `internal/git` | page, running operation, data | fetch, pull, load | git |
| Configuration `internal/config`, `tui/editconfig.go` | config in memory, `config.toml` | toggle, edit, reload | every component |
| Terminal launcher, SSH server, locale, views | small or none | I/O and rendering | the platform |

What is hard to test here: handlers of several clients that share one
`LoopState`; commands that answer after the state they were asked for is gone;
timer chains that one forgotten reschedule silences for ever (a bug the
repository records in `docs/architecture/07-worktree-and-loop.md`, section
7.5); dialogs that swallow messages; a process that ends while agents work on;
posts that are stored and published under two locks. `PROJECT.json` lists these
hazards at their lines, with the properties that would catch them.

What makes each component correct:

* *Loop engine.* Every slot that is not in a final state will be moved on; the
  heartbeats survive errors; capacity, dependencies and review rounds are
  respected; one agent at a time works on an issue; nothing unmerged is deleted.
* *Broker.* No send on or second close of a closed channel; exact counts; events
  in one order; artifacts reach every stream; closing lets every handler go.
* *Shared state.* A channel feed lives as long as a loop listens to it, and is
  released once.
* *MCP server.* A listener per subscribed project, none after unsubscribing.
* *Sessions.* A terminal leaves the list when its process is gone, and only
  then; its log is read line by line without loss.
* *Import.* What the user declined is not overwritten; a cancelled import
  writes nothing further. *Export.* A bundle with a manifest holds all it names.
* *Notifier.* Whoever waits for the user is told of, once per cooldown.
* *Config.* File and memory say the same, and the rest of the file stays.
* *Hooks.* An agent starts guarded; the user's settings stay.
* *Worktrees.* The limit holds, a failure leaves nothing half-made, and nothing
  with unmerged work is removed.
* *Desktop proxy.* What the policy excludes is neither listed nor called; every
  frame is answered once. One desktop agent runs at a time.

## 2. Modules

| Module | Contents |
| --- | --- |
| `LoopEngine`, `LoopMC`, `FaultsMC` | the loop of one project: clients, handlers, commands, timers, tracker, agents, people; `FaultsMC` keeps kinds of faults apart for TLC |
| `LoopEngine_proofs` | its theorems (section 4): types, heartbeats, merges, dependencies, capacity, agents, verdicts |
| `LoopPoll`, `PollContract`, `LoopPoll_proofs` | one poll, read by read, over a tracker that changes, with the walk for cycles; what a poll promises; the theorems |
| `Worktrees`, `Worktrees_proofs` | branches, git's list and directories, step by step |
| `Deploy` | hooks, settings, agents and `.mcp.json` in a project and in a worktree |
| `Broker` | store, event bus and SSE streams |
| `McpListener`, `ListenerMC`, `Broker_proofs` | the MCP server of one agent, composed with `Broker`; the theorems about both |
| `ChannelSubs` | the channel feeds of several clients over one map |
| `StateRefresh` | subscribers, signals, waiters, ticks; the SSH server's life |
| `PendingOps`, `PendingMC`, `PendingOps_proofs` | operations that wait for a label check or a dialog |
| `Sessions`, `Sessions_proofs` | terminals and the Claude Code processes they show |
| `LogTail` | the offset of a log watcher and half-written records |
| `Alerts` | permissions and questions, and how the user learns of them |
| `DesktopAgent` | the lock that admits one desktop agent |
| `DesktopPolicy`, `DesktopProxy`, `Desktop_proofs` | the policy, and the proxy that enforces it; the theorems about the proxy and `DesktopAgent` |
| `SessionImport`, `ImportContract` | the import wizard and `Unpack`; what an import promises |
| `SessionExport` | folder and session lists, the export wizard and `Pack` |
| `TomlLines`, `ConfigFile`, `ConfigLayouts` | the line editor of `config.toml`; memory, file, goroutines and reloads; the files the runs begin with |
| `GitView`, `Dashboard_proofs` | the Git Status page; the theorems about it, `StateRefresh` and `SessionImport` |
| `DashboardMC`, `MachineMC`, `ProgressMC` | small instances of the models, several in one run each |

`McpListener` extends `Broker` and its steps include the broker's. The other
models share no field that two of them write, except that one module refines what
another takes as one step. A launch is one step in `LoopEngine` and many in
`Deploy`; a creation or a removal of a worktree is one step there and many in
`Worktrees`; a poll is one step there and many in `LoopPoll`. `DesktopAgent` is
to `Sessions` the part with keys of its own, and `LogTail` is the inside of one
of its watches. Two refinements are checked formally: `SessionImport` implements
`ImportContract` (`ContractKept`) and `LoopPoll` implements `PollContract`
(`ImplementsContract`).

Definitions introduced by the comment "Bug for comparison" are deliberately
wrong variants of the one that follows; section 3.2 lists what each breaks.

### 2.1 LoopEngine

One action is one handler, one command, one timer or one act of the environment.

* `slots[i]` is `LoopState.Slots[key]`; the state `"None"` is an absent key.
  `active` is `LoopState.Active`.
* `flight[c]` holds the commands that run for client `c` and the messages posted
  to it. Its members are records: `op` names the closure or the message type and
  the other fields are what the closure captured or the message carries. It is a
  set, so two equal items are one: a repeated poll and its repeated answer have
  the effect of one, because the second finds the state the first left.
* `pollTicks`, `labelTicks` and `prTicks` count the pending timers of the three
  heartbeats. A timer that fires asks and sets itself again, or ends its chain.
* `gate[c]` is what `update` lets through: `open`, `overlay` (error overlay),
  `confirm` (label dialog), `gone` (an SSH session that quit). While it is not
  open messages and timers are dropped, as in the code. `dropped`, `resumed`
  and `pollLost` record what was lost that way, or made from a leftover
  worktree; no action reads them.
* `labels`, `closed`, `prs`, `wts` and `agents` are the tracker, the repository
  and the terminals. Agents follow the label protocol of `internal/prompt`; they
  may die at any step. People confirm issues and merge or close PRs.
* A command is one step, except where its order matters: auto-merge is a lookup
  and up to three attempts (an attempt may merge and still be answered by a
  failure of either kind), clean-up is the removal and then the closing. The
  start-up clean-up is one step; its removals and closings fail independently.
* The handlers of the todo poll and of the open PRs list the worktrees, and go on
  without them if that fails (`listed`).

Abstracted: issue texts, prompts, file contents, base branches, status lines,
notifications, logging, and what a poll reads in which order (`LoopPoll`). A branch or path is the issue it was
made for (`0` is the empty string); whether the branch name of one issue
contains the ID of another is the constant `Contains`.

### 2.2 Broker

A request is a process whose steps are the code between two lock operations:
storing and publishing a post are two steps, and a stream runs through snapshot,
sending it, counting, subscribing, streaming, leaving, uncounting. `missed` is a
history of the events a stream can no longer get. Connections of all agent types
are counted together; listing endpoints, which only read, are left out.

### 2.3 Sessions

One action is one handler, one end of a command, one half of the permission
check or one act of a process.

* `terms[k]` is `activeTerminals[key]`, with the keys of one project in the order
  `nextTrackingKey` tries them; `None` is an absent key. `pid = 0` is a launch
  whose process is still sought.
* `chains[c]` is one line of work on a session: the command that runs or the
  message it posted. Each handler returns at most one command, so a chain has one
  stage at a time (discover, found, wait, ready, watch, event, lost). A chain
  carries a tracking key and acts upon whatever entry is there.
* `live` holds the watchers not stopped. A watcher is named by the chain that
  made it, so two watchers for one session differ.
* `alive`, `cwd`, `current`, `logs` and `signals` are the machine: processes,
  the session their `{pid}.json` names, log files and permission signal files.
  A process may die, write its log, be switched by `/resume` or ask for a
  permission at any step.
* `scan` and `reading` hold what a scan and a permission check have read
  outside the lock and not applied yet.
* `Lose` and `loseScan` are a failing command, a client that quits and a message
  swallowed by an overlay or a dialog.

Processes are numbered in the order they start, which is the `StartedAt` order
the discovery compares. Abstracted: question texts; the notifier (`Alerts`), the desktop agent
(`DesktopAgent`) and byte offsets in the log (`LogTail`) have modules of their own; Working,
Streaming and Waiting are one state. PIDs are not reused and a session is open in
one process at a time. Signals and logs of a dead process are not looked at
again, so its log is dropped from the state.

One timing assumption is in `Settled`: an ended entry stays three seconds
(`endedDisplayDuration`), a wait looks every two whether its process is alive
(`sessionRetryInterval`), and a message is handled at once, so nothing that was
on its way when the entry ended is still to be handled when it is removed. The
sleeps themselves are not modelled, and `Process.Kill` is taken to be immediate.

### 2.4 LoopPoll and PollContract

`loopPollCmd` reads the todo issues, then one issue after the other for the
dependencies of the first, while people change labels and close issues. One step
is one request. `PollContract` is a poll that takes the tracker as a whole at some
moment for each of its questions. The walk of `detectCycles` visits the nodes in
any order, as Go walks a map. The dependencies in the issue texts (`Bodies`) do
not change during a poll; one client polls.

### 2.5 Worktrees

`branches`, `listed` and `dirs` are what git keeps: the three can disagree, for
each git command changes them one after the other. `Create` counts, fetches,
makes the branch, makes the worktree, cleans the branch up; `Remove` takes the
list entry, the directory and the branch. A tree `<<i, k>>` with `k > 0` belongs
to a parallel task of issue `i` (`hooks/worktree-create.sh`) and lies inside the
issue's directory. `faults` is what a behaviour lets happen, a subset of `Faults` that
never changes: `crash` between two
steps, `git` failing on its own lock, a directory in use (`locked`: git drops the entry, the
directory resists; a prune then takes every entry without a directory), creations of
two polls at once (`overlap`), parallel tasks, task trees that outlive their
issue's (`orphans`), an issue opened again (`reopen`). An answer and its handler
are one step, the removals of a sweep run in sequence. What git does in each case
(the branch left by a failing configuration, entries whose directory is gone, the
order of the list) is git's behaviour, not this repository's. Fetching and
`SyncLocalBranch` change nothing here.

### 2.6 Deploy

`tree` is what lies below a project and below one worktree: scripts, the hooks
and keys of `settings.json`, `settings.local.json`, agents, docs, `.mcp.json`,
ignore rules. A command is the sequence of the writes and removals it still has to
do (`cmds`), so that the commands of two keys or clients interleave file by file;
each may fail (`Faults`) and the program may end between two. A failing write
leaves the file as it was. An agent reads its files when its process starts, later
than its launch (`starting`). `Exclusive` lets one operation begin only when the last is over.
The user edits `settings.json` between operations, not between the read and the
write of one. Left out: the texts, the JSON of the modes, and a `settings.json`
that is kept in git against the ignore rule. `.mcp.json` is written with the channel on
and a broker running; a launch without them leaves the file alone, like one whose
writing fails (`"mcp"` in `Faults`), and `OwnIdentity` is claimed where that is excluded.

### 2.7 McpListener

The server of one agent: its tools with their replies, `listeners` (one goroutine
per subscribed project: dial, read, write, wait) and the map of their contexts. A
cancelled context is seen where the code asks for it. `Run` starts a goroutine for
each of `SseProjects`; they start together, so their numbers follow any order
(`StartOrder`). A goroutine that dials takes any stream of its project nobody uses. `MaxBreaks`
bounds broken connections, `Calls` names the tools used in a run; a listener for which no stream
record is left waits. Left out: the read-only tools and malformed frames.

### 2.8 ChannelSubs

`subs` is `channelSubs`, `chans` every channel the bus gave out, `readers` the
commands blocked on one, `job` a handler in the middle of its locks. Launch, loop
start and stop, toggle (which fails when the broker cannot be started), edit of the
list, reload and quit are actions of several clients. A quitting client is a remote
session: its commands end with it. The config and the broker are read once in a launch.

The code breaks what it promises of a feed in several ways (3.5). `losses` is a history
of exactly these, written by the step at which it happens and read by no action:

| Field | A key, or a pair of a loop and a key, enters | and leaves |
| --- | --- | --- |
| `twice` | a second channel of the key is opened beside one that is on the bus (`channelSubscribeCmd` after a launch or a start of a loop, or a subscription before it is stored or after its entry went) | never: its events are recorded twice |
| `unread` | the last reader of the key is dropped by an overlay or a dialog, or quits with its client | when somebody reads it again, or nothing is held |
| `taken` | a key of a running loop's scope is unsubscribed for another loop, by a switch or a list, or not subscribed by a reload or without a broker | when it is subscribed again, or the loop stops |

The properties of the feeds hold of every key but those. So what is checked with two
clients and two loops is that nothing else goes wrong, and with one client that edits
that nothing is lost.

### 2.9 StateRefresh

`signal[s]` is the buffered channel of a dashboard, `waiter[s]` its
`waitForStateRefresh`, `version` counts changes and `shown` what each dashboard
shows. Sessions quit or lose their connection; `auto_serve` stops the server
behind its own session.

### 2.10 PendingOps

`pending` is `pendingOp`, `flight` the label checks and loads of one client,
`dialog` what a dialog is about. What an operation does is recorded in `acts` and
not performed. A reload is a step of the environment that takes a project away.
The history `hasty` tells whether a key came while "Checking labels" was shown or a
command was on its way; only properties read it.

### 2.11 LogTail, Alerts, DesktopAgent

*LogTail.* A record is its body and its end with the newline. Readers open the
file, read from the shared `offset` to the end, and set it. fsnotify's events are
counted in `told`; what is written before the watch is added waits for the next
write.

*Alerts.* One terminal, its log, its signal file, the cooldown of one key and the
loop that notifies under the same key. Minutes count up to the cooldown. The
terminal's check and entry of the cooldown are one step (under the state's lock),
the loop's are two. One state stands for Working and Streaming.

*DesktopAgent.* `entries` are the terminals under desktop keys, `active` the
lock, `chains` the search of each launch, the wait for its log, the scans. Of
several sessions in the home directory the code takes the latest, the model any.
`mishaps`, a subset of `Mishaps` that never changes, are what goes otherwise than the
code expects: `hasty` (a second press before the first is answered), `slow` (a search
that outlives its process), `late` (a process that comes up after the search),
`dropped` messages, `unreadable` session files, `foreign` (a process of the user's
own), `restart` of zpit.

### 2.12 DesktopPolicy and DesktopProxy

The lists of tools and keys are constants with the relations that the lists in
`policy.go` have. The proxy is its two goroutines, one frame at a time: request
line, gate, upstream, answer; each side may close its pipe, a signal may come,
the upstream may exit, and the user may edit the file between two runs. A signal
kills npx only; what the upstream does is external. Texts of denials are left out.

### 2.13 SessionImport, ImportContract and SessionExport

`step` and `flow` are the wizard, `queue` the collisions still to be asked about, as
places in the manifest of their bundle (the prompt is about the first), `work[w]` a
command or its answer. `Unpack` runs session by session; a fault leaves a file `torn`.
`ImportContract` allows a file to be replaced only where the user agrees to it.
`SessionExport` has the lists with their scans and `Pack` entry by entry. `mishaps` is
what a behaviour may have: keys before the answers (`hasty`), failing commands
(`fault`), an agent that opens sessions in a destination (`agent`); no step changes it.
`ContractKept` is said of behaviours without the first and the last (`Careful`). In
`SessionExport` the constant `Patient` is a user who waits for answers. The error
overlay (its gate is in `LoopEngine`) is not part of these models, so `RunningEnds` is
said of a client that shows none; `HonestBundles` is said of one export at a time.

### 2.14 TomlLines and ConfigFile

A line is its kind and what the editor tells apart in it (field, value, comment,
bracket). `jobs[j]` is a change by key and the goroutine that writes it: read,
change one line, truncate, write. A second writer over a longer file leaves its
tail as a leftover line. `Overlap = FALSE` lets one of them run at a time.

### 2.15 GitView

A repository is a version that each successful fetch or pull raises, and a failing one
may (one of several remotes). `jobs` are the commands with what they found: the n-th
operation the user starts is job n, the load behind it job `Behind(n)`. A load reads
branches and then the graph. `gitUsed` is a history: operations and overlays so far,
which pages were entered, whether one was `again`, whether a fetch or pull ended
`halfway`. The guards read its counters for their bounds; the properties read the
rest. One client; commits by agents are left out.

## 3. Runs

### 3.1 What is checked

| Run | Module | Checks | Shows |
| --- | --- | --- | --- |
| `loop_nominal` | `LoopMC` | `TypeOK`, `DependenciesMerged`, `CapacityRespected`, `OneAgentPerIssue`, `VerdictsAccount` | One loop start, two issues of which the second depends on the first, one place, one revision round, auto-merge on or off, every request free to fail: dispatch, capacity, revision and escalation go right through whole lives of both issues. |
| `loop_faults` | `FaultsMC` | `HeartbeatPreserved`, `WorkKeptUntilMerged` | Every heartbeat survives and no unmerged work is removed, under three kinds of faults that do not meet: a remote session that quits or meets an error overlay or a label dialog, with a slow tracker and merges by the loop; a stop or an end of the program, a second start, worktrees that are not listed, a rejected review and merges by people; and two clients whose starts overlap, so that the second replaces the loop of the first. |
| `loop_live` | `LoopMC` | `ReviewIsPickedUp`, `MergeIsNoticed`, `TodoIsDispatched` | Under fair scheduling and a tracker that answers now and then, a review label, a merge and a todo issue are each acted upon. |
| `sessions` | `Sessions` | `TypeOK`, `EntriesAreSought`, `EndedIsDead` | Two processes and a launch in one directory, scans, prompts, kills and deaths at any moment: no process is tracked twice, no running one is shown as ended, no launch is left unsought. |
| `sessions_resume` | `Sessions` | `WatchIsKept`, `SessionIsWatched`, `DeadIsRemoved` | A process is switched to another session while its log is looked for, watched or lost: under fair scheduling the session it is in gets watched, and the entry of a dead one goes. |
| `broker` | `ListenerMC` | `NoChannelPanic`, `CountsAreExact`, `EventsDelivered`, `ListenersAreTrue` | The broker alone with two streams that overflow and a shutdown; and the channel server of an agent on it: every tool with posts beyond the scanner's buffer, a subscription cancelled under way, and a connection that breaks and is made again while the broker still serves the old one. |
| `pending` | `PendingMC` | `ActsAsAsked` | Two presses with a label check or a dialog behind them, while the user moves the cursor, visits the status screen and takes over a config with a project less: each operation is executed once and for what it was asked for, and an issue is moved to todo only as agreed. |
| `dashboard` | `DashboardMC` | `NoLostWakeup`, `ChannelsKept`, `PageIsTrue`, `EditsKept`, `BundlesAreHonest`, `ContractKept` | What dashboards do, sixteen small instances of six models: refreshes between clients, channel feeds of one and two clients and loops with everything that may end them, the git page, edits of config.toml, import and export of sessions, the import against its contract. |
| `machine` | `MachineMC` | `GateKept`, `ProxyIsTrue`, `CyclesAreFound`, `UserIsTold`, `TreesAreWhole`, `AgentsAreGuarded`, `OneDesktopAgent`, `ImplementsContract`, `TreesLeftAlone`, `HeldWhileAlive` | What runs beside dashboards, eighteen scenarios of seven models: the desktop proxy and its policy, a poll of the loop against its contract, log and notifications, worktrees, deployment, and the one desktop agent. |
| `progress` | `ProgressMC` | `ChangesAreSeen`, `StoppedEnds`, `AskedIsAnswered` | Fourteen small instances under the fairness of their modules: changes come to be seen, what is told to stop ends, what is asked is answered. |
| `loop_resume` | `LoopMC` | `EverySlotContinues`: violated | A worktree left by an earlier process is resumed into a slot that nothing moves on: its PR timer finds the state Coding and ends. |
| `broker_gap` | `Broker` | `EveryArtifactArrives`: violated | An artifact posted between the snapshot of a stream and its subscription never reaches it. |

`loop_*`, `sessions*`, `pending` and `broker_gap` check one model each. `broker`,
`dashboard`, `machine` and `progress` hold several small instances: a behaviour is one
of them, the *scenario*, chosen by the initial state, while the others rest. The
scenario names below are those of the modules `ListenerMC`, `DashboardMC`, `MachineMC`
and `ProgressMC`, which give every instance its constants. A model with theorems is
extended by these modules, not instantiated, so that the definition TLC checks is the
one the theorem states.

`loop_faults` has no scenarios but an action constraint, `FaultsApart` of `FaultsMC`:
the remote session's faults (an overlay, a quit, then a slow tracker; the loop merges),
those of a restart (stop, end, second start, worktrees not listed while no step of a
pipeline is under way, a rejected review; people merge) and those of two clients that
both press the loop key while the loop is off do not meet in one step, and at most two
requests of a client read the tracker at a time. In the third kind the work ends with an
open PR.

| Scenario | Instance |
| --- | --- |
| *broker* `bus` | two streams and two posts with a shutdown (`Broker`) |
| `tools`, `last`, `order` | the tools with a post of any length; the last event of a cancelled listener; a connection made again (`McpListener` with `Broker`) |
| *dashboard* `refresh` | two clients, changes while each renders (`StateRefresh`) |
| `page` | three operations on two pages, left, entered again, with an overlay or a project that goes away (`GitView`) |
| `loop`, `edits` | one client: a loop with toggles, a launch and an event; launch, toggles, an edited listen list, events (`ChannelSubs`) |
| `clients`, `readers` | two clients: a loop with a toggle, reload, dialog, a broker that does not start; two launches and a loop with an event, a dialog and a quit (`ChannelSubs`) |
| `shared`, `files` | two projects that listen to one key: two loops of two clients with a toggle; two loops and a reload (`ChannelSubs`) |
| `layouts`, `file` | two changes on every layout of the file; changes by key beside edits and reloads (`ConfigFile`, `TomlLines`) |
| `import`, `reimport`, `hurried` | two bundles of overlapping sessions; one imported again after a fault; a user who does not wait, while an agent opens a session (`SessionImport`) |
| `pack`, `lists`, `hasty` | one folder packed with faults; two folders while an agent moves; keys before answers (`SessionExport`) |
| *machine* `gate`, `traffic` | every call under every policy file; frames of every kind (`DesktopProxy`) |
| `walk`, `poll` | every dependency graph of three issues with up to two entries each; polls beside a change of the tracker (`LoopPoll`) |
| `halves`, `two` | records in two writes and one too long; two goroutines on one log (`LogTail`) |
| `patient`, `questions` | a user who decides what the list shows; questions and permissions at any time (`Alerts`) |
| `trees`, `parallel`, `all` | issue after issue; parallel tasks; three sets of faults: all but `overlap` and `reopen`, all but `crash`, `git`, `locked` and `reopen`, and `reopen` (`Worktrees`) |
| `project`, `removal`, `worktree`, `rework` | writes with failures and a crash; removals that fail; the loop's worktree; its rework after a change of mode (`Deploy`) |
| `one`, `mishaps`, `hasty` | nothing unexpected; late processes, dropped messages, restarts; a second press, slow searches, the user's own processes (`DesktopAgent`) |
| *progress* `bus` | streams and a shutdown (`Broker`) |
| `cancel`, `reconnect` | a subscription cancelled during a post; broken connections (`McpListener`) |
| `refresh`, `feed` | dashboards with dialogs; a channel switched on and off beside two clients with a launch, a dialog, a quit and events (`StateRefresh`, `ChannelSubs`) |
| `proxy`, `import`, `poll` | frames of every kind; one import with a fault; five graphs |
| `records`, `halves`, `alarm` | whole records; halves; a loop that notifies under the terminal's key (`LogTail`, `Alerts`) |
| `git`, `press`, `desktop` | operations of a page; presses behind a label check; a launch after the other |

### 3.2 What a property of these runs is made of

Each property of `pending`, `dashboard`, `machine` and `progress`, and `ListenersAreTrue`,
is a conjunction of named parts, and says under which condition a part is claimed: a
scenario, or what the behaviour's faults and history leave out (`NoOverlap`, `Calm`,
`~hasty`, `~gitUsed.again`). The table
gives for every part a definition which, replaced by the variant beside it, makes
TLC find that part violated in the run. For `progress` the part is the negation
of a disjunct of `Unseen`, `Lingering` or `Unanswered`, named here after what it
asks for; the parts of `TreesLeftAlone` are there as what a step does (`WorkKept`,
`RefusalStep`).

| Property | Part | Module | Definition | Replaced by | The bug |
| --- | --- | --- | --- | --- | --- |
| `ChannelsKept` | `HeldIsOpen` | `ChannelSubs` | `UnsubscribeKey` | `UnsubscribeBusOnly` | the channel is closed, the entry forgotten |
| `ChannelsKept` | `HeldIsRead` | `ChannelSubs` | `NextRead` | `NextReadNone` | the next read is forgotten |
| `ChannelsKept` | `RecordedOnce` | `ChannelSubs` | `SubscribeKey` | `SubscribeAnyway` | a key that is subscribed is subscribed again |
| `ChannelsKept` | `ScopeSubscribed` | `ChannelSubs` | `Unsubscribed` | `UnsubscribedOwn` | only the project's own key is subscribed, not those of its listen list |
| `ActsAsAsked` | `OncePerPress` | `PendingOps` | `ExecutePendingOp` | `ExecuteKept` | the operation is still pending when it has been executed |
| `ActsAsAsked` | `ActsOnAsked` | `PendingOps` | `OnIndex` | `OnCursor` | the project under the cursor by now |
| `ActsAsAsked` | `LabelsReady` | `PendingOps` | `Checked` | `CheckedAnyhow` | an operation with missing labels is executed beside the dialog |
| `ActsAsAsked` | `IssueAsAsked` | `PendingOps` | `IssueDialog` | `FirstIssueDialog` | the first issue of the list |
| `ActsAsAsked` | `TodoOnlyAgreed` | `PendingOps` | `UpdateLabels` | `UpdateLabelsLive` | the issue is looked up when the command runs |
| `ActsAsAsked` | `ShownIsTrue` | `PendingOps` | `IssueConfirmed` | `IssueConfirmedAnyhow` | shown as moved whatever the tracker answered |
| `PageIsTrue` | `OneOperation` | `GitView` | `StartGitOp` | `StartBeside` | an operation is started beside another |
| `PageIsTrue` | `CurrentWhenIdle` | `GitView` | `Changed` | `ChangedNoReload` | nothing is loaded after a success |
| `PageIsTrue` | `DataIsOwn` | `GitView` | `Loaded` | `LoadedAny` | the answer is taken for whatever page is shown |
| `PageIsTrue` | `SpinnerRuns` | `GitView` | `SpinnerTick` | `SpinnerTickOnce` | each tick ends its chain |
| `EditsKept` | `MemoryIsFile` | `TomlLines` | `FindInsertionPoint` | `InsertionPointAtEnd` | behind the last line of the block, its sub-tables included |
| `EditsKept` | `MemoryIsFile` | `ConfigFile` | `ApplyConfig` | `ApplyKnown` | a project that has become known keeps what memory has of it |
| `EditsKept` | `OnlyChangesMove` | `TomlLines` | `FindFieldInBlock` | `FindFieldBehind` | the field is sought to the end of the file |
| `EditsKept` | `RestPreserved` | `TomlLines` | `ReplaceFieldValue` | `ReplaceDropsNote` | the comment behind the value goes |
| `BundlesAreHonest` | `HonestBundles` | `SessionExport` | `ReadyForManifest` | `ReadyEarly` | the manifest may go in before the sessions |
| `BundlesAreHonest` | `WarnedOfActive` | `SessionExport` | `AliveNow` | `AliveBefore` | the export of all begins with the sessions alive before |
| `BundlesAreHonest` | `OneFolder` | `SessionExport` | `FolderNow` | `FolderKept` | a folder opened meanwhile stays open over the new list |
| `BundlesAreHonest` | `SelectedIsShown` | `SessionExport` | `ResetSelection` | `ResetSelectionKept` | the selection of the folder before is kept |
| `BundlesAreHonest` | `TalliesAddUp` | `SessionImport` | `CancelledCount` | `CancelledOfAll` | sessions not selected count as cancelled |
| `ProxyIsTrue` | `AnsweredOnce` | `DesktopProxy` | `HandleToolsCall` | `ToolsCallGoesOn` | a denied call is answered and passed on as well |
| `ProxyIsTrue` | `PolicyOfFile` | `DesktopPolicy` | `Template` | `TemplateStrict` | the template still has the default of before |
| `ProxyIsTrue` | `ListMatchesGate` | `DesktopProxy` | `FilterToolsList` | `FilterNoWildcard` | the names of the allowlist alone are compared |
| `ProxyIsTrue` | `ProfilesWiden` | `DesktopPolicy` | `NoneScriptDenyKeys` | `NoneScriptAllKeys` | the keys of none-script are those of strict |
| `ListenersAreTrue` | `ListenersOwned` | `McpListener` | `CallSubscribeProject` | `SubscribeAgain` | the subscription is replaced and its context forgotten |
| `ListenersAreTrue` | `RepliesTrue` | `McpListener` | `ReplyUnsubscribe` | `ReplyUnsubscribed` | the reply for the own project is that of the others |
| `ListenersAreTrue` | `OneLateAtMost` | `McpListener` | `ReadEvent` | `ReadOn` | the context is asked for only when the stream ends |
| `ListenersAreTrue` | `NoSelfEcho` | `McpListener` | `IsSelfEcho` | `IsLiveEcho` | only live events of this server are skipped, not those of the snapshot a new connection begins with |
| `ListenersAreTrue` | `HeardOnceInOrder` | `McpListener` | `Retained` | `RetainedWithMessages` | messages are retained too |
| `CyclesAreFound` | `ReportedAreOnCycles` | `LoopPoll` | `BackEdge` | `BackEdgeWholePath` | the whole path is marked, not the part that is the cycle |
| `CyclesAreFound` | `KnotsAreReported` | `LoopPoll` | `EndWalk` | `EndWalkAfterFirst` | only what the first node reaches is walked |
| `CyclesAreFound` | `KnotsAreNotEligible` | `LoopPoll` | `GetIssue` | `GetIssueLabel` | an issue that has lost its todo label counts as done |
| `UserIsTold` | `ReportedInOrder` | `LogTail` | `SetOffset` | `KeepOffset` | the offset is not moved on |
| `UserIsTold` | `NothingLost` | `LogTail` | `SetOffset` | `KeepSize` | the offset is set to the size the file has now |
| `UserIsTold` | `PermissionAlerted` | `Alerts` | `HandleRecord` | `HandleWorkKeepsCooldown` | work does not end the cooldown |
| `UserIsTold` | `StateRestored` | `Alerts` | `HandleRecord` | `HandleKeepsFile` | the file of a permission that is over stays |
| `UserIsTold` | `QuestionsAlerted` | `Alerts` | `HandleRecord` | `HandleKeepsCooldown` | a new question falls under the cooldown of the last |
| `TreesAreWhole` | `LimitKept` | `Worktrees` | `CreateList` | `CreateListPastLimit` | the limit is passed by one |
| `TreesAreWhole` | `NoHalf` | `Worktrees` | `CreateAdd` | `CreateAddKeepsBranch` | the branch stays when the worktree cannot be made |
| `TreesAreWhole` | `SlotHasTree` | `Worktrees` | `Leftovers` | `LeftoversOpen` | worktrees whose PR is open are leftovers, too |
| `AgentsAreGuarded` | `AgentsGuarded` | `Deploy` | `DeployAgent` | `DeployAgentFirst` | the agent before its hooks |
| `AgentsAreGuarded` | `FullIsGuarded` | `Deploy` | `Undeploy` | `UndeploySettingsFirst` | the hooks are taken out of settings.json first |
| `AgentsAreGuarded` | `KeysKept` | `Deploy` | `Merged` | `MergedAnew` | settings.json is written anew |
| `AgentsAreGuarded` | `OwnIdentity` | `Deploy` | `DeployAgent` | `DeployKeepsMcp` | the .mcp.json of the last agent is left |
| `AgentsAreGuarded` | `AllIgnored` | `Deploy` | `DeployAgent` | `DeployIgnoreLast` | the ignore rules last |
| `AgentsAreGuarded` | `WorktreeGuarded` | `Deploy` | `Scripts` | `ScriptsGoOn` | errors of the first deployment are not looked at either |
| `AgentsAreGuarded` | `WorktreeGuarded` | `Deploy` | `WriteAgent` | `WriteAgentKeepsOverlay` | the hooks are not deployed a second time |
| `OneDesktopAgent` | `OnlyOne` | `DesktopAgent` | `Unblocked` | `StaleUnlessAlive` | a launch whose process is not found yet counts as stale |
| `OneDesktopAgent` | `LockIsTracked` | `DesktopAgent` | `Liveness` | `LivenessKeepsLock` | a liveness check that leaves the lock alone |
| `TreesLeftAlone` | `RefusalStep` | `Worktrees` | `CreateList` | `CreateListMain` | the worktree of the project itself is counted |
| `TreesLeftAlone` | `WorkKept` | `Worktrees` | `Leftovers` | `LeftoversOpen` | worktrees whose PR is open are leftovers, too |
| `HeldWhileAlive` | `LockHeld` | `DesktopAgent` | `Liveness` | `LivenessKeepsEnded` | the lock is released at every check |
| `ChangesAreSeen` | `ArtifactsShown` | `McpListener` | `Retry` | `NoRetry` | a lost connection ends the goroutine |
| `ChangesAreSeen` | `EveryChangeShown` | `StateRefresh` | `Rearmed` | `RearmedIfOpen` | overlays and dialogs take the tick as well |
| `ChangesAreSeen` | `HeldIsDrained` | `ChannelSubs` | `NextRead` | `NextReadNone` | the next read is forgotten |
| `ChangesAreSeen` | `EveryRecordIsHanded` | `LogTail` | `SetOffset` | `KeepSize` | the offset is set to the size the file has now |
| `ChangesAreSeen` | `PermissionIsShown` | `Alerts` | `MatchSignal` | `MatchOnce` | the state of a terminal that was told of anything is kept |
| `StoppedEnds` | `CloseUnblocks` | `Broker` | `ChannelClosed` | `ChannelClosedByOwner` | the end of a channel closed by closeAll goes unnoticed |
| `StoppedEnds` | `CancelledEnd` | `McpListener` | `Stop` | `StopBetween` | the request was made without the context |
| `StoppedEnds` | `ServerEnds` | `StateRefresh` | `WaitedEnough` | `AllEnded` | Shutdown waits for the sessions as long as they last |
| `StoppedEnds` | `ProxyEnds` | `DesktopProxy` | `BothDone` | `BothEnded` | only the end of a pipe is seen as the end of a goroutine |
| `StoppedEnds` | `StopEnds` | `LogTail` | `WatchEnds` | `WatchEndsTold` | the reader learns of Stop with the next write only |
| `AskedIsAnswered` | `AllAnswered` | `DesktopProxy` | `Handle` | `HandleCallsOnly` | other frames are dropped, not passed on |
| `AskedIsAnswered` | `RunningEnds` | `SessionImport` | `AfterImport` | `AfterImportStuck` | the failure is reported, the wizard left as it is |
| `AskedIsAnswered` | `PollEnds` | `LoopPoll` | `SkipBlack` | `SkipBlackAgain` | the index is left where it is |
| `AskedIsAnswered` | `OperationEnds` | `GitView` | `Loaded` | `LoadedOK` | the operation is not seen to end when it has failed |
| `AskedIsAnswered` | `PressIsAnswered` | `PendingOps` | `Refuse` | `RefuseKeeps` | what was pending survives the refusal |
| `AskedIsAnswered` | `UnlocksAgain` | `DesktopAgent` | `Launched` | `LaunchedUnsought` | no search for the process is started |

### 3.3 Bounds

*Loop.* Two issues and one place are the least that make dependencies and
capacity bite: the second issue is todo while the first holds the place. One
revision round, two verdicts and two agents per issue reach the revision, the
escalation and the overlap of an old and a new heartbeat. `MaxPolls = 1` bounds
the requests of one kind in flight; a second one could only repeat the first's
question. In `loop_faults` one overlay, and two starts with one end between them or
two that overlap, suffice because every slot, timer and answer of the old loop is still there when the
new one starts; faults of the two kinds do not meet there. The proofs lift these
bounds, that one included.

*Broker.* Buffers of one event make overflow happen with two posts, and two
streams meet in the bus. `progress` has one post: to unblock a stream needs only
that its buffer may be full when the broker closes.

*Sessions.* One directory, two processes and one launch are the least in which
the scan and a discovery compete for a process and a key passes from a dead
process to another; three keys and four chains are enough for all entries and
work that then exist. In `sessions_resume` what follows a `/resume` concerns one
process and its entry: one process, two sessions and three chains (the waits of
both who notice the switch, and the old watch) reach it; one loss shows what the
properties excuse.

*The scenarios.* A scenario is the smallest instance in which its part can break,
found by breaking it (3.2). Two of a kind are there where two meet: two clients
over one map of channels, two presses before an answer, two projects whose
answers are confused, two jobs on one file, two readers with one offset, two
launches of a desktop agent, two folders under one selection. Three issues
make the least graph in which a walk marks a node it should not. Three issues
and a limit of two make the limit pass; two runs of the program (`MaxSessions`)
meet what a crash leaves. Two frames are enough for an answer to pass another.
`pending` has two sorts of operation, one that acts at once and one that may ask
first, since all others go the way of one of them. Numbers that only repeat what one does (posts, edits, faults, breaks, restarts)
are one or two, and every constant that bounds one is named `Max...` or is a
field of `Bound`.

Restrictions that a property depends on, and that no proof lifts:

* `TrackedOnce` is stated for fewer than two launches: the exclude list of a
  discovery is taken when the terminal is launched, so two discoveries in one
  directory may take the same process (session.go:407).
* `SlowPolls = FALSE` (`loop_nominal`) assumes that a tracker request is answered
  and handled before an agent, which works for minutes between two label changes,
  acts again. Without it one "needs-changes" verdict may be counted twice
  (`EscalationEarned`); `loop_faults` and all proofs do without it.
* `losses` of `ChannelSubs` names the keys of which the parts of `ChannelsKept`, and
  `HeldIsDrained` of `ChangesAreSeen`, claim nothing; it names no key without the step
  that lost it.
* `Exclusive`, `Patient`, `Overlap = FALSE`, empty sets of `Faults` or `mishaps` and the
  histories `hasty`, `again` and `halfway` name what a property keeps out. 3.5 tells what
  the code does without them.
* `SessionIsWatched`, `WatchContinues`, `WatchesOwnSession` and `PendingIsSought`
  claim nothing once a command failed or a message was swallowed: the code does
  not repeat it, and a launch whose discovery is lost that way keeps the scan out
  of its directory until zpit is restarted.

`CHECK_DEADLOCK FALSE`: the bounded starts, ends and posts run out, and a loop
that is off, or a broker that is down, does nothing; once all processes have
ended and all entries are removed, session tracking is at rest; so is a scenario
when its bounded work is done.

### 3.4 Fairness

`loop_live` assumes weak fairness of commands, handlers and timers of every
client (the Go scheduler runs goroutines and the event loop reads its queue), and
strong fairness of the *successful* answer of a poll: a request repeated for ever
does not fail for ever. Nothing is assumed of people, agents, overlays or the
start and stop of the loop. `sessions_resume` assumes weak fairness of the
chains' steps, of the scan and its handler, of a liveness check that removes
everything expired (`livenessCheckInterval` is longer than an ended entry is
shown, and ticks pass overlays and dialogs), and of the kill's message; nothing of
processes, launches, prompts, losses or the user.

`progress` assumes for each scenario what the `FairSpec` of its model does: weak
fairness, one by one, of the steps of goroutines and handlers, of ticks and
timers, of a broker's handlers and of a listener's retries. `Task(n)` is the n-th of
these for whichever scenario it is; as the scenario never changes, weak fairness
of every `Task(n)` is the fairness of each model. Nothing is assumed of clients
that post, users (except that a user answers an open dialog in `press` and
dismisses the failure in `git`), agents, shutdowns, edits of files, broken
connections and faults. In `proxy` the upstream is taken to answer and a pipe
that reached its end to be noticed, which is external; `StoppedEnds` for it
speaks of a proxy whose pipes have both ended, for the code waits for the other
one otherwise (3.5).

### 3.5 Where the code and its documents differ

Two runs show a property that a comment states and TLC finds violated; the
quotations are in `PROJECT.json`.

1. `loop_resume`: `findLoopSlotFromWorktree` puts a resumed slot in `SlotCoding`
   and `handleLoopPoll` gives it a PR-poll timer only, which ends at once unless
   the slot is in `SlotWaitingPRMerge`. The comments (loop_handler.go:451, 463) say
   the PR poll will take it on. The slot stays, and keeps its place.
2. `broker_gap`: an artifact published between a stream's snapshot and its
   subscription reaches it neither way; the comment at broker.go:229 promises
   existing artifacts first and then new ones as they arrive.

The other differences met are below. Each property is defined in its module; to
see the behaviour, check it in an instance whose constants let happen what the
row tells (two clients, `Patient = FALSE`, a fault, a reload, ...), in `PendingOps`, `Worktrees`,
`DesktopAgent`, `GitView` and `SessionImport` without its condition (`~hasty`,
`NoReopen`, `Calm`, `~gitUsed.again`, `hasty` among the `mishaps`, ...). They are not
among the runs. Those of `ChannelSubs` are: its scenarios reach each of them, and
`losses` records it; without `losses` the part named here is violated there.

| Module | Property | What happens | At |
| --- | --- | --- | --- |
| `LoopEngine` | `AgentInOwnWorktree` | A PR opened on another machine is taken up by the start-up scan and its agent is launched with an empty worktree path. | `tui/loop_handler.go:509` |
| `LoopEngine` | `SlotInOwnWorktree` | Two issues, one's ID in the other's branch name, and a second start: one slot is made from the other issue's worktree. | `tui/loop_handler.go:454` |
| `LoopPoll` | `AllCyclesAreReported` | An issue on a second cycle through walked nodes is not reported. | `tui/loop_cmds.go:157` |
| `LoopPoll` | `LoggedOnlyOnChange` | Two polls of the same issues report different sets, and both are logged. | `tui/loop_cmds.go:133` |
| `Worktrees` | `LimitKept` | Creations of two polls run at once and pass the limit. | `worktree/manager.go:66` |
| `Worktrees` | `NoHalf` | The program ends between the branch and the worktree. | `worktree/manager.go:81` |
| `Worktrees` | `NoHalf` | git makes the branch, fails to configure it, and the branch stays. | `worktree/manager.go:82` |
| `Worktrees` | `NoHalf` | A directory that cannot be removed keeps its branch. | `worktree/manager.go:116` |
| `Worktrees` | `RefusalStep` | The worktrees of parallel tasks use up the limit of the project. | `worktree/manager.go:66` |
| `Worktrees` | `SlotHasTree` | A slot is resumed in the listed, gone worktree of a parallel task. | `tui/loop_handler.go:454` |
| `Worktrees` | `WorkKept` | The work on an issue that was opened again is removed at the next start. | `tui/loop_cmds.go:706` |
| `Deploy` | `AgentsGuarded` | A removal that runs beside a redeployment takes the hooks the redeployment has just set. | `tui/confirm.go:297` |
| `Deploy` | `AgentsGuarded` | After a change of hook_mode an agent starts under the old hooks. | `tui/confirm.go:197` |
| `Deploy` | `AgentsGuarded` | An agent file that could not be removed is launched without its hooks. | `tui/confirm.go:276` |
| `Deploy` | `KeysKept` | A settings.json that does not parse is replaced. | `worktree/hooks.go:348` |
| `Deploy` | `NeverPanics` | A settings.json that holds null ends the program. | `worktree/hooks.go:359` |
| `Deploy` | `OwnIdentity` | Two launches in one project: the first agent starts with the file of the second. | `tui/launch.go:95` |
| `Deploy` | `LocalKept` | A redeployment deletes the user's settings.local.json. | `tui/confirm.go:292` |
| `Deploy` | `WorktreeGuarded` | A worktree in strict mode has no hook settings. | `worktree/hooks.go:286` |
| `Deploy` | `AllIgnored` | A plain launch leaves .mcp.json where git sees it. | `tui/launch.go:95` |
| `McpListener` | `NothingLate` | An event is passed on after unsubscribe_project was answered. | `mcp/server.go:696` |
| `McpListener` | `ArtifactsShown` | An artifact beyond the scanner's buffer keeps the ones behind it from ever being passed on. | `mcp/server.go:661` |
| `ChannelSubs` | `RecordedOnce` | Two clients launch an agent of one project at the same time. | `tui/model.go:1154` |
| `ChannelSubs` | `RecordedOnce` | A loop is started in a project whose channel is subscribed already. | `tui/confirm.go:245` |
| `ChannelSubs` | `ScopeSubscribed` | Two loops listen to _global and one is stopped. | `tui/model.go:863` |
| `ChannelSubs` | `ScopeSubscribed` | A project's own key is in another's listen list, and that other loop is stopped. | `tui/model.go:859` |
| `ChannelSubs` | `HeldIsRead` | An event arrives while an error overlay is shown. | `tui/model.go:408` |
| `ChannelSubs` | `HeldIsRead` | The client whose command reads the feed quits. | `tui/model.go:699` |
| `ChannelSubs` | `ScopeSubscribed` | A channel is toggled between the reading of the config file and its application. | `tui/editconfig.go:273`, `tui/appstate.go:262` |
| `StateRefresh` | `NoLostWakeup` | The refresh message is taken by an overlay and no waiter is left. | `tui/model.go:408` |
| `StateRefresh` | `SubscribersAreClients` | A connection is lost and its subscriber stays. | `ssh/server.go:164` |
| `PendingOps` | `LabelsReady` | The answer to one project's check executes the operation of another. | `tui/tracker_ops.go:33` |
| `PendingOps` | `IssueAsAsked` | The dialog opens for the issue under the cursor when the check answers. | `tui/confirm.go:253` |
| `PendingOps` | `ActsOnAsked` | With a project less in the config an index means another project. | `tui/confirm.go:216` |
| `PendingOps` | `ActsOnAsked` | With the last project gone the index is out of range. | `tui/confirm.go:216` |
| `Sessions` | `SignalIsShown` | A permission check removes the signal of a running session that no terminal tracks yet. | `tui/session.go:754` |
| `LogTail` | `NothingLost` | A record that is read between its two writes is never handed out. | `watcher/watcher.go:128` |
| `LogTail` | `EveryRecordIsHanded` | A line beyond the buffer ends the watch, and takes the records before it in the batch along. | `watcher/watcher.go:138` |
| `Alerts` | `ReminderSent` | Nothing tells a second time of a question that nobody answers. | `tui/model.go:1220` |
| `Alerts` | `NeedsHumanIsAlerted` | The cooldown of a terminal of the project silences the loop's call for a human. | `tui/loop_handler.go:299` |
| `Alerts` | `CooldownKept` | Between the loop's check and its entry a terminal is told of: two notifications in one cooldown. | `notify/notify.go:65` |
| `Alerts` | `StateRestored` | A permission decided before it is shown leaves its file, and comes to be shown when it is over. | `tui/model.go:1205` |
| `Alerts` | `PermissionIsShown` | The record that precedes the permission is handed out after it, and removes its file and its display. | `tui/model.go:1205` |
| `Alerts` | `PermissionIsShown` | The file of a session that is not found yet is removed as stale. | `tui/session.go:755` |
| `DesktopAgent` | `OnlyOne` | Two presses of [w] before the first launch is answered start two agents. | `tui/launch.go:310` |
| `DesktopAgent` | `OnlyOne` | A scan that outlives a launch takes the next one's process, and its lock is released. | `tui/session.go:151` |
| `DesktopAgent` | `OnlyOne` | The process comes up after the search is over: its lock is gone. | `tui/session.go:413` |
| `DesktopAgent` | `OnlyOne` | After a restart the lock is forgotten while the agent lives. | `tui/launch.go:414` |
| `DesktopAgent` | `FollowsOwn` | A session of the user's own in the home directory is taken for the desktop agent. | `tui/session.go:416` |
| `DesktopAgent` | `UnlocksAgain` | A lost message leaves an entry without a process: [w] stays blocked. | `tui/launch.go:289` |
| `DesktopProxy` | `EndsAtEof` | The agent closes its pipe and the proxy waits for the upstream. | `desktop/proxy.go:226` |
| `DesktopProxy` | `EndsWithUpstream` | The upstream exits and the proxy waits for the agent's next line. | `desktop/proxy.go:198` |
| `SessionImport` | `DefaultNeverUsed` | Keys pressed while answers are on their way: the second pass meets files the first did not ask about, and overwrites them. | `tui/sessions.go:265` |
| `SessionImport` | `CancelWritesNothingFurther` | Cancel entire import, and the memory directory is still replaced. | `sessionsync/unpack.go:212` |
| `SessionExport` | `AllOfFolder` | [E] with a scan that fails: the list before is taken. | `tui/model.go:572` |
| `SessionExport` | `DefaultNamesFolder` | A second wizard, of another folder, proposes the path of the first. | `tui/model.go:1964` |
| `SessionExport` | `ShownPathUsed` | A path typed and left with Tab is shown but not used. | `tui/model.go:1699` |
| `SessionExport` | `RunningIsRunning` | After the answer of the export the wizard is still in its running step. | `tui/sessions.go:347` |
| `ConfigFile` | `MemoryIsFile` | Replacing the first line of an array over several lines leaves a file that cannot be read. | `config/toml_writer.go:49` |
| `ConfigFile` | `RestPreserved` | A comment with a bracket behind a list is dropped. | `config/toml_writer.go:215` |
| `ConfigFile` | `MemoryIsFile` | Two changes by key at once: the file keeps one of them. | `config/toml_writer.go:17` |
| `ConfigFile` | `ReloadIsWhole` | A reload reads the file between its truncation and its lines. | `config/toml_writer.go:29` |
| `ConfigFile` | `ProjectsStay` | A project removed from the file is gone from memory with the reload. | `tui/appstate.go:247` |
| `GitView` | `OneOperation` | Leaving and entering the page again starts a second git command beside the first. | `tui/gitstatus.go:177` |
| `GitView` | `CurrentWhenIdle` | The late answer of an earlier visit is shown over the newer one. | `tui/gitstatus.go:241` |
| `GitView` | `OperationEnds` | A dialog that is up when the answer comes swallows it: the operation stays in progress. | `tui/model.go:424` |
| `GitView` | `GraphIsRead` | A graph that fails without output is shown as that of an empty repository. | `git/ops.go:95` |

## 4. Proofs

| Module | Theorem | States | Assumes, besides the typing of the constants |
| --- | --- | --- | --- |
| `LoopEngine_proofs` | `TypeCorrect` | `Spec => []TypeOK` | nothing |
| `LoopEngine_proofs` | `HeartbeatSafe` | `Spec => []HeartbeatPreserved` | nothing |
| `LoopEngine_proofs` | `WorkSafe` | `Spec => WorkKeptUntilMerged` | `OwnBranches` |
| `LoopEngine_proofs` | `DependencySafe` | `Spec => []DependenciesMerged` | `OwnBranches`, `ForeignPRs = {}` |
| `LoopEngine_proofs` | `CapacityHolds`, `AgentsWorkAlone`, `VerdictsAnswered` | `Spec => [](FirstRun => P)` for `CapacityRespected`, `OneAgentPerIssue`, `VerdictsAccount` | `ForeignPRs = {}`, `~SlowPolls` |
| `LoopEngine_proofs` | `OnlyOpenPRsOverfill` | every step: slots within `max_per_project`, or no more than before, or `HandleOpenPRs` | nothing |
| `LoopPoll_proofs` | `CyclesFound` | `PollSpec => []CyclesAreFound` | `PollAssumption` |
| `LoopPoll_proofs` | `PollKeepsContract` | `PollSpec => ImplementsContract` | `PollAssumption` |
| `Broker_proofs` | `ChannelsSafe`, `CountsCorrect`, `EventsAreDelivered` | `Spec => []NoChannelPanic`, `Spec => []CountsAreExact`, `Spec => []EventsDelivered` | nothing |
| `Broker_proofs` | `StreamsServeListeners` | `McpSpec => [](NoChannelPanic /\ CountsAreExact /\ EventsDelivered)` | `ListenerAssumption` |
| `Broker_proofs` | `ListenersServe` | `McpSpec => []ListenersAreTrue` | `ListenerAssumption` |
| `Broker_proofs` | `ListenersTyped`, `SubscriptionsOwned`, `RepliesHold`, `OneLateEach`, `NoEchoHeard`, `HeardInOrder` | its parts | `ListenerAssumption` |
| `Sessions_proofs` | `TypeCorrect`, `EndedSafe`, `EntriesSought`, `WatchKept` | `Spec => []P` for `TypeOK`, `EndedIsDead`, `EntriesAreSought`, `WatchIsKept` | nothing (`Settled` is part of the model) |
| `PendingOps_proofs` | `PressesActAsAsked` | `Spec => []ActsAsAsked` | `PendingAssumption` |
| `PendingOps_proofs` | `PendingTyped`, `PressActsOnce`, `PressActsOnAsked`, `IssuesAreAgreed` | its parts that hold for every user | `PendingAssumption` |
| `PendingOps_proofs` | `WaitingUserIsServed` | `Spec => [](LabelsReady /\ IssueAsAsked /\ ShownIsTrue)` | `PendingAssumption` |
| `Worktrees_proofs` | `TreesStayWhole` | `TreesSpec => []TreesAreWhole` | `WorktreesAssumption` |
| `Worktrees_proofs` | `NothingIsTaken` | `TreesSpec => TreesLeftAlone` | `WorktreesAssumption` |
| `Worktrees_proofs` | `TreesTyped`, `LimitHolds`, `SlotsHaveTrees`, `NothingIsHalf` | the parts of `TreesAreWhole` | `WorktreesAssumption` |
| `Desktop_proofs` | `OneDesktopAgentHolds` | `AgentSpec => []OneDesktopAgent` | `DesktopAgentAssumption` |
| `Desktop_proofs` | `LockIsHeld` | `AgentSpec => HeldWhileAlive` | `DesktopAgentAssumption` |
| `Desktop_proofs` | `AgentTyped`, `LockTracked`, `OneAgentLives` | the parts of `OneDesktopAgent` | `DesktopAgentAssumption` |
| `Desktop_proofs` | `TellsTheTruth` | `Spec => []ProxyIsTrue` | `PolicyAssumption`, `ProxyAssumption` |
| `Desktop_proofs` | `TypeCorrect`, `OnlyPermittedCalls`, `ListIsGate`, `PolicyIsOfFile`, `NoSecondAnswer`, `WiderProfilesPermitMore` | `TypeOK`, `GateKept`, `ListMatchesGate`, `PolicyOfFile`, `AnsweredOnce`, `ProfilesWiden` always hold | the same |
| `Dashboard_proofs` | `TypeCorrect`, `NoWakeupIsLost` | `Spec => []TypeOK`, `Spec => []NoLostWakeup` | nothing; `~Dialogs` |
| `Dashboard_proofs` | `PageShowsWhatIs` | `GitSpec => []PageIsTrue` | `GitAssumption` |
| `Dashboard_proofs` | `ImportKeepsContract` | `ImportSpec => ContractKept` | `ImportAssumption` |
| `Dashboard_proofs` | `ImportTyped`, `TalliesHold` | `ImportSpec => []ImportTypeOK`, `ImportSpec => []TalliesAddUp` | `ImportAssumption` |
| `Dashboard_proofs` | `WaitingUserIsAsked` | `ImportSpec => [](Careful => DefaultNeverUsed)` | `ImportAssumption` |

They hold for any number of clients, issues, streams, listeners, broken connections,
starts, overlays and posts, for any processes, sessions, directories, keys, chains,
launches and losses, for any tools, policy files, calls, frames and restarts, for any
issues, parallel tasks and faults of worktrees, for any launches of the desktop agent,
for any issue texts and any changes of the tracker during polls, for any presses, visits
and configs taken over, for any operations of the git page, any bundles, destinations
and commands of an import, and for any dashboards and changes. `ImportAssumption` says
that a manifest names no session twice: it has those `ScanSessions` finds in one
directory. `OwnBranches` says that no issue's branch name contains another's ID; without
it the code may resume one issue in another's worktree and later remove that worktree
when the wrong PR is merged (loop_handler.go:454). `ForeignPRs = {}` is needed because
the start-up scan takes up an open PR without asking for dependencies and whatever the
room. `FirstRun` says that the loop key started the loop once at most in this process's
life and the ones before: a loop started again forgets its slots but not its agents, so
that it may launch a second one beside them. `~SlowPolls` says that a request is
answered and handled before an agent acts upon newer labels. `PolicyAssumption` states
the relations of the lists in `policy.go` (run_script is among the denied tools and in
no profile's extras, the keys that lock the user out are among the denied ones, ...);
`ListenerAssumption` types the constants of `McpListener` and lets the projects of `Run`
be within the model's bound of goroutines; `~Dialogs` because a message an overlay
swallows ends the chain of waiters, which the tick repairs (the liveness part
`EveryChangeShown`, checked with dialogs).

*Heartbeats.* `TypeOK /\ HeartbeatPreserved` is itself inductive, because the
history variables say where a beat ended: a step leaves a slot with the command,
message or timer that will move it on, or moves the slot and puts in place what
moves it next, or records in `dropped`, `resumed` or `pollLost` why neither is
so. The lemmas that carry the argument say what `Replace` does to `Pending` (an
item replaced by one of the same class and issue keeps the class pending); the
proof then has one step per action, and under it one per slot state.

*Merge.* `MergeInv` traces a removal back to its cause: a slot's branch and
directory are its own issue's or none (`SlotOwn`); an item in flight owns the
branch and directory it names, and one that tells of a merge (a PR status of
merged, a merge without failure, a clean-up, a close) is about a merged PR
(`ItemOK`); a closed issue is merged. A merged PR stays merged.

*Dependencies.* `ReadyInv` says that a slot, a PR, an agent and an item of a
poll, of the start-up scan or of a launch exist only for an issue whose
dependencies are all closed; `MergeInv` adds that closed issues are merged.

*Capacity, agents and verdicts.* `VerdictInv` makes three parties agree about an
issue (`IssueInv`): its label, its slot, and whatever has it in hand, which is one
command or message of a launch (`OneHand`) or one agent. An item in hand names the
label and the slot state it will be handled in (`HandLabel`, `HandSlot`); an agent
says which label it works under (`AgentLabel`); a slot state bounds the label, the
agents, the rounds and the label heartbeats (`SlotInv`, where `ChainsOf` counts two
heartbeats per finished round). `TodoInv` adds that what a poll read is still todo,
`ScanInv` that there is no PR before the scan for open ones is over, and `StartInv`
that until the one start everything is untouched. The proof goes action by action for
one issue at a time; a step about another issue leaves `Same(i)`. Every relabelling
is by an agent, and `Settled` then says that no reader of labels is on its way
(`RelabelIssue`). For the capacity `AdmittedFit` shows that the slots there are and
those `Admitted` adds fit together: the lowest issue admitted counts all others above
it. That part needs no hypothesis, which is `OnlyOpenPRsOverfill`.

*Broker.* `Inv` says that `mapping` holds only open channels of streams in their
loop, that `subs` is part of `mapping` under the stream's own project, and that
each count is the cardinality of its set of counted streams. That set is finite,
so taking one stream in or out changes its cardinality by one. `EventInv` is about
the events: what a stream was sent, then its snapshot's rest, then its buffer is cut
in two (`CutAt`); before the cut are artifacts of the snapshot, each once, and behind
it published events in publishing order, each once. Hence the order of messages and
at most two of an artifact. `Served` adds that every stored artifact of the stream's
project is sent, on its way (`OnItsWay`) or among the missed ones.

*MCP server.* `McpSpec` is not `Spec`: a stream that has ended is taken again. Yet
every step is one of the broker or that one (`McpStep`), and a connection made anew
begins with the artifacts of its project as the first one did (`SnapshotTaken`), so
`Inv` and `EventInv` stay (`McpKeeps`). `ListenInv` says who listens: a context and an
uncancelled goroutine name each other (`Owned`), the own project stays subscribed, and
who passed an event on after its cancellation has none in hand any more. `EchoInv`
says that what is shown, heard or in hand was posted by others, which a later post of
this server does not change, because ids are not used twice. The order of messages
needs `AheadInv`: whatever a listener has heard, over all its connections, was
published before every message it has yet to read from its stream. A step of the
broker only lengthens a stream, by an artifact or by the last message published
(`NextMoves`); a new connection carries artifacts only, so its messages are all later.

*Sessions.* `EndedIsDead` is about one entry, but a chain that reports a death
acts upon whatever entry is under its key, so the invariant `OwnInv` says what
every chain and the kill dialog know of that entry: a wait or a watcher to attach
is about its PID, a found session is about its PID or fills in a PID of 0, a
search means that the PID is 0, a loss that the PID is not running, and a watch on
another process's log is about a dead one and ends without an event.
`SoughtOnce` adds that a launch is sought by one chain, so filling in a PID
contradicts no other chain. A step of one chain keeps its entry's PID or fills it
in (`StepKept`, `StepOwn`); a tick or a key may change several entries, each of
which keeps its PID or is one nothing on its way relies on (`KeyKeeps`,
`Unrelied`, `EntriesOwn`), which for the removal of an ended entry is `Settled`.

`EntriesAreSought` and `WatchIsKept` join the search and the watch to it. `OnceInv`
gives a PID one key: a search excludes every PID that was tracked at its launch, the
scan of a directory attaches one entry per process, and a directory whose only entry
waits for its PID is left to that search (`PendingIsSought`). `KeptAt` says of every
entry whose watcher runs that a listener and a follower, or the message that starts
them, are on their way, and `FreshIds` that watchers are told apart by their numbers,
so that stopping one never silences its successor.

*Worktrees.* `OwnInv` gives a slot at most one command, which finds the slot as it was
left. `WorkInv` orders an issue's life: what is todo was not begun, unmerged work is in
its directory, and only what is merged is removed. `DirInv` follows a directory from
its creation into the slot, `OneEach` and `HalfInv` say of every step of a command
which of the three records it has made or removed. `LimitInv` carries the count: the
creations of one poll run in turn, and the one past the check still has its room.
Each of these hypotheses stands in the property itself and is about the `faults` a
behaviour has, which no step changes. It leaves out one of them, and with that one TLC
finds a counterexample:
two polls whose creations overlap count the same worktrees (`NoOverlap`), a parallel
task's worktree counts as an issue's (`NoForks`), an issue opened again after its merge
is swept by its old PR (`NoReopen`), and a crash, a failing git or a locked directory
leaves a half-made tree (`Untroubled`). Each theorem is for all other faults at once.

*Polls.* What an issue reaches is the least set that holds its dependencies and theirs
(`Reach`), so the lemmas about it (`ReachTargets`, `ReachClosed`, ...) need no induction. In
`WalkInv` the gray nodes are those on the stack, each once (`GrayInv`), and the stack is a
path along which the parents lead back (`PathInv`); an edge that was looked at leads to a
node that is done or to the next one on the stack, unless its node is reported (`SeenInv`).
A back edge marks the piece of the stack from its target on (`MarkedOnStack`), whose nodes
reach each other: what is reported waits for itself. Conversely (`KnotInv`), when a node of
a knot is done without being reported, one of its dependencies in the knot is done as well,
and of that one's knot, the same, some are reported. For the contract `HistoryInv` puts what
is closed between `always` (closed all through the poll) and `ever`; every listed issue that
is not eligible is still to be looked at or there is a reason (`Accounted`), so that each
step is one of `PollContract` or leaves its variables.

*Pending operations.* `Shape` types what is on its way. `OnceInv` says that a press that is
pending, or in a dialog whose agreement acts at once, was not executed yet, and that these
two are different presses. `AskedInv` keeps an index with the project it was taken from
as long as the config stays, and `TodoInv` an issue on its way to the tracker with the
agreement to it. For a user who waits, `WaitInv` says that one message or dialog at a time
is on its way and, behind a label check, belongs to the pending press; so the labels found
are that operation's (`ClearedInv`) and the cursor has not moved from the issue asked for
(`ScreenInv`). `hasty` never becomes false again (`HastyStays`), which makes `~hasty => ...`
inductive although single keys of a hasty user break it.

*Git page.* `LiveInv`: while no page is entered again a repository has one command at most
that runs, reads or waits with its answer, and its page says that an operation is in
progress. Hence a fetch never changes a repository under a load, and what a load has read
is still so when it is taken (`FreshInv`); for what the page shows while a command is under
way, that holds until a fetch or pull has changed something, so that one that fails without
a change (`Harmless`) leaves the page true. Where one fails halfway the page is stale, which
`CurrentWhenIdle` excepts. `SpinInv` adds to `SpinnerRuns` that without overlays of something else
one is up only when a failure is shown, and then no operation is in progress.

*Desktop agent.* `LockIsTracked` is inductive beside the kinds of the variables:
whatever drops an entry of the lock releases the lock in the same check. The rest
needs `Calm`: the launch is answered before the next press, a search ends with what it
looks for, messages arrive, and neither a restart nor a process of the user's own comes
between; log files may be unreadable. `AloneInv` then says that only the latest launch
lives or comes up, and that it is in the message of the launch or under the lock;
`ChainInv` and `EntryInv` say of every chain and entry that its process is its
launch's, and of what is lost or ended that it is dead. So at a press that passes the
guard nothing lives (`PressCalm`). Without any one part of `Calm` TLC finds a second
agent, a foreign entry or a released lock (section 3.5).

*Desktop proxy.* `Faithful` joins the three properties about policies: what the
upstream has got passed the gate of the policy in force, that policy is the one
of the file the run found, and a list is filtered by it. `TypeOK` makes a running
proxy's policy a valid one, which a restart over an edited file keeps.
`OnePlace` is the invariant behind `NoSecondAnswer`: a frame is with the agent's
pipe, the upstream, the answers on their way or the answered ones, and in one of
these only; each of the two goroutines moves it from one to the next
(`OnePlaceRead`, `OnePlaceAnswered`, `OnePlaceRelayed`, `OnePlaceSent`).
`PresetsWiden` compares neighbouring profiles and `WiderProfilesPermitMore`
follows the chain.

*Refresh.* `NoLostWakeup` needs `Listening`: a running dashboard is subscribed
and has a waiter: about to wait, waiting, or with its answer to be handled. `NotifyAll` may then drop a signal
only when another is already in the channel.

*Import.* `ImportInv` adds to the types that the places in the queue and in a command are
places of their bundle's manifest, that whoever looks for collisions has named a
destination, and that a job's tallies add up (`Tally`): the sessions before its place that
are selected were counted once each, and, as a manifest names no session twice, the others
of the selection are those from there on, so that `CancelledCount` is their number. For a
user who waits, with no agent about, `CareInv` says: one command or message is under way at
a time (the user's keys start none beside it); what looks for collisions is about the
bundle, selection and destination the wizard holds; the collisions found, less those in the
queue, have an answer that agrees with `agreed` (`AskedFor`); and for a job each session
there is from its place on has such an answer, or one at or before it says cancel
(`Covered`), behind which nothing is written. So a file that is there is replaced with an
agreement only (`WritesAgreed`), which is the write of `ImportContract`. The sets of places
stand for the queue in order, because facts about filters of sequences need induction over
data.

*Only model-checked:* `ChannelsKept`, `EditsKept` and `BundlesAreHonest` of `dashboard`,
except for the part `TalliesAddUp` of the last, `UserIsTold` and `AgentsAreGuarded` of
`machine`. Out of the prover's reach are liveness under fairness and `ENABLED`
(`loop_live`, `sessions_resume`, `progress`), and what a recursive definition computes for
every input (the line editor of `EditsKept`).

## 5. What the models take for granted

* An action of a handler is atomic: the event loop of a client handles one
  message at a time. Where a handler gives up a lock in between, its parts are
  steps. Clients interleave.
* git, the trackers, the file system, Claude Code and npx are external, and
  modelled from how the code uses them.
* `SessionImport`: no error overlay is shown. `SessionExport`: `HonestBundles` is
  said of one export at a time.
* `ChannelSubs`: a client that quits is a remote session.
* `PendingOps`: no error overlay is shown; one would swallow the answer of a label check
  (model.go:408), after which the operation stays pending until the next press.
* `Deploy`: what a run of it keeps out is named there: in a project one hook_mode, and in
  a worktree standard or relaxed ones.
* `EditsKept` speaks of the layouts of `ConfigLayouts`, which have no array over several
  lines and no comment with brackets.
* `DesktopProxy`: a signal kills npx only.
* `McpListener`: the agent calls the tools named in `Calls`.
* `LoopPoll`: issue texts do not change during a poll, and one client polls.
* `LogTail`: a record is its body and its end. `Alerts`: minutes saturate at the
  cooldown.
* `ConfigFile`: a change is a change of lines, and a line one of some kinds.
* `Sessions`: PIDs are not reused; a session is open in one process at a time.

## 6. Not modelled, and what comes next

Not modelled, because they compute no state whose order matters: the issue
specification parser (text to a record; its dependencies are the constant
`Deps`), the terminal launcher (platform commands), views and cursors of the
panels (rendering), locale tables, the parsers of git's output, HTTP and JSON of
the tracker clients, the config template with its defaults and checks of values,
installation scripts.

1. An abstract pipeline of one issue that `LoopEngine` refines, and its proof.
2. Proofs about `ChannelSubs`, `LogTail`, `Alerts` and `Deploy`.
3. Reuse of PIDs in `Sessions`; the error overlay in `SessionImport`.
4. Overlapping branch names in a run of their own; starts that overlap with the review.
