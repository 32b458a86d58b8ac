----------------------------- MODULE LoopEngine -----------------------------
(***************************************************************************)
(* The dispatch loop of one project: internal/tui/loop_handler.go (the     *)
(* message handlers), loop_cmds.go (the asynchronous commands), the loop   *)
(* toggle of model.go and the start in confirm.go.                         *)
(*                                                                         *)
(* Every client (the local TUI, each SSH session) is an event loop of its  *)
(* own.  A handler runs atomically, changes the shared LoopState and       *)
(* returns commands; a command runs in a goroutine, reads or changes the   *)
(* tracker, the repository or the terminals, and posts one message back to *)
(* the client that issued it.  Nothing orders two commands, and a timer    *)
(* fires at any moment after it is set.                                    *)
(***************************************************************************)
EXTENDS Integers, FiniteSets

CONSTANTS
    Clients,          \* the running TUI programs
    Remote,           \* those of SSH sessions: their quit ends one program only
    Issues,           \* issue numbers of the project, positive
    Deps,             \* Deps[i]: the DEPENDS_ON issues of issue i
    Contains,         \* <<j, i>>: the branch name of issue j contains the ID of issue i
    ForeignPRs,       \* issues whose PR was opened on another machine
    MaxPerProject,    \* config worktree.max_per_project
    MaxReviewRounds,  \* config worktree.max_review_rounds
    AutoMerge,        \* the values the project's auto_merge setting may have
    SlowPolls,        \* may a poll answer arrive after an agent acted upon newer labels?
    \* Bounds of the model, not of the program.
    MaxStarts,        \* times the loop key starts a loop
    MaxOverlays,      \* error overlays shown
    MaxEnds,          \* times a loop is stopped or the process ends
    MaxPolls,         \* poll requests of one kind in flight per client
    MaxRejects,       \* needs-changes verdicts per issue
    MaxAgents         \* agents at work on one issue at once

ASSUME LoopAssumption ==
    /\ Remote \subseteq Clients
    /\ Issues \subseteq Nat \ {0}
    /\ IsFiniteSet(Issues)
    /\ Deps \in [Issues -> SUBSET Issues]
    /\ Contains \subseteq Issues \X Issues
    /\ \A i \in Issues : <<i, i>> \in Contains
    /\ ForeignPRs \subseteq Issues
    /\ MaxPerProject \in Nat
    /\ MaxReviewRounds \in Nat
    /\ AutoMerge \subseteq BOOLEAN
    /\ SlowPolls \in BOOLEAN
    /\ {MaxStarts, MaxOverlays, MaxEnds, MaxPolls, MaxRejects,
        MaxAgents} \subseteq Nat

VARIABLES
    active,      \* LoopState.Active
    slots,       \* LoopState.Slots
    flight,      \* flight[c]: commands running for client c, messages posted to it
    pollTicks,   \* pollTicks[c]: pending timers of the todo-poll heartbeat
    labelTicks,  \* labelTicks[c][i]: pending timers of the label-poll heartbeat
    prTicks,     \* prTicks[c][i]: pending timers of the PR-poll heartbeat
    gate,        \* what update() lets through in each client
    pendingOp,   \* pendingOp[c]: a PendingLoop operation waits for the label check
    labels,      \* the tracker: labels of each issue,
    closed,      \*   the closed issues,
    prs,         \*   and the pull request of each issue's branch
    wts,         \* issues whose branch and worktree exist in the repository
    agents,      \* Claude Code agents at work in their terminals
    rejected,    \* history: needs-changes verdicts per issue
    dropped,     \* history: issues whose slot lost a message or timer to a closed gate
    resumed,     \* history: issues whose slot was made from a leftover worktree
    pollLost,    \* history: the todo-poll heartbeat lost a timer to a closed gate
    budget       \* starts, overlays and ends left

loopVars   == <<active, slots>>
timerVars  == <<pollTicks, labelTicks, prTicks>>
clientVars == <<gate, pendingOp>>
trackerVars == <<labels, closed, prs>>
agentVars  == <<agents, rejected>>
lossVars   == <<dropped, resumed, pollLost>>
vars == <<loopVars, flight, timerVars, clientVars, trackerVars, wts, agentVars,
          lossVars, budget>>

-----------------------------------------------------------------------------
(* Data. *)

NoIssue == 0

\* loop.SlotState; "None" stands for a key that is absent from LoopState.Slots.
SlotState ==
    {"None", "CreatingWorktree", "WritingAgent", "LaunchingCoder", "Coding",
     "LaunchingReviewer", "Reviewing", "AutoMerging", "WaitingPRMerge",
     "CleaningUp", "NeedsHuman", "Error"}

\* loop.Slot.  A branch and a worktree path are named by the issue they were
\* made for; NoIssue is the empty string.
Slot == [state: SlotState, round: Nat, branch: Issues \cup {NoIssue},
         wt: Issues \cup {NoIssue}]

NoSlot == [state |-> "None", round |-> 0, branch |-> NoIssue, wt |-> NoIssue]

Label == {"pending", "todo", "wip", "review", "ai-review", "needs-changes"}
PRState == {"none", "open", "merged", "closed"}
Role == {"coder", "reviewer"}

\* Commands that run in a goroutine: the tea.Cmd closures of loop_cmds.go.
Command ==
         [op: {"labelCheck", "ensureLabels", "poll", "scanPRs", "cleanupMerged"},
          issue: {NoIssue}]
    \cup [op: {"create"}, issue: Issues, after: SUBSET Issues]
    \cup [op: {"write", "pollLabels", "close"}, issue: Issues]
    \cup [op: {"launch"}, issue: Issues, role: Role, dir: Issues \cup {NoIssue}]
    \cup [op: {"pollPR"}, issue: Issues, branch: Issues \cup {NoIssue}]
    \cup [op: {"merge"}, issue: Issues, branch: Issues \cup {NoIssue}, attempt: 0..3]
    \cup [op: {"cleanup"}, issue: Issues, dir: Issues \cup {NoIssue}]

\* Messages posted to an event loop: the Loop*Msg types of msg.go.
Message ==
         [op: {"labelChecked"}, issue: {NoIssue}, res: {"ok", "missing", "err"}]
    \cup [op: {"labelsEnsured"}, issue: {NoIssue}, ok: BOOLEAN]
    \cup [op: {"polled"}, issue: {NoIssue}, ok: BOOLEAN, todo: SUBSET Issues]
    \cup [op: {"openPRs"}, issue: {NoIssue}, ok: BOOLEAN, prs: SUBSET Issues,
          labels: [Issues -> SUBSET Label]]
    \cup [op: {"created", "written"}, issue: Issues, ok: BOOLEAN]
    \cup [op: {"launched"}, issue: Issues, role: Role, ok: BOOLEAN]
    \cup [op: {"labels"}, issue: Issues, ok: BOOLEAN, labels: SUBSET Label]
    \cup [op: {"prStatus"}, issue: Issues, ok: BOOLEAN, pr: PRState]
    \cup [op: {"merged"}, issue: Issues,
          kind: {"", "permanent", "transient_exhausted", "auth"}]
    \cup [op: {"cleaned"}, issue: Issues]

CommandOp == {"labelCheck", "ensureLabels", "poll", "scanPRs", "cleanupMerged",
              "create", "write", "pollLabels", "close", "launch", "pollPR",
              "merge", "cleanup"}

\* An agent works in its own terminal, in directory dir; n tells two of them apart.
Agent == [issue: Issues, role: Role, dir: Issues \cup {NoIssue}, n: 1..MaxAgents,
          began: BOOLEAN]

-----------------------------------------------------------------------------
(* Small operators the handlers share. *)

Cmd(op)         == [op |-> op, issue |-> NoIssue]
IssueCmd(op, i) == [op |-> op, issue |-> i]

LaunchCmd(i, role) ==
    [op |-> "launch", issue |-> i, role |-> role, dir |-> slots[i].wt]
PollPRCmd(i) ==
    [op |-> "pollPR", issue |-> i, branch |-> slots[i].branch]
MergeCmd(i) ==
    [op |-> "merge", issue |-> i, branch |-> slots[i].branch, attempt |-> 0]
CleanupCmd(i) ==
    [op |-> "cleanup", issue |-> i, dir |-> slots[i].wt]

HasSlot(i) == slots[i].state # "None"
SlotCount  == Cardinality({i \in Issues : HasSlot(i)})
Moved(i, s) == [slots EXCEPT ![i].state = s]

\* Client c takes item m out of flight and adds the items in new.
Replace(c, m, new) == flight' = [flight EXCEPT ![c] = (@ \ {m}) \cup new]

\* The timers loopSchedulePoll, loopScheduleLabelPoll and loopSchedulePRPoll set.
SchedulePoll(c)     == pollTicks'  = [pollTicks  EXCEPT ![c] = @ + 1]
\* Bug for comparison: the timer is forgotten.
ScheduleLabelForgotten(c, i) == UNCHANGED labelTicks
ScheduleLabel(c, i) == labelTicks' = [labelTicks EXCEPT ![c][i] = @ + 1]
SchedulePR(c, i)    == prTicks'    = [prTicks    EXCEPT ![c][i] = @ + 1]

InFlight(c, ops, i) == Cardinality({m \in flight[c] : m.op \in ops /\ m.issue = i})

\* tracker.MapLabelsToStatus(issue) = StatusTodo
IsTodo(i) ==
    /\ i \notin closed
    /\ "todo" \in labels[i]
    /\ labels[i] \cap {"review", "ai-review", "wip"} = {}

-----------------------------------------------------------------------------
Init ==
    /\ active = FALSE
    /\ slots = [i \in Issues |-> NoSlot]
    /\ flight = [c \in Clients |-> {}]
    /\ pollTicks = [c \in Clients |-> 0]
    /\ labelTicks = [c \in Clients |-> [i \in Issues |-> 0]]
    /\ prTicks = [c \in Clients |-> [i \in Issues |-> 0]]
    /\ gate = [c \in Clients |-> "open"]
    /\ pendingOp = [c \in Clients |-> FALSE]
    /\ labels \in [Issues -> {{l} : l \in Label}]
    /\ \A i \in Issues : IF i \in ForeignPRs THEN labels[i] \cap {"pending", "todo"} = {}
                                             ELSE labels[i] = {"pending"}
    /\ closed = {}
    /\ prs = [i \in Issues |-> IF i \in ForeignPRs THEN "open" ELSE "none"]
    /\ wts = {}
    /\ agents = {}
    /\ rejected = [i \in Issues |-> 0]
    /\ dropped = {} /\ resumed = {} /\ pollLost = FALSE
    /\ budget = [starts |-> MaxStarts, overlays |-> MaxOverlays, ends |-> MaxEnds]

-----------------------------------------------------------------------------
(* The user: the loop key, dialogs, overlays, leaving a session. *)

\* [l] on a project whose loop runs: deactivate and forget every slot.
StopLoop(c) ==
    /\ gate[c] = "open" /\ active
    /\ budget.ends > 0
    /\ budget' = [budget EXCEPT !.ends = @ - 1]
    /\ active' = FALSE
    /\ slots' = [i \in Issues |-> NoSlot]
    /\ dropped' = {} /\ resumed' = {}
    /\ UNCHANGED <<flight, timerVars, clientVars, trackerVars, wts, agentVars, pollLost>>

\* [l] on a project whose loop is off: startWithLabelCheck(PendingLoop).
PressStart(c) ==
    /\ gate[c] = "open" /\ ~active
    /\ budget.starts > 0
    /\ budget' = [budget EXCEPT !.starts = @ - 1]
    /\ pendingOp' = [pendingOp EXCEPT ![c] = TRUE]
    /\ flight' = [flight EXCEPT ![c] = @ \cup {Cmd("labelCheck")}]
    /\ UNCHANGED <<loopVars, timerVars, gate, trackerVars, wts, agentVars, lossVars>>

\* executePendingOp: when an operation is pending, a new LoopState replaces
\* whatever is there, running or not, and the first commands go out.
ExecutePendingOp(c, m) ==
    /\ pendingOp' = [pendingOp EXCEPT ![c] = FALSE]
    /\ IF pendingOp[c]
       THEN /\ active' = TRUE
            /\ slots' = [i \in Issues |-> NoSlot]
            /\ Replace(c, m, {Cmd("cleanupMerged"), Cmd("scanPRs"), Cmd("poll")})
            /\ SchedulePoll(c)
            /\ dropped' = {} /\ resumed' = {} /\ pollLost' = FALSE
       ELSE /\ Replace(c, m, {})
            /\ UNCHANGED <<loopVars, pollTicks, lossVars>>
    /\ UNCHANGED <<gate, labelTicks, prTicks, trackerVars, wts, agentVars, budget>>

\* The dialog that offers to create the missing labels: yes, or no.
ConfirmLabels(c) ==
    /\ gate[c] = "confirm"
    /\ gate' = [gate EXCEPT ![c] = "open"]
    /\ \/ /\ flight' = [flight EXCEPT ![c] = @ \cup {Cmd("ensureLabels")}]
          /\ UNCHANGED pendingOp
       \/ /\ pendingOp' = [pendingOp EXCEPT ![c] = FALSE]
          /\ UNCHANGED flight
    /\ UNCHANGED <<loopVars, timerVars, trackerVars, wts, agentVars, lossVars, budget>>

\* An error overlay opens over the client, and Esc or Enter closes it.
ShowOverlay(c) ==
    /\ gate[c] = "open"
    /\ budget.overlays > 0
    /\ budget' = [budget EXCEPT !.overlays = @ - 1]
    /\ gate' = [gate EXCEPT ![c] = "overlay"]
    /\ UNCHANGED <<loopVars, flight, timerVars, pendingOp, trackerVars, wts, agentVars,
                   lossVars>>

DismissOverlay(c) ==
    /\ gate[c] = "overlay"
    /\ gate' = [gate EXCEPT ![c] = "open"]
    /\ UNCHANGED <<loopVars, flight, timerVars, pendingOp, trackerVars, wts, agentVars,
                   lossVars, budget>>

\* [q] in an SSH session ends that program only: its goroutines run on, but
\* nobody reads their messages or its timers any more.
RemoteQuit(c) ==
    /\ c \in Remote /\ gate[c] = "open"
    /\ gate' = [gate EXCEPT ![c] = "gone"]
    /\ UNCHANGED <<loopVars, flight, timerVars, pendingOp, trackerVars, wts, agentVars,
                   lossVars, budget>>

\* [q] in the local TUI, or a crash, ends the process with all its clients;
\* the repository, the tracker and the agents' terminals outlive it.
ProcessRestart ==
    /\ budget.ends > 0
    /\ budget' = [budget EXCEPT !.ends = @ - 1]
    /\ active' = FALSE
    /\ slots' = [i \in Issues |-> NoSlot]
    /\ flight' = [c \in Clients |-> {}]
    /\ pollTicks' = [c \in Clients |-> 0]
    /\ labelTicks' = [c \in Clients |-> [i \in Issues |-> 0]]
    /\ prTicks' = [c \in Clients |-> [i \in Issues |-> 0]]
    /\ gate' = [c \in Clients |-> "open"]
    /\ pendingOp' = [c \in Clients |-> FALSE]
    /\ dropped' = {} /\ resumed' = {} /\ pollLost' = FALSE
    /\ UNCHANGED <<trackerVars, wts, agentVars>>

-----------------------------------------------------------------------------
(* The commands.  A command runs to its end whatever its client shows by    *)
(* then, and posts its message to that client.                              *)

Running(c, m, op) == m \in flight[c] /\ m.op = op

\* Client c's command m ends by posting res, and changes nothing else.
Answers(c, m, res) ==
    /\ Replace(c, m, {res})
    /\ UNCHANGED <<loopVars, timerVars, clientVars, trackerVars, wts, agentVars,
                   lossVars, budget>>

\* checkLabelsCmd: are the labels the workflow needs in the repository?
CheckLabels(c, m) ==
    /\ Running(c, m, "labelCheck")
    /\ \E res \in {"ok", "missing", "err"} :
          Answers(c, m, [op |-> "labelChecked", issue |-> NoIssue, res |-> res])

\* ensureLabelsCmd: create them.
EnsureLabels(c, m) ==
    /\ Running(c, m, "ensureLabels")
    /\ \E ok \in BOOLEAN :
          Answers(c, m, [op |-> "labelsEnsured", issue |-> NoIssue, ok |-> ok])

\* Bug for comparison: a dependency that is no longer todo counts as done.
DependenciesStarted(i) == \A d \in Deps[i] : ~IsTodo(d)

\* The dependency filter of loopPollCmd.
DependenciesDone(i) == Deps[i] \subseteq closed

\* loopPollCmd: the todo issues whose dependencies are all done.  A failed
\* GetIssue (unread) leaves the dependent issue out.
PollTodo(c, m, ok, unread) ==
    /\ Running(c, m, "poll")
    /\ LET todo == {i \in Issues : IsTodo(i) /\ DependenciesDone(i)}
       IN  /\ unread \subseteq {i \in todo : Deps[i] # {}}
           /\ Answers(c, m, [op |-> "polled", issue |-> NoIssue, ok |-> ok,
                             todo |-> IF ok THEN todo \ unread ELSE {}])

\* loopScanOpenPRsCmd: the open PRs and, where GetIssue answers, their labels.
ScanOpenPRs(c, m) ==
    /\ Running(c, m, "scanPRs")
    /\ \E ok \in BOOLEAN, unread \in SUBSET Issues :
          LET open == {i \in Issues : ok /\ prs[i] = "open"} IN
          /\ unread \subseteq open
          /\ Answers(c, m,
                 [op |-> "openPRs", issue |-> NoIssue, ok |-> ok, prs |-> open,
                  labels |-> [i \in Issues |->
                                IF i \in open \ unread THEN labels[i] ELSE {}]])

\* loopCleanupMergedCmd: leftover worktrees whose PR is merged go away and
\* their issues are closed; each removal and each closing may fail.
\* Bug for comparison: a PR that was closed unmerged is taken for finished, too.
FinishedWorktrees == {i \in wts : prs[i] \in {"merged", "closed"}}

LeftoverWorktrees == {i \in wts : prs[i] = "merged"}

CleanupMerged(c, m) ==
    /\ Running(c, m, "cleanupMerged")
    /\ \E removed, done \in SUBSET LeftoverWorktrees :
          /\ wts' = wts \ removed
          /\ closed' = closed \cup done
    /\ Replace(c, m, {})
    /\ UNCHANGED <<loopVars, timerVars, clientVars, labels, prs, agentVars, lossVars,
                   budget>>

\* loopCreateWorktreeCmd: the creations of one poll run one after another.
\* Create refuses at the limit and when the branch exists; when the hooks
\* cannot be deployed the worktree stays although the command fails.
CreateTurn(c, m) == \A o \in flight[c] : o.op = "create" => o.issue \notin m.after

CreateWorktree(c, m) ==
    /\ Running(c, m, "create")
    /\ CreateTurn(c, m)
    /\ \E made, ok \in BOOLEAN :
          /\ made => /\ m.issue \notin wts
                     /\ MaxPerProject > 0 => Cardinality(wts) < MaxPerProject
          /\ ok => made
          /\ wts' = IF made THEN wts \cup {m.issue} ELSE wts
          /\ Replace(c, m, {[op |-> "created", issue |-> m.issue, ok |-> ok]})
    /\ UNCHANGED <<loopVars, timerVars, clientVars, trackerVars, agentVars, lossVars,
                   budget>>

\* loopWriteAgentCmd and loopWriteRevisionAgentCmd: GetIssue, the prompt, the file.
WriteAgent(c, m) ==
    /\ Running(c, m, "write")
    /\ \E ok \in BOOLEAN :
          Answers(c, m, [op |-> "written", issue |-> m.issue, ok |-> ok])

\* loopLaunchCoderCmd and loopWriteAndLaunchReviewerCmd: a terminal opens in
\* the directory read when the command was made.
NumberFree(i, n) == \A a \in agents : a.issue = i => a.n # n

LaunchAgent(c, m) ==
    /\ Running(c, m, "launch")
    /\ \E ok \in BOOLEAN :
          /\ Replace(c, m, {[op |-> "launched", issue |-> m.issue, role |-> m.role,
                             ok |-> ok]})
          /\ IF ok
             THEN \E n \in 1..MaxAgents :
                     /\ NumberFree(m.issue, n)
                     /\ \A k \in 1..(n - 1) : ~NumberFree(m.issue, k)
                     /\ agents' = agents \cup
                           {[issue |-> m.issue, role |-> m.role, dir |-> m.dir,
                             n |-> n, began |-> FALSE]}
             ELSE UNCHANGED agents
    /\ UNCHANGED <<loopVars, timerVars, clientVars, trackerVars, wts, rejected,
                   lossVars, budget>>

\* loopPollLabelsCmd
PollLabels(c, m, ok) ==
    /\ Running(c, m, "pollLabels")
    /\ Answers(c, m, [op |-> "labels", issue |-> m.issue, ok |-> ok,
                      labels |-> IF ok THEN labels[m.issue] ELSE {}])

\* FindPRByBranch: the PR of a branch, "none" when there is none.
PRByBranch(branch) == IF branch = NoIssue THEN "none" ELSE prs[branch]

\* loopPollPRCmd
PollPR(c, m, ok) ==
    /\ Running(c, m, "pollPR")
    /\ Answers(c, m, [op |-> "prStatus", issue |-> m.issue, ok |-> ok,
                      pr |-> IF ok THEN PRByBranch(m.branch) ELSE "none"])

\* loopAutoMergeCmd, attempt 0: find the PR; a failed lookup is not retried.
LookUpPR(c, m) ==
    /\ Running(c, m, "merge") /\ m.attempt = 0
    /\ \/ /\ PRByBranch(m.branch) # "none"
          /\ Replace(c, m, {[m EXCEPT !.attempt = 1]})
       \/ \E kind \in {"permanent", "auth"} :
             Replace(c, m, {[op |-> "merged", issue |-> m.issue, kind |-> kind]})
    /\ UNCHANGED <<loopVars, timerVars, clientVars, trackerVars, wts, agentVars,
                   lossVars, budget>>

\* classifyMergeErr and the retry loop: what follows a failed attempt.
MaxAttempts == 3

AfterFailure(m, kind) ==
    IF kind = "transient" /\ m.attempt < MaxAttempts
    THEN [m EXCEPT !.attempt = @ + 1]
    ELSE [op |-> "merged", issue |-> m.issue,
          kind |-> IF kind = "transient" THEN "transient_exhausted" ELSE kind]

\* loopAutoMergeCmd, attempts 1 to 3.  The tracker merges only an open PR and
\* refuses any other for good; an answer that times out, or is lost with the
\* connection, leaves it unknown whether the merge was done.
TryMerge(c, m) ==
    /\ Running(c, m, "merge") /\ m.attempt > 0
    /\ \/ /\ PRByBranch(m.branch) = "open"
          /\ prs' = [prs EXCEPT ![m.branch] = "merged"]
          /\ \/ Replace(c, m, {[op |-> "merged", issue |-> m.issue, kind |-> ""]})
             \/ \E kind \in {"transient", "permanent"} :
                    Replace(c, m, {AfterFailure(m, kind)})
       \/ /\ \E kind \in {"permanent", "auth", "transient"} :
                Replace(c, m, {AfterFailure(m, kind)})
          /\ UNCHANGED prs
    /\ UNCHANGED <<loopVars, timerVars, clientVars, labels, closed, wts, agentVars,
                   lossVars, budget>>

\* loopCleanupCmd: remove the worktree, which may fail, and then ...
RemoveWorktree(c, m) ==
    /\ Running(c, m, "cleanup")
    /\ wts' \in {wts, wts \ {m.dir}}
    /\ Replace(c, m, {IssueCmd("close", m.issue)})
    /\ UNCHANGED <<loopVars, timerVars, clientVars, trackerVars, agentVars, lossVars,
                   budget>>

\* ... close the issue in any case, which may fail too.
CloseIssue(c, m) ==
    /\ Running(c, m, "close")
    /\ closed' \in {closed, closed \cup {m.issue}}
    /\ Replace(c, m, {[op |-> "cleaned", issue |-> m.issue]})
    /\ UNCHANGED <<loopVars, timerVars, clientVars, labels, prs, wts, agentVars,
                   lossVars, budget>>

RunCommand(c, m) ==
    \/ CheckLabels(c, m)
    \/ EnsureLabels(c, m)
    \/ \E ok \in BOOLEAN, unread \in SUBSET Issues : PollTodo(c, m, ok, unread)
    \/ ScanOpenPRs(c, m)
    \/ CleanupMerged(c, m)
    \/ CreateWorktree(c, m)
    \/ WriteAgent(c, m)
    \/ LaunchAgent(c, m)
    \/ \E ok \in BOOLEAN : PollLabels(c, m, ok)
    \/ \E ok \in BOOLEAN : PollPR(c, m, ok)
    \/ LookUpPR(c, m)
    \/ TryMerge(c, m)
    \/ RemoveWorktree(c, m)
    \/ CloseIssue(c, m)

-----------------------------------------------------------------------------
(* The message handlers.  An event loop hands a message to its handler only *)
(* while no overlay or dialog is open; the handler is one step.             *)

Delivered(c, m, op) == gate[c] = "open" /\ m \in flight[c] /\ m.op = op

\* What no message handler of the pipeline changes.
HandlerFrame ==
    UNCHANGED <<active, clientVars, trackerVars, wts, agentVars, pollLost, budget>>

\* The handler returns early: the message is gone and nothing else changes.
Ignored(c, m) ==
    /\ Replace(c, m, {})
    /\ UNCHANGED <<slots, timerVars, dropped, resumed>>

\* handleLabelCheckResult
HandleLabelCheck(c, m) ==
    /\ Delivered(c, m, "labelChecked")
    /\ \/ /\ m.res = "ok"
          /\ ExecutePendingOp(c, m)
       \/ /\ m.res = "missing"
          /\ gate' = [gate EXCEPT ![c] = "confirm"]
          /\ Replace(c, m, {})
          /\ UNCHANGED <<loopVars, timerVars, pendingOp, trackerVars, wts, agentVars,
                         lossVars, budget>>
       \/ /\ m.res = "err"
          /\ pendingOp' = [pendingOp EXCEPT ![c] = FALSE]
          /\ Replace(c, m, {})
          /\ UNCHANGED <<loopVars, timerVars, gate, trackerVars, wts, agentVars,
                         lossVars, budget>>

\* handleLabelsEnsured
HandleLabelsEnsured(c, m) ==
    /\ Delivered(c, m, "labelsEnsured")
    /\ \/ /\ m.ok
          /\ ExecutePendingOp(c, m)
       \/ /\ ~m.ok
          /\ pendingOp' = [pendingOp EXCEPT ![c] = FALSE]
          /\ Replace(c, m, {})
          /\ UNCHANGED <<loopVars, timerVars, gate, trackerVars, wts, agentVars,
                         lossVars, budget>>

\* Bugs for comparison: only the new slots are counted; the last place stays free.
AdmittedUncounted(todo) ==
    LET new == {i \in todo : ~HasSlot(i)}
    IN  {i \in new : Cardinality({j \in new : j > i}) < MaxPerProject}

AdmittedOneLess(todo) ==
    LET new == {i \in todo : ~HasSlot(i)}
    IN  {i \in new : SlotCount + Cardinality({j \in new : j > i}) + 1 < MaxPerProject}

\* handleLoopPoll goes through the issues newest first and stops at capacity.
Admitted(todo) ==
    LET new == {i \in todo : ~HasSlot(i)}
    IN  {i \in new : SlotCount + Cardinality({j \in new : j > i}) < MaxPerProject}

\* findLoopSlotFromWorktree: the worktrees whose branch name contains the ID.
MatchingWorktrees(i) == {j \in wts : <<j, i>> \in Contains}

ResumedSlot(j) == [state |-> "Coding", round |-> 0, branch |-> j, wt |-> j]
\* Bug for comparison: rounds counted from minus one.
FreshSlotMinusOne == [NoSlot EXCEPT !.state = "CreatingWorktree", !.round = -1]

FreshSlot == [NoSlot EXCEPT !.state = "CreatingWorktree"]

\* handleLoopPoll admits what the poll found todo; wtManager.List lists the
\* worktrees (listed) or fails, an error it ignores.
TakeTodo(c, m, listed) ==
    LET new      == Admitted(m.todo)
        leftover == {i \in new : listed /\ MatchingWorktrees(i) # {}}
        fresh    == new \ leftover
    IN  /\ \E found \in [leftover -> wts] :
              /\ \A i \in leftover : found[i] \in MatchingWorktrees(i)
              /\ slots' = [i \in Issues |->
                             IF i \in leftover THEN ResumedSlot(found[i])
                             ELSE IF i \in fresh THEN FreshSlot
                             ELSE slots[i]]
        /\ prTicks' = [prTicks EXCEPT ![c] =
                         [i \in Issues |-> IF i \in leftover THEN @[i] + 1
                                                             ELSE @[i]]]
        /\ Replace(c, m, {[op |-> "create", issue |-> i,
                           after |-> {j \in fresh : j > i}] : i \in fresh})
        /\ resumed' = (resumed \ new) \cup leftover
        /\ dropped' = dropped \ new
        /\ UNCHANGED <<pollTicks, labelTicks>>

HandlePolled(c, m) ==
    /\ Delivered(c, m, "polled")
    /\ \/ (~active \/ ~m.ok) /\ Ignored(c, m)
       \/ active /\ m.ok /\ \E listed \in BOOLEAN : TakeTodo(c, m, listed)
    /\ HandlerFrame

\* handleLoopWorktreeCreated
HandleCreated(c, m) ==
    /\ Delivered(c, m, "created")
    /\ \/ ~HasSlot(m.issue) /\ Ignored(c, m)
       \/ /\ HasSlot(m.issue)
          /\ IF m.ok
             THEN /\ slots' = [slots EXCEPT ![m.issue] =
                        [@ EXCEPT !.state = "WritingAgent", !.branch = m.issue,
                                  !.wt = m.issue]]
                  /\ Replace(c, m, {IssueCmd("write", m.issue)})
             ELSE /\ slots' = Moved(m.issue, "Error")
                  /\ Replace(c, m, {})
          /\ UNCHANGED <<timerVars, dropped, resumed>>
    /\ HandlerFrame

\* handleLoopAgentWritten
HandleWritten(c, m) ==
    /\ Delivered(c, m, "written")
    /\ \/ ~HasSlot(m.issue) /\ Ignored(c, m)
       \/ /\ HasSlot(m.issue)
          /\ IF m.ok
             THEN /\ slots' = Moved(m.issue, "LaunchingCoder")
                  /\ Replace(c, m, {LaunchCmd(m.issue, "coder")})
             ELSE /\ slots' = Moved(m.issue, "Error")
                  /\ Replace(c, m, {})
          /\ UNCHANGED <<timerVars, dropped, resumed>>
    /\ HandlerFrame

\* handleLoopAgentLaunched
HandleLaunched(c, m) ==
    /\ Delivered(c, m, "launched")
    /\ \/ ~HasSlot(m.issue) /\ Ignored(c, m)
       \/ /\ HasSlot(m.issue)
          /\ IF m.ok
             THEN /\ slots' = Moved(m.issue, IF m.role = "coder" THEN "Coding"
                                                                 ELSE "Reviewing")
                  /\ ScheduleLabel(c, m.issue)
             ELSE /\ slots' = Moved(m.issue, "Error")
                  /\ UNCHANGED labelTicks
          /\ Replace(c, m, {})
          /\ UNCHANGED <<pollTicks, prTicks, dropped, resumed>>
    /\ HandlerFrame

\* Bugs for comparison: the state is not moved on; a timer is set mid-chain.
ReviewRequestedAgain(c, m) ==
    /\ slots[m.issue].state = "Coding" /\ "review" \in m.labels
    /\ Replace(c, m, {LaunchCmd(m.issue, "reviewer")})
    /\ UNCHANGED <<slots, timerVars>>

ReviewRequestedMidChain(c, m) ==
    /\ slots[m.issue].state = "Coding" /\ "review" \in m.labels
    /\ slots' = Moved(m.issue, "LaunchingReviewer")
    /\ Replace(c, m, {LaunchCmd(m.issue, "reviewer")})
    /\ ScheduleLabel(c, m.issue)
    /\ UNCHANGED <<pollTicks, prTicks>>

\* The branches of handleLoopLabelPoll, one operator each.
ReviewRequested(c, m) ==
    /\ slots[m.issue].state = "Coding" /\ "review" \in m.labels
    /\ slots' = Moved(m.issue, "LaunchingReviewer")
    /\ Replace(c, m, {LaunchCmd(m.issue, "reviewer")})
    /\ UNCHANGED timerVars

ReviewPassed(c, m) ==
    /\ slots[m.issue].state = "Reviewing" /\ "ai-review" \in m.labels
    /\ \E auto \in AutoMerge :
          IF auto
          THEN /\ slots' = Moved(m.issue, "AutoMerging")
               /\ Replace(c, m, {MergeCmd(m.issue)})
               /\ UNCHANGED timerVars
          ELSE /\ slots' = Moved(m.issue, "WaitingPRMerge")
               /\ Replace(c, m, {})
               /\ SchedulePR(c, m.issue)
               /\ UNCHANGED <<pollTicks, labelTicks>>

\* Bug for comparison: one round too few.
RoundsExhaustedEarly(i) == slots[i].round + 1 >= MaxReviewRounds

RoundsExhausted(i) == slots[i].round >= MaxReviewRounds

NextRound(s) == [s EXCEPT !.state = "WritingAgent", !.round = @ + 1]

ChangesNeeded(c, m) ==
    /\ slots[m.issue].state = "Reviewing"
    /\ "needs-changes" \in m.labels /\ "ai-review" \notin m.labels
    /\ IF RoundsExhausted(m.issue)
       THEN /\ slots' = Moved(m.issue, "NeedsHuman")
            /\ Replace(c, m, {})
       ELSE /\ slots' = [slots EXCEPT ![m.issue] = NextRound(@)]
            /\ Replace(c, m, {IssueCmd("write", m.issue)})
    /\ UNCHANGED timerVars

\* handleLoopLabelPoll
HandleLabels(c, m) ==
    /\ Delivered(c, m, "labels")
    /\ \/ /\ m.ok
          /\ \/ ReviewRequested(c, m) \/ ReviewPassed(c, m) \/ ChangesNeeded(c, m)
          /\ UNCHANGED <<dropped, resumed>>
       \/ /\ \/ ~m.ok
             \/ slots[m.issue].state \notin {"Coding", "Reviewing"}
             \/ slots[m.issue].state = "Coding" /\ "review" \notin m.labels
             \/ /\ slots[m.issue].state = "Reviewing"
                /\ m.labels \cap {"ai-review", "needs-changes"} = {}
          /\ Ignored(c, m)
    /\ HandlerFrame

\* handleLoopPRStatus
HandlePRStatus(c, m) ==
    /\ Delivered(c, m, "prStatus")
    /\ \/ /\ \/ slots[m.issue].state # "WaitingPRMerge" \/ ~m.ok
             \/ m.pr \in {"none", "open"}
          /\ Ignored(c, m)
       \/ /\ slots[m.issue].state = "WaitingPRMerge" /\ m.ok
          /\ \/ /\ m.pr = "merged"
                /\ slots' = Moved(m.issue, "CleaningUp")
                /\ Replace(c, m, {CleanupCmd(m.issue)})
             \/ /\ m.pr = "closed"
                /\ slots' = Moved(m.issue, "Error")
                /\ Replace(c, m, {})
          /\ UNCHANGED <<timerVars, dropped, resumed>>
    /\ HandlerFrame

\* handleLoopAutoMerge
HandleMerged(c, m) ==
    /\ Delivered(c, m, "merged")
    /\ \/ slots[m.issue].state # "AutoMerging" /\ Ignored(c, m)
       \/ /\ slots[m.issue].state = "AutoMerging"
          /\ \/ /\ m.kind = ""
                /\ slots' = Moved(m.issue, "CleaningUp")
                /\ Replace(c, m, {CleanupCmd(m.issue)})
             \/ /\ m.kind \in {"transient_exhausted", "permanent"}
                /\ slots' = Moved(m.issue, "NeedsHuman")
                /\ Replace(c, m, {})
             \/ /\ m.kind = "auth"
                /\ slots' = Moved(m.issue, "Error")
                /\ Replace(c, m, {})
          /\ UNCHANGED <<timerVars, dropped, resumed>>
    /\ HandlerFrame

\* handleLoopCleanup drops the slot, whatever state it is in.
HandleCleaned(c, m) ==
    /\ Delivered(c, m, "cleaned")
    /\ slots' = [slots EXCEPT ![m.issue] = NoSlot]
    /\ dropped' = dropped \ {m.issue}
    /\ resumed' = resumed \ {m.issue}
    /\ Replace(c, m, {})
    /\ UNCHANGED timerVars
    /\ HandlerFrame

\* Where handleLoopOpenPRs takes up an issue whose PR is open, by its labels.
ResumeState(ls) ==
    IF "needs-changes" \in ls THEN "WritingAgent"
    ELSE IF "review" \in ls THEN "LaunchingReviewer"
    ELSE IF "wip" \in ls THEN "Coding"
    ELSE "WaitingPRMerge"

PRSlot(i, ls, listed) ==
    [state |-> ResumeState(ls), round |-> IF "needs-changes" \in ls THEN 1 ELSE 0,
     branch |-> i, wt |-> IF listed /\ i \in wts THEN i ELSE NoIssue]

\* handleLoopOpenPRs: a slot for every open PR that has none, at capacity or
\* not, in its worktree if they are listed.
TakeOpenPRs(c, m, listed) ==
    LET new      == {i \in m.prs : ~HasSlot(i)}
        taken(s) == {i \in new : ResumeState(m.labels[i]) = s}
    IN  /\ slots' = [i \in Issues |-> IF i \in new THEN PRSlot(i, m.labels[i], listed)
                                                   ELSE slots[i]]
        /\ Replace(c, m,
               {IssueCmd("write", i) : i \in taken("WritingAgent")} \cup
               {[op |-> "launch", issue |-> i, role |-> "reviewer",
                 dir |-> PRSlot(i, m.labels[i], listed).wt] :
                    i \in taken("LaunchingReviewer")})
        /\ labelTicks' = [labelTicks EXCEPT ![c] =
               [i \in Issues |-> IF i \in taken("Coding") THEN @[i] + 1 ELSE @[i]]]
        /\ prTicks' = [prTicks EXCEPT ![c] =
               [i \in Issues |-> IF i \in taken("WaitingPRMerge") THEN @[i] + 1
                                                                  ELSE @[i]]]
        /\ dropped' = dropped \ new
        /\ resumed' = resumed \ new
        /\ UNCHANGED pollTicks

HandleOpenPRs(c, m) ==
    /\ Delivered(c, m, "openPRs")
    /\ \/ (~active \/ ~m.ok) /\ Ignored(c, m)
       \/ active /\ m.ok /\ \E listed \in BOOLEAN : TakeOpenPRs(c, m, listed)
    /\ HandlerFrame

HandleMessage(c, m) ==
    \/ HandleLabelCheck(c, m)
    \/ HandleLabelsEnsured(c, m)
    \/ HandlePolled(c, m)
    \/ HandleOpenPRs(c, m)
    \/ HandleCreated(c, m)
    \/ HandleWritten(c, m)
    \/ HandleLaunched(c, m)
    \/ HandleLabels(c, m)
    \/ HandlePRStatus(c, m)
    \/ HandleMerged(c, m)
    \/ HandleCleaned(c, m)

-----------------------------------------------------------------------------
(* The heartbeats.  A timer that fires polls and sets itself again while    *)
(* the state it serves lasts, and else ends its chain.  MaxPolls bounds the *)
(* requests of one kind in flight.                                          *)

TickFrame ==
    UNCHANGED <<loopVars, clientVars, trackerVars, wts, agentVars, lossVars, budget>>

\* Client c asks for poll cmd; ops are the poll and its answer.
Request(c, cmd, ops) ==
    /\ InFlight(c, ops, cmd.issue) < MaxPolls
    /\ flight' = [flight EXCEPT ![c] = @ \cup {cmd}]

\* handleLoopPollTick
PollTick(c) ==
    /\ gate[c] = "open" /\ pollTicks[c] > 0
    /\ IF active
       THEN Request(c, Cmd("poll"), {"poll", "polled"}) /\ UNCHANGED pollTicks
       ELSE pollTicks' = [pollTicks EXCEPT ![c] = @ - 1] /\ UNCHANGED flight
    /\ UNCHANGED <<labelTicks, prTicks>>
    /\ TickFrame

\* Bugs for comparison: the gate forgets one of the two states.
LabelTickKeepsCoding(i)    == active /\ slots[i].state = "Coding"
LabelTickKeepsReviewing(i) == active /\ slots[i].state = "Reviewing"

\* handleLoopLabelPollTick
LabelTickKeeps(i) == active /\ slots[i].state \in {"Coding", "Reviewing"}

LabelTick(c, i) ==
    /\ gate[c] = "open" /\ labelTicks[c][i] > 0
    /\ IF LabelTickKeeps(i)
       THEN /\ Request(c, IssueCmd("pollLabels", i), {"pollLabels", "labels"})
            /\ UNCHANGED labelTicks
       ELSE /\ labelTicks' = [labelTicks EXCEPT ![c][i] = @ - 1]
            /\ UNCHANGED flight
    /\ UNCHANGED <<pollTicks, prTicks>>
    /\ TickFrame

\* Bug for comparison: the gate asks for the state the slot was resumed in.
PRTickKeepsCoding(i) == active /\ slots[i].state = "Coding"

\* handleLoopPRPollTick
PRTickKeeps(i) == active /\ slots[i].state = "WaitingPRMerge"

PRTick(c, i) ==
    /\ gate[c] = "open" /\ prTicks[c][i] > 0
    /\ IF PRTickKeeps(i)
       THEN /\ Request(c, PollPRCmd(i), {"pollPR", "prStatus"})
            /\ UNCHANGED prTicks
       ELSE /\ prTicks' = [prTicks EXCEPT ![c][i] = @ - 1]
            /\ UNCHANGED flight
    /\ UNCHANGED <<pollTicks, labelTicks>>
    /\ TickFrame

-----------------------------------------------------------------------------
(* An overlay or a dialog swallows every message and every loop timer that  *)
(* arrives meanwhile; a program that ended reads none.                      *)

DropFrame == UNCHANGED <<loopVars, clientVars, trackerVars, wts, agentVars, budget>>

\* Messages a slot cannot go on without.
StepResult == {"created", "written", "launched", "merged", "cleaned"}

DropMessage(c, m) ==
    /\ gate[c] # "open"
    /\ m \in flight[c] /\ m.op \notin CommandOp
    /\ Replace(c, m, {})
    /\ dropped' = IF m.op \in StepResult /\ HasSlot(m.issue) THEN dropped \cup {m.issue}
                                                             ELSE dropped
    /\ UNCHANGED <<timerVars, resumed, pollLost>>
    /\ DropFrame

DropPollTick(c) ==
    /\ gate[c] # "open" /\ pollTicks[c] > 0
    /\ pollTicks' = [pollTicks EXCEPT ![c] = @ - 1]
    /\ pollLost' = (pollLost \/ active)
    /\ UNCHANGED <<flight, labelTicks, prTicks, dropped, resumed>>
    /\ DropFrame

DropLabelTick(c, i) ==
    /\ gate[c] # "open" /\ labelTicks[c][i] > 0
    /\ labelTicks' = [labelTicks EXCEPT ![c][i] = @ - 1]
    /\ dropped' = IF LabelTickKeeps(i) THEN dropped \cup {i} ELSE dropped
    /\ UNCHANGED <<flight, pollTicks, prTicks, resumed, pollLost>>
    /\ DropFrame

DropPRTick(c, i) ==
    /\ gate[c] # "open" /\ prTicks[c][i] > 0
    /\ prTicks' = [prTicks EXCEPT ![c][i] = @ - 1]
    /\ dropped' = IF PRTickKeeps(i) THEN dropped \cup {i} ELSE dropped
    /\ UNCHANGED <<flight, pollTicks, labelTicks, resumed, pollLost>>
    /\ DropFrame

-----------------------------------------------------------------------------
(* The agents and the people at the tracker.                                *)

AgentFrame ==
    UNCHANGED <<loopVars, flight, timerVars, clientVars, wts, lossVars, budget>>

\* An agent takes minutes, a request seconds: unless SlowPolls, what a client
\* asked the tracker before an act of an agent is answered and handled by then.
TrackerReads == {"pollLabels", "labels", "scanPRs", "openPRs", "poll", "polled"}

Settled(i) ==
    SlowPolls \/ \A c \in Clients : \A m \in flight[c] :
                     m.op \in TrackerReads => m.issue \notin {i, NoIssue}

Relabelled(i, old, new) == labels' = [labels EXCEPT ![i] = (@ \ old) \cup {new}]

\* The coder takes the issue: "todo" or "needs-changes" becomes "wip".
CoderBegins(a) ==
    /\ a \in agents /\ a.role = "coder" /\ ~a.began
    /\ Settled(a.issue)
    /\ agents' = (agents \ {a}) \cup {[a EXCEPT !.began = TRUE]}
    /\ Relabelled(a.issue, {"todo", "needs-changes"}, "wip")
    /\ UNCHANGED <<closed, prs, rejected>>
    /\ AgentFrame

\* It opens a PR, unless its branch has one, ...
CoderOpensPR(a) ==
    /\ a \in agents /\ a.role = "coder" /\ a.began
    /\ prs[a.issue] = "none"
    /\ prs' = [prs EXCEPT ![a.issue] = "open"]
    /\ UNCHANGED <<agents, labels, closed, rejected>>
    /\ AgentFrame

\* ... and hands over to the reviewer: "wip" becomes "review".
CoderFinishes(a) ==
    /\ a \in agents /\ a.role = "coder" /\ a.began
    /\ prs[a.issue] # "none"
    /\ Settled(a.issue)
    /\ agents' = agents \ {a}
    /\ Relabelled(a.issue, {"wip"}, "review")
    /\ UNCHANGED <<closed, prs, rejected>>
    /\ AgentFrame

\* The reviewer's verdict: "review" becomes "ai-review" or "needs-changes".
ReviewerPasses(a) ==
    /\ a \in agents /\ a.role = "reviewer"
    /\ Settled(a.issue)
    /\ agents' = agents \ {a}
    /\ Relabelled(a.issue, {"review"}, "ai-review")
    /\ UNCHANGED <<closed, prs, rejected>>
    /\ AgentFrame

ReviewerRejects(a) ==
    /\ a \in agents /\ a.role = "reviewer"
    /\ Settled(a.issue)
    /\ rejected[a.issue] < MaxRejects
    /\ rejected' = [rejected EXCEPT ![a.issue] = @ + 1]
    /\ agents' = agents \ {a}
    /\ Relabelled(a.issue, {"review"}, "needs-changes")
    /\ UNCHANGED <<closed, prs>>
    /\ AgentFrame

\* Its user closes the agent's terminal.
AgentDies(a) ==
    /\ a \in agents
    /\ agents' = agents \ {a}
    /\ UNCHANGED <<trackerVars, rejected>>
    /\ AgentFrame

\* A person confirms an issue, merges its PR, or closes the PR unmerged.
HumanConfirms(i) ==
    /\ labels[i] = {"pending"}
    /\ labels' = [labels EXCEPT ![i] = {"todo"}]
    /\ UNCHANGED <<agents, closed, prs, rejected>>
    /\ AgentFrame

HumanMerges(i) ==
    /\ prs[i] = "open"
    /\ prs' = [prs EXCEPT ![i] = "merged"]
    /\ UNCHANGED <<agents, labels, closed, rejected>>
    /\ AgentFrame

HumanClosesPR(i) ==
    /\ prs[i] = "open"
    /\ prs' = [prs EXCEPT ![i] = "closed"]
    /\ UNCHANGED <<agents, labels, closed, rejected>>
    /\ AgentFrame

AgentActs(a) ==
    \/ CoderBegins(a) \/ CoderOpensPR(a) \/ CoderFinishes(a)
    \/ ReviewerPasses(a) \/ ReviewerRejects(a) \/ AgentDies(a)

HumanActs(i) == HumanConfirms(i) \/ HumanMerges(i) \/ HumanClosesPR(i)

UserActs(c) ==
    \/ StopLoop(c) \/ PressStart(c) \/ ConfirmLabels(c)
    \/ ShowOverlay(c) \/ DismissOverlay(c) \/ RemoteQuit(c)

-----------------------------------------------------------------------------
Next ==
    \/ \E c \in Clients :
          \/ UserActs(c)
          \/ \E m \in flight[c] : RunCommand(c, m) \/ HandleMessage(c, m) \/ DropMessage(c, m)
          \/ PollTick(c) \/ DropPollTick(c)
          \/ \E i \in Issues : \/ LabelTick(c, i) \/ PRTick(c, i)
                               \/ DropLabelTick(c, i) \/ DropPRTick(c, i)
    \/ ProcessRestart
    \/ \E a \in agents : AgentActs(a)
    \/ \E i \in Issues : HumanActs(i)

Spec == Init /\ [][Next]_vars

(***************************************************************************)
(* Fairness.  The Go runtime runs every goroutine, timers fire and an open *)
(* event loop handles what it receives; a request that is repeated for     *)
(* ever is answered again and again.  Nothing is assumed of agents, people *)
(* or overlays.                                                            *)
(***************************************************************************)
AnsweredPoll(c, op, i) ==
    \E m \in flight[c] :
        /\ m.issue = i
        /\ \/ op = "poll"       /\ PollTodo(c, m, TRUE, {})
           \/ op = "pollLabels" /\ PollLabels(c, m, TRUE)
           \/ op = "pollPR"     /\ PollPR(c, m, TRUE)

Fairness ==
    /\ \A c \in Clients :
          /\ WF_vars(\E m \in flight[c] : m.issue = NoIssue /\ RunCommand(c, m))
          /\ WF_vars(\E m \in flight[c] : m.issue = NoIssue /\ HandleMessage(c, m))
          /\ WF_vars(PollTick(c))
          /\ SF_vars(AnsweredPoll(c, "poll", NoIssue))
    /\ \A c \in Clients, i \in Issues :
          /\ WF_vars(\E m \in flight[c] : m.issue = i /\ RunCommand(c, m))
          /\ WF_vars(\E m \in flight[c] : m.issue = i /\ HandleMessage(c, m))
          /\ WF_vars(LabelTick(c, i)) /\ WF_vars(PRTick(c, i))
          /\ SF_vars(AnsweredPoll(c, "pollLabels", i))
          /\ SF_vars(AnsweredPoll(c, "pollPR", i))

FairSpec == Spec /\ Fairness

-----------------------------------------------------------------------------
(* Properties. *)

\* The variables have the types their declarations in the code give them.
TypeOK ==
    /\ active \in BOOLEAN
    /\ slots \in [Issues -> Slot]
    /\ flight \in [Clients -> SUBSET (Command \cup Message)]
    /\ pollTicks \in [Clients -> Nat]
    /\ labelTicks \in [Clients -> [Issues -> Nat]]
    /\ prTicks \in [Clients -> [Issues -> Nat]]
    /\ gate \in [Clients -> {"open", "overlay", "confirm", "gone"}]
    /\ pendingOp \in [Clients -> BOOLEAN]
    /\ labels \in [Issues -> SUBSET Label]
    /\ closed \subseteq Issues
    /\ prs \in [Issues -> PRState]
    /\ wts \subseteq Issues
    /\ agents \subseteq Agent
    /\ rejected \in [Issues -> Nat]
    /\ dropped \subseteq Issues
    /\ resumed \subseteq Issues
    /\ pollLost \in BOOLEAN
    /\ budget \in [starts : Nat, overlays : Nat, ends : Nat]

\* Some client runs a command, or has yet to handle a message, of these kinds.
Pending(ops, i) == \E c \in Clients : \E m \in flight[c] : m.op \in ops /\ m.issue = i

\* What will move the slot of issue i on from the state it is in.
Continues(i) ==
    LET s == slots[i].state IN
    /\ s = "CreatingWorktree" => Pending({"create", "created"}, i)
    /\ s = "WritingAgent" => Pending({"write", "written"}, i)
    /\ s \in {"LaunchingCoder", "LaunchingReviewer"} => Pending({"launch", "launched"}, i)
    /\ s \in {"Coding", "Reviewing"} => \E c \in Clients : labelTicks[c][i] > 0
    /\ s = "WaitingPRMerge" => \E c \in Clients : prTicks[c][i] > 0
    /\ s = "AutoMerging" => Pending({"merge", "merged"}, i)
    /\ s = "CleaningUp" => Pending({"cleanup", "close", "cleaned"}, i)

\* Doc 07 section 7.5: no early return, failed request or stale message ends a
\* heartbeat.  While the loop runs the todo poll has a timer set, and every slot
\* short of NeedsHuman and Error has the command, message or timer that moves it
\* on.  The exceptions are the ways out of the design the model records: a
\* message or timer that met a closed gate, and a resumed worktree.
HeartbeatPreserved ==
    active => /\ pollLost \/ \E c \in Clients : pollTicks[c] > 0
              /\ \A i \in Issues \ (dropped \cup resumed) : HasSlot(i) => Continues(i)

\* findLoopSlotFromWorktree says of the slot it returns "will poll for PR": a slot
\* made from a leftover worktree, too, has at least some timer, command or message
\* left that could move it on.
EverySlotContinues ==
    active => \A i \in Issues \ dropped :
                 \/ slots[i].state \in {"None", "NeedsHuman", "Error"}
                 \/ \E c \in Clients : labelTicks[c][i] + prTicks[c][i] > 0
                 \/ Pending(CommandOp \cup StepResult, i)

\* loopPollCmd's filter: a slot, and an agent at work, only for an issue whose
\* DEPENDS_ON issues were all closed and, the loop closing issues only after the
\* merge, have their code merged.
DependenciesMerged ==
    \A i \in Issues :
        HasSlot(i) \/ (\E a \in agents : a.issue = i)
            => \A d \in Deps[i] : d \in closed /\ prs[d] = "merged"

\* worktree.max_per_project bounds the issues in the pipeline at once.
CapacityRespected == SlotCount <= MaxPerProject

\* The coder and the reviewer of an issue, or two of either, never work at once.
OneAgentPerIssue == \A a, b \in agents : a.issue = b.issue => a = b

\* Every revision round answers a verdict of its own, and the loop gives an issue
\* up to a person only after more verdicts against it than there are rounds, or
\* after a failed auto-merge of work that passed the review.
EscalationEarned ==
    \A i \in Issues :
        /\ slots[i].round <= rejected[i]
        /\ slots[i].state = "NeedsHuman" =>
              rejected[i] > MaxReviewRounds \/ "ai-review" \in labels[i]

\* Worktrees are removed with --force and branches with -D: that, and closing the
\* issue, may happen only once the work is merged.
WorkKeptUntilMerged ==
    [][\A i \in Issues : i \in (wts \ wts') \cup (closed' \ closed) => prs[i] = "merged"]_vars

\* Relaunching an agent starts a label heartbeat beside the one still ticking,
\* but never more of them than the agents the verdicts so far account for.
LabelChains(i) ==
    Cardinality(UNION {{c} \X (1..labelTicks[c][i]) : c \in Clients})

LabelChainsBounded == \A i \in Issues : LabelChains(i) <= 2 * (rejected[i] + 1)

\* What the loop does again, gives up or lets tick is accounted for by verdicts.
VerdictsAccount == EscalationEarned /\ LabelChainsBounded

\* Doc 07 section 7.4: "each agent runs in its own worktree".
AgentInOwnWorktree == \A a \in agents : a.dir = a.issue

\* "checks if a worktree with matching issue ID already exists": a slot that is made
\* from a worktree is made from that of its issue, and no two slots share one.
SlotInOwnWorktree == \A i \in Issues : slots[i].wt \in {0, i}

\* A "review" label set while the slot is Coding is seen: the slot moves on.
ReviewIsPickedUp ==
    \A i \in Issues :
        (active /\ slots[i].state = "Coding" /\ "review" \in labels[i])
            ~> (slots[i].state # "Coding" \/ "review" \notin labels[i])

\* A PR merged while its slot waits for that is noticed, and the slot freed.
MergeIsNoticed ==
    \A i \in Issues :
        (active /\ slots[i].state = "WaitingPRMerge" /\ prs[i] = "merged")
            ~> ~HasSlot(i)

\* An issue that is todo, whose dependencies are closed, gets a slot as long as
\* the loop runs and has room.
TodoIsDispatched ==
    \A i \in Issues :
        []<>(~active \/ ~IsTodo(i) \/ ~DependenciesDone(i) \/ HasSlot(i)
             \/ SlotCount >= MaxPerProject)

=============================================================================
