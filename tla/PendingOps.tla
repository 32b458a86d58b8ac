----------------------------- MODULE PendingOps -----------------------------
(***************************************************************************)
(* The operations of one client that wait for something: the label check   *)
(* in front of them, the dialogs they open, the project or the issue they  *)
(* are about (internal/tui/tracker_ops.go, confirm.go, model.go).  What an *)
(* operation then does is its own component; here it is recorded in acts.  *)
(* An issue is its number: the issues of a project are 1..Issues.          *)
(***************************************************************************)
EXTENDS Naturals, Sequences, FiniteSets, SequencesExt

CONSTANTS
    Order,          \* the projects, in the order of the config
    None,
    Issues,
    Kinds,          \* the operations behind a label check that are used
    MaxPresses,     \* bound: operations asked for
    MaxVisits,      \* bound: visits to the status page
    MaxReloads,     \* bound: configs taken over
    MaxDeletions    \* bound: labels and agent files deleted from outside

PendingAssumption ==
    /\ Order \in Seq(Range(Order)) /\ IsInjective(Order) /\ None \notin Range(Order)
    /\ {Issues, MaxPresses, MaxVisits, MaxReloads, MaxDeletions} \subseteq Nat
    /\ Kinds \subseteq {"clarify", "review", "loop"}

Known == Range(Order)
NoOp == [kind |-> "none", asked |-> None, index |-> 0, press |-> 0]

VARIABLES
    projects,   \* AppState.projects
    cursor, view, statusProject, statusCursor,
    shown,      \* statusIssues: their statuses as loaded; <<>> while loading
    pending,    \* pendingOp, and the press it belongs to
    flight,     \* commands and their answers
    dialog,     \* confirmForm: what it is about, with what confirmAction kept
    ended,      \* has the program ended by an index out of range?
    labels,     \* projects whose labels are complete
    agents,     \* <<kind, project>>: agent files there
    todo,       \* <<project, issue>> moved to todo
    acts,       \* history: operations executed
    cleared,    \* history: presses whose labels were found or made complete
    agreed,     \* history: issues named in a dialog that was answered yes
    hasty,      \* history: did a key come while a command or a pending operation was on its way?
    used

screen == <<cursor, view, statusProject, statusCursor, shown>>
outside == <<projects, labels, agents, todo>>
history == <<acts, cleared, agreed, used>>
vars == <<screen, outside, history, pending, flight, dialog, ended, hasty>>

Init ==
    /\ projects = Order /\ cursor = 1 /\ view = "projects"
    /\ statusProject = None /\ statusCursor = 1 /\ shown = <<>>
    /\ pending = NoOp /\ flight = {} /\ dialog = NoOp /\ ended = FALSE
    /\ labels \in SUBSET Known
    /\ agents \in {{}, {"clarify", "review"} \X Known}
    /\ todo = {} /\ acts = <<>> /\ cleared = {} /\ agreed = {} /\ hasty = FALSE
    /\ used = [presses |-> 0, visits |-> 0, reloads |-> 0, deletions |-> 0]

-----------------------------------------------------------------------------
(* Keys; a dialog takes them while it is open *)

Idle == ~ended /\ dialog = NoOp
Selected == IF cursor <= Len(projects) THEN projects[cursor] ELSE None

Keys ==
    /\ Idle /\ hasty' = (hasty \/ pending # NoOp \/ flight # {})
    /\ UNCHANGED <<outside, ended, acts, cleared, agreed>>

MoveCursor(n) ==
    /\ Keys /\ view = "projects" /\ n \in 1..Len(projects) /\ n \in {cursor - 1, cursor + 1}
    /\ cursor' = n
    /\ UNCHANGED <<view, statusProject, statusCursor, shown, pending, flight, dialog, used>>
MoveStatusCursor(n) ==
    /\ Keys /\ view = "status" /\ n \in 1..Len(shown) /\ n \in {statusCursor - 1, statusCursor + 1}
    /\ statusCursor' = n
    /\ UNCHANGED <<cursor, view, statusProject, shown, pending, flight, dialog, used>>
Status ==
    /\ Keys /\ view = "projects" /\ Selected # None
    /\ used.visits < MaxVisits /\ used' = [used EXCEPT !.visits = @ + 1]
    /\ view' = "status" /\ statusProject' = Selected /\ statusCursor' = 1 /\ shown' = <<>>
    /\ flight' = flight \cup {[op |-> "load", project |-> Selected, at |-> "asked"]}
    /\ UNCHANGED <<cursor, pending, dialog>>
Back ==
    /\ Keys /\ view = "status" /\ view' = "projects"
    /\ UNCHANGED <<cursor, statusProject, statusCursor, shown, pending, flight, dialog, used>>

Ask(kind, p, index) ==
    LET press == used.presses + 1
    IN  /\ used.presses < MaxPresses /\ used' = [used EXCEPT !.presses = press]
        /\ pending' = [kind |-> kind, asked |-> p, index |-> index, press |-> press]
        /\ flight' = flight \cup {[op |-> "check", project |-> p, press |-> press, at |-> "asked"]}
\* [c], [r], [l]: startWithLabelCheck
Press(kind) ==
    /\ Keys /\ view = "projects" /\ Selected # None
    /\ Ask(kind, Selected, cursor)
    /\ UNCHANGED <<screen, dialog>>
\* [y]
PressConfirm ==
    /\ Keys /\ view = "status" /\ statusCursor <= Len(shown) /\ shown[statusCursor] = "pending"
    /\ statusProject \in Range(projects)
    /\ Ask("confirm", statusProject, statusCursor)
    /\ UNCHANGED <<screen, dialog>>
\* [d] and [u] ask at once: the one keeps the index, the other the project.
PressDeploy(kind) ==
    /\ Keys /\ view = "projects" /\ Selected # None
    /\ used.presses < MaxPresses /\ used' = [used EXCEPT !.presses = @ + 1]
    /\ dialog' = [kind |-> kind, asked |-> Selected, index |-> cursor, press |-> used.presses + 1]
    /\ UNCHANGED <<screen, pending, flight>>

-----------------------------------------------------------------------------
(* Execution *)

Act(op, p) == Append(acts, [op |-> op, project |-> p])

\* Bug for comparison: the project under the cursor by now.
OnCursor(op) ==
    IF cursor > Len(projects)
    THEN ended' = TRUE /\ UNCHANGED acts
    ELSE acts' = Act(op, projects[cursor]) /\ UNCHANGED ended
\* An operation upon projects[index], read when it is executed.
OnIndex(op) ==
    IF op.index > Len(projects)
    THEN ended' = TRUE /\ UNCHANGED acts
    ELSE acts' = Act(op, projects[op.index]) /\ UNCHANGED ended

\* Bug for comparison: the first issue of the list.
FirstIssueDialog(op) ==
    [kind |-> "issue", asked |-> op.asked, index |-> op.index, press |-> op.press,
     project |-> statusProject, issue |-> 1, status |-> shown[1]]
\* The dialog names the issue under the cursor, and keeps the screen.
IssueDialog(op) ==
    [kind |-> "issue", asked |-> op.asked, index |-> op.index, press |-> op.press,
     project |-> statusProject, issue |-> statusCursor, status |-> shown[statusCursor]]
ExecuteConfirm(op) ==
    /\ dialog' = IF statusCursor <= Len(shown) THEN IssueDialog(op) ELSE dialog
    /\ UNCHANGED <<cursor, acts, ended>>

ExecuteAgent(op) ==
    /\ cursor' = op.index
    /\ IF op.index <= Len(projects) /\ <<op.kind, projects[op.index]>> \notin agents
       THEN dialog' = op /\ UNCHANGED <<acts, ended>>
       ELSE OnIndex(op) /\ UNCHANGED dialog

\* Bug for comparison: the operation is still pending when it has been executed.
ExecuteKept(kind) ==
    /\ pending.kind = kind
    /\ \/ kind = "none" /\ UNCHANGED <<cursor, dialog, acts, ended>>
       \/ kind \in {"clarify", "review"} /\ ExecuteAgent(pending)
       \/ kind = "loop" /\ OnIndex(pending) /\ UNCHANGED <<cursor, dialog>>
       \/ kind = "confirm" /\ ExecuteConfirm(pending)
    /\ UNCHANGED <<view, statusProject, statusCursor, shown, pending>>
\* executePendingOp
ExecutePendingOp(kind) ==
    /\ pending.kind = kind
    /\ \/ kind = "none" /\ UNCHANGED <<cursor, dialog, acts, ended>>
       \/ kind \in {"clarify", "review"} /\ ExecuteAgent(pending)
       \/ kind = "loop" /\ OnIndex(pending) /\ UNCHANGED <<cursor, dialog>>
       \/ kind = "confirm" /\ ExecuteConfirm(pending)
    /\ pending' = NoOp
    /\ UNCHANGED <<view, statusProject, statusCursor, shown>>
AllKinds == Kinds \cup {"none", "confirm"}

-----------------------------------------------------------------------------
(* Commands *)

Step(m, n) == flight' = (flight \ {m}) \cup {n}

CheckLabels(m) ==
    /\ m.op = "check" /\ m.at = "asked"
    /\ \E answer \in {"error", IF m.project \in labels THEN "ready" ELSE "missing"} :
          Step(m, [m EXCEPT !.at = answer])
    /\ UNCHANGED <<screen, outside, history, pending, dialog, ended>>
EnsureLabels(m) ==
    /\ m.op = "ensure" /\ m.at = "asked"
    /\ \/ labels' = labels \cup {m.project} /\ Step(m, [m EXCEPT !.at = "ready"])
       \/ Step(m, [m EXCEPT !.at = "error"]) /\ UNCHANGED labels
    /\ UNCHANGED <<screen, projects, agents, todo, history, pending, dialog, ended>>
LoadIssues(m) ==
    /\ m.op = "load" /\ m.at = "asked"
    /\ LET found == [i \in 1..Issues |-> IF <<m.project, i>> \in todo THEN "todo" ELSE "pending"]
       IN  \E answer \in {"ready", "error"} :
              Step(m, [op |-> "load", project |-> m.project, at |-> answer, list |-> found])
    /\ UNCHANGED <<screen, outside, history, pending, dialog, ended>>
\* Bug for comparison: the issue is looked up when the command runs.
UpdateLabelsLive(m) ==
    /\ m.op = "confirm" /\ m.at = "asked"
    /\ todo' = todo \cup {<<statusProject, statusCursor>>}
    /\ Step(m, [m EXCEPT !.at = "ready"])
    /\ UNCHANGED <<screen, projects, labels, agents, history, pending, dialog, ended>>
\* confirmIssueCmd
UpdateLabels(m) ==
    /\ m.op = "confirm" /\ m.at = "asked"
    /\ \/ todo' = todo \cup {<<m.project, m.issue>>} /\ Step(m, [m EXCEPT !.at = "ready"])
       \/ Step(m, [m EXCEPT !.at = "error"]) /\ UNCHANGED todo
    /\ UNCHANGED <<screen, projects, labels, agents, history, pending, dialog, ended>>

-----------------------------------------------------------------------------
(* Messages *)

Answered(m, op) == m.op = op /\ m.at # "asked" /\ ~ended /\ flight' = flight \ {m}

\* While a dialog is open it takes the message, and drops it.
Dropped(m) ==
    /\ Answered(m, m.op) /\ dialog # NoOp
    /\ UNCHANGED <<screen, outside, history, pending, dialog, ended>>

\* Bug for comparison: an operation with missing labels is executed beside the dialog.
CheckedAnyhow(m) ==
    /\ Answered(m, "check") /\ dialog = NoOp /\ m.at # "error"
    /\ cleared' = IF m.at = "ready" THEN cleared \cup {m.press} ELSE cleared
    /\ \E kind \in AllKinds : ExecutePendingOp(kind)
    /\ UNCHANGED <<outside, agreed, used>>
\* handleLabelCheckResult
Checked(m) ==
    /\ Answered(m, "check") /\ dialog = NoOp
    /\ CASE m.at = "error" -> /\ pending' = NoOp
                              /\ UNCHANGED <<screen, dialog, ended, acts, cleared>>
         [] m.at = "ready" -> /\ \E kind \in AllKinds : ExecutePendingOp(kind)
                              /\ cleared' = cleared \cup {m.press}
         [] OTHER -> /\ dialog' = [kind |-> "labels", asked |-> m.project, index |-> 0, press |-> m.press]
                     /\ UNCHANGED <<screen, pending, ended, acts, cleared>>
    /\ UNCHANGED <<outside, agreed, used>>

\* handleLabelsEnsured
Ensured(m) ==
    /\ Answered(m, "ensure") /\ dialog = NoOp
    /\ IF m.at = "error"
       THEN pending' = NoOp /\ UNCHANGED <<screen, dialog, ended, acts, cleared>>
       ELSE /\ \E kind \in AllKinds : ExecutePendingOp(kind)
            /\ cleared' = cleared \cup {m.press}
    /\ UNCHANGED <<outside, agreed, used>>

\* handleIssuesLoaded
IssuesLoaded(m) ==
    /\ Answered(m, "load") /\ dialog = NoOp
    /\ shown' = IF m.project = statusProject /\ m.at = "ready" THEN m.list ELSE shown
    /\ UNCHANGED <<cursor, view, statusProject, statusCursor, outside, history, pending, dialog, ended>>

\* Bug for comparison: shown as moved whatever the tracker answered.
IssueConfirmedAnyhow(m) ==
    /\ Answered(m, "confirm") /\ dialog = NoOp
    /\ shown' = IF m.issue <= Len(shown) THEN [shown EXCEPT ![m.issue] = "todo"] ELSE shown
    /\ UNCHANGED <<cursor, view, statusProject, statusCursor, outside, history, pending, dialog, ended>>
\* handleIssueConfirmed: the issue of that number, whatever project is shown.
IssueConfirmed(m) ==
    /\ Answered(m, "confirm") /\ dialog = NoOp
    /\ shown' = IF m.at = "ready" /\ m.issue <= Len(shown) THEN [shown EXCEPT ![m.issue] = "todo"] ELSE shown
    /\ UNCHANGED <<cursor, view, statusProject, statusCursor, outside, history, pending, dialog, ended>>

-----------------------------------------------------------------------------
(* Answers to dialogs *)

\* Bug for comparison: what was pending survives the refusal.
RefuseKeeps ==
    /\ ~ended /\ dialog # NoOp
    /\ dialog' = NoOp
    /\ UNCHANGED <<screen, outside, history, pending, flight, ended>>
Refuse ==
    /\ ~ended /\ dialog # NoOp
    /\ dialog' = NoOp /\ pending' = NoOp
    /\ UNCHANGED <<screen, outside, history, flight, ended>>

Agree == ~ended /\ dialog' = NoOp /\ UNCHANGED <<screen, outside, pending, used>>

\* ensureLabelsCmd, unless the project is gone
AgreeLabels ==
    /\ dialog.kind = "labels" /\ Agree
    /\ flight' = flight \cup
         IF dialog.asked \in Range(projects)
         THEN {[op |-> "ensure", project |-> dialog.asked, press |-> dialog.press, at |-> "asked"]}
         ELSE {}
    /\ UNCHANGED <<ended, acts, cleared, agreed>>
\* deployAndLaunchAgent and deployAllCmd
AgreeDeploy ==
    /\ dialog.kind \in {"clarify", "review", "redeploy"} /\ Agree
    /\ OnIndex(dialog)
    /\ UNCHANGED <<flight, cleared, agreed>>
\* undeployFiles
AgreeUndeploy ==
    /\ dialog.kind = "undeploy" /\ Agree
    /\ acts' = Act(dialog, dialog.asked)
    /\ UNCHANGED <<flight, ended, cleared, agreed>>
AgreeIssue ==
    /\ dialog.kind = "issue" /\ Agree
    /\ agreed' = agreed \cup {<<dialog.project, dialog.issue>>}
    /\ flight' = flight \cup
         IF dialog.status = "pending" /\ dialog.project \in Range(projects)
         THEN {[op |-> "confirm", project |-> dialog.project, issue |-> dialog.issue, at |-> "asked"]}
         ELSE {}
    /\ UNCHANGED <<ended, acts, cleared>>

-----------------------------------------------------------------------------
(* Outside *)

\* A config without the project is taken over, here or by another client.
Reload(p) ==
    /\ used.reloads < MaxReloads /\ used' = [used EXCEPT !.reloads = @ + 1]
    /\ \E k \in DOMAIN projects : projects[k] = p /\ projects' = RemoveAt(projects, k)
    /\ UNCHANGED <<screen, labels, agents, todo, acts, cleared, agreed, pending, flight, dialog, ended>>
\* Labels are deleted in the tracker, agent files in the project.
Delete(p) ==
    /\ used.deletions < MaxDeletions /\ used' = [used EXCEPT !.deletions = @ + 1]
    /\ \/ labels' = labels \ {p} /\ UNCHANGED agents
       \/ agents' = {a \in agents : a[2] # p} /\ UNCHANGED labels
    /\ UNCHANGED <<screen, projects, todo, acts, cleared, agreed, pending, flight, dialog, ended>>

Key == (\E n \in 1..Len(projects) : MoveCursor(n)) \/ (\E n \in 1..Issues : MoveStatusCursor(n))
       \/ Status \/ Back \/ (\E kind \in Kinds : Press(kind)) \/ PressConfirm
       \/ (\E kind \in {"redeploy", "undeploy"} : PressDeploy(kind))
Work(m) ==
    /\ CheckLabels(m) \/ EnsureLabels(m) \/ LoadIssues(m) \/ UpdateLabels(m)
    /\ UNCHANGED hasty
Handle(m) ==
    /\ Dropped(m) \/ Checked(m) \/ Ensured(m) \/ IssuesLoaded(m) \/ IssueConfirmed(m)
    /\ UNCHANGED hasty
Answer ==
    /\ Refuse \/ AgreeLabels \/ AgreeDeploy \/ AgreeUndeploy \/ AgreeIssue
    /\ UNCHANGED hasty
Outside(p) == (Reload(p) \/ Delete(p)) /\ UNCHANGED hasty

Next ==
    \/ Key \/ Answer
    \/ \E m \in flight : Work(m) \/ Handle(m)
    \/ \E p \in Known : Outside(p)

Spec == Init /\ [][Next]_vars
\* Commands end, their answers are handled, a user answers the dialogs.
FairSpec == Spec /\ WF_vars(\E m \in flight : Work(m) \/ Handle(m)) /\ WF_vars(Answer)

-----------------------------------------------------------------------------
(* Properties *)

\* The kinds of the variables; a dialog and a pending operation of the same press
\* occur together only while labels are asked for.
PendingTypeOK ==
    /\ projects \in Seq(Known)
    /\ cursor \in {1} \cup 1..Len(Order) /\ statusCursor \in {1} \cup 1..Issues
    /\ Len(shown) \in {0, Issues} /\ labels \subseteq Known
    /\ pending.kind \in AllKinds /\ pending.index \in 0..(Len(Order) + Issues)
    /\ dialog # NoOp /\ pending # NoOp /\ dialog.press = pending.press => dialog.kind = "labels"

\* One press is one operation, however its checks, dialogs and answers interleave
\* with those of another.
OncePerPress ==
    \A j, k \in DOMAIN acts : j # k => acts[j].op.press # acts[k].op.press

\* As long as no config is taken over an operation is about the project it was asked for,
\* and no index is out of range, although the code keeps an index and the cursor moves.
ActsOnAsked ==
    used.reloads = 0 => ~ended /\ \A k \in DOMAIN acts : acts[k].project = acts[k].op.asked

\* If the user waits while "Checking labels" is shown, ...
\* ... an operation behind a label check is executed only when its own labels were found,
\* or made, complete, ...
LabelsReady ==
    ~hasty => \A k \in DOMAIN acts : acts[k].op.kind \in Kinds => acts[k].op.press \in cleared

\* ... the dialog of [y] is about the issue it was pressed on, ...
IssueAsAsked ==
    ~hasty /\ dialog.kind = "issue" => dialog.project = dialog.asked /\ dialog.issue = dialog.index

\* ... and the list shows an issue as todo only if it is.
ShownIsTrue ==
    ~hasty => \A i \in DOMAIN shown : shown[i] = "todo" => <<statusProject, i>> \in todo

\* Issues wait for a person: one is moved to todo only after a dialog that named it.
TodoOnlyAgreed == todo \subseteq agreed

\* What the dashboard does is what was asked for: each press once, about the project and
\* the issue it was made on, with its own labels found or made, todo only what was agreed;
\* and the list shows as todo what is (executePendingOp, handleLabelCheck,
\* handleIssueConfirmed).
ActsAsAsked ==
    /\ PendingTypeOK /\ OncePerPress /\ ActsOnAsked /\ TodoOnlyAgreed
    /\ LabelsReady /\ IssueAsAsked /\ ShownIsTrue

\* A press is executed, refused or failed; it does not stay pending.
PressIsAnswered == pending # NoOp ~> pending = NoOp \/ hasty

=============================================================================
