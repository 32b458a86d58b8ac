------------------------------- MODULE GitView -------------------------------
(***************************************************************************)
(* The Git Status page of one client (internal/tui/gitstatus.go): entering *)
(* and leaving it, one operation at a time, its command, its answer and    *)
(* the spinner.  A repository is its version, which each successful fetch  *)
(* or pull raises, and a failed one may; it has commits.  The overlay or   *)
(* dialog of the client takes the messages while it is up.                 *)
(***************************************************************************)
EXTENDS Naturals

CONSTANTS
    Projects,
    None,           \* no project, no data
    MaxOps,         \* bound: operations the user starts
    Overlays        \* bound: overlays shown by something else

ASSUME GitAssumption == None \notin Projects /\ MaxOps \in Nat /\ Overlays \in Nat

\* The commands of the user's operations, and the load behind each of them.
Jobs == 1..(2 * MaxOps)
Behind(j) == j + MaxOps

VARIABLES
    known,      \* projects of the config
    project,    \* gitProjectID; None in any other view
    gitOp,      \* "", "fetch", "pull", "refresh"
    data,       \* gitData: of which project, and the versions of branches and graph
    jobs,       \* the commands: operation, project, where, and what they found
    repo,       \* version of each repository
    spin,       \* spinner ticks under way that the spinner will take
    overlay,    \* is one up?
    gitUsed     \* history: operations started, overlays shown, projects entered, whether
                \*   one was a second time, whether a fetch or pull failed halfway

gitVars == <<known, project, gitOp, data, jobs, repo, spin, overlay, gitUsed>>

NoJob == [op |-> "", project |-> None, at |-> "free", ok |-> TRUE, branches |-> 0, graph |-> 0]

GitInit ==
    /\ known = Projects /\ project = None /\ gitOp = "" /\ data = None
    /\ jobs = [j \in Jobs |-> NoJob]
    /\ repo = [p \in Projects |-> 0]
    /\ spin = 0 /\ overlay = FALSE
    /\ gitUsed = [started |-> 0, overlays |-> 0, entered |-> {}, again |-> FALSE, halfway |-> FALSE]

\* A command is returned, together with a tick.
Start(from, j, op, p) ==
    /\ gitOp' = op
    /\ jobs' = [from EXCEPT ![j] = [NoJob EXCEPT !.op = op, !.project = p, !.at = "running"]]
    /\ spin' = spin + 1
StartNext(op, p) == gitUsed.started < MaxOps /\ Start(jobs, gitUsed.started + 1, op, p)

-----------------------------------------------------------------------------
(* Keys *)

\* enterGitStatus, of a project with a repository.
Enter(p) ==
    /\ ~overlay /\ project = None
    /\ p \in known
    /\ project' = p /\ data' = None
    /\ StartNext("refresh", p)
    /\ gitUsed' = [gitUsed EXCEPT !.started = @ + 1, !.entered = @ \cup {p},
                                 !.again = @ \/ p \in gitUsed.entered]
    /\ UNCHANGED <<known, repo, overlay>>

\* Bug for comparison: what is shown stays for the next time.
BackKeepsData ==
    /\ ~overlay /\ project # None
    /\ project' = None /\ gitOp' = ""
    /\ UNCHANGED <<known, data, jobs, repo, spin, overlay, gitUsed>>
Back ==
    /\ ~overlay /\ project # None
    /\ project' = None /\ gitOp' = "" /\ data' = None
    /\ UNCHANGED <<known, jobs, repo, spin, overlay, gitUsed>>

\* Bug for comparison: an operation is started beside another.
StartBeside(op) ==
    /\ ~overlay /\ project \in known
    /\ StartNext(op, project)
    /\ gitUsed' = [gitUsed EXCEPT !.started = @ + 1]
    /\ UNCHANGED <<known, project, data, repo, overlay>>
\* startGitOp, when none is in progress and the project has a path.
StartGitOp(op) ==
    /\ ~overlay /\ project \in known
    /\ gitOp = ""
    /\ StartNext(op, project)
    /\ gitUsed' = [gitUsed EXCEPT !.started = @ + 1]
    /\ UNCHANGED <<known, project, data, repo, overlay>>

-----------------------------------------------------------------------------
(* Commands: a load reads the branches and then the graph *)

ReadBranches(j) ==
    /\ jobs[j].op = "refresh" /\ jobs[j].at = "running"
    /\ jobs' = [jobs EXCEPT ![j].at = "reading", ![j].branches = repo[jobs[j].project]]
    /\ UNCHANGED <<known, project, gitOp, data, repo, spin, overlay, gitUsed>>
ReadGraph(j) ==
    /\ jobs[j].at = "reading"
    /\ jobs' = [jobs EXCEPT ![j].at = "answered", ![j].graph = repo[jobs[j].project]]
    /\ UNCHANGED <<known, project, gitOp, data, repo, spin, overlay, gitUsed>>
\* One of several remotes fails, or the branch is not to be fast-forwarded: the rest is done.
FetchOrPull(j) ==
    /\ jobs[j].op \in {"fetch", "pull"} /\ jobs[j].at = "running"
    /\ repo' = [repo EXCEPT ![jobs[j].project] = @ + 1]
    /\ \E done \in BOOLEAN :
          /\ jobs' = [jobs EXCEPT ![j].at = "answered", ![j].ok = done]
          /\ gitUsed' = [gitUsed EXCEPT !.halfway = @ \/ ~done]
    /\ UNCHANGED <<known, project, gitOp, data, spin, overlay>>
\* A graph that fails without output is taken for that of an empty repository.
NoGraph(j) ==
    /\ jobs[j].at = "reading"
    /\ jobs' = [jobs EXCEPT ![j].at = "answered", ![j].graph = None]
    /\ UNCHANGED <<known, project, gitOp, data, repo, spin, overlay, gitUsed>>
\* An error of git, or the timeout.
Fail(j) ==
    /\ jobs[j].at \in {"running", "reading"}
    /\ jobs' = [jobs EXCEPT ![j].at = "answered", ![j].ok = FALSE]
    /\ UNCHANGED <<known, project, gitOp, data, repo, spin, overlay, gitUsed>>

-----------------------------------------------------------------------------
(* Messages *)

Gone(j) == [jobs EXCEPT ![j].at = "gone"]

\* An answer of another project, or for another view, is dropped; the overlay drops any.
Dropped(j) ==
    /\ jobs[j].at = "answered" /\ (overlay \/ project # jobs[j].project)
    /\ jobs' = Gone(j)
    /\ UNCHANGED <<known, project, gitOp, data, repo, spin, overlay, gitUsed>>

\* Bug for comparison: the operation is not seen to end when it has failed.
LoadedOK(j) ==
    /\ ~overlay /\ jobs[j].at = "answered" /\ jobs[j].op = "refresh" /\ project = jobs[j].project
    /\ gitOp' = IF jobs[j].ok THEN "" ELSE gitOp
    /\ data' = IF jobs[j].ok THEN [project |-> project, branches |-> jobs[j].branches, graph |-> jobs[j].graph]
               ELSE None
    /\ jobs' = Gone(j)
    /\ UNCHANGED <<known, project, repo, spin, overlay, gitUsed>>
\* Bug for comparison: the answer is taken for whatever page is shown.
LoadedAny(j) ==
    /\ ~overlay /\ jobs[j].at = "answered" /\ jobs[j].op = "refresh" /\ project # None
    /\ gitOp' = ""
    /\ data' = [project |-> jobs[j].project, branches |-> jobs[j].branches, graph |-> jobs[j].graph]
    /\ jobs' = Gone(j)
    /\ UNCHANGED <<known, project, repo, spin, overlay, gitUsed>>
\* onGitDataLoaded
Loaded(j) ==
    /\ ~overlay /\ jobs[j].at = "answered" /\ jobs[j].op = "refresh" /\ project = jobs[j].project
    /\ gitOp' = ""
    /\ data' = IF jobs[j].ok THEN [project |-> project, branches |-> jobs[j].branches, graph |-> jobs[j].graph]
               ELSE None
    /\ jobs' = Gone(j)
    /\ UNCHANGED <<known, project, repo, spin, overlay, gitUsed>>

\* Bug for comparison: nothing is loaded after a success.
ChangedNoReload(j) ==
    /\ ~overlay /\ jobs[j].at = "answered" /\ jobs[j].op # "refresh" /\ project = jobs[j].project
    /\ gitOp' = "" /\ jobs' = Gone(j)
    /\ UNCHANGED <<known, project, data, repo, spin, overlay, gitUsed>>
\* onGitFetchResult and onGitPullResult: a failure is shown, in an overlay when its
\* text is long; after a success branches and graph are loaded again.
Changed(j) ==
    /\ ~overlay /\ jobs[j].at = "answered" /\ jobs[j].op # "refresh" /\ project = jobs[j].project
    /\ IF jobs[j].ok /\ project \in known
       THEN Start(Gone(j), Behind(j), "refresh", project) /\ UNCHANGED overlay
       ELSE /\ gitOp' = "" /\ jobs' = Gone(j)
            /\ overlay' \in IF jobs[j].ok THEN {overlay} ELSE {overlay, TRUE}
            /\ UNCHANGED spin
    /\ UNCHANGED <<known, project, data, repo, gitUsed>>

\* Bug for comparison: each tick ends its chain.
SpinnerTickOnce ==
    /\ ~overlay /\ spin > 0
    /\ spin' = 0
    /\ UNCHANGED <<known, project, gitOp, data, jobs, repo, overlay, gitUsed>>
\* handleSpinnerTick: ticks of the same number are taken once; then the chain goes on
\* while there is an operation.
SpinnerTick ==
    /\ ~overlay /\ spin > 0
    /\ spin' = IF gitOp = "" THEN 0 ELSE 1
    /\ UNCHANGED <<known, project, gitOp, data, jobs, repo, overlay, gitUsed>>
TickDropped ==
    /\ overlay /\ spin > 0
    /\ spin' = spin - 1
    /\ UNCHANGED <<known, project, gitOp, data, jobs, repo, overlay, gitUsed>>

-----------------------------------------------------------------------------
(* The rest of the client: a dialog that another answer opens, as the label check does *)

ShowOverlay ==
    /\ ~overlay /\ gitUsed.overlays < Overlays
    /\ overlay' = TRUE /\ gitUsed' = [gitUsed EXCEPT !.overlays = @ + 1]
    /\ UNCHANGED <<known, project, gitOp, data, jobs, repo, spin>>
Dismiss ==
    /\ overlay /\ overlay' = FALSE
    /\ UNCHANGED <<known, project, gitOp, data, jobs, repo, spin, gitUsed>>
\* ApplyConfig takes over a config without the project.
Forget(p) ==
    /\ p \in known /\ known' = known \ {p}
    /\ UNCHANGED <<project, gitOp, data, jobs, repo, spin, overlay, gitUsed>>

Work(j) == ReadBranches(j) \/ ReadGraph(j) \/ NoGraph(j) \/ FetchOrPull(j) \/ Fail(j)
Deliver(j) == Dropped(j) \/ Loaded(j) \/ Changed(j)

GitNext ==
    \/ \E p \in Projects : Enter(p) \/ Forget(p)
    \/ Back \/ (\E op \in {"fetch", "pull", "refresh"} : StartGitOp(op))
    \/ \E j \in Jobs : Work(j) \/ Deliver(j)
    \/ SpinnerTick \/ TickDropped \/ ShowOverlay \/ Dismiss

GitSpec == GitInit /\ [][GitNext]_gitVars
\* Commands end, by their timeout at the latest, answers are delivered and a user
\* closes what is in the way.
GitFairSpec ==
    /\ GitSpec /\ WF_gitVars(Dismiss)
    /\ \A j \in Jobs : WF_gitVars(Work(j)) /\ WF_gitVars(Deliver(j))

-----------------------------------------------------------------------------
(* Properties *)

\* The kinds of the variables.
Operations == {"fetch", "pull", "refresh"}
JobKind == [op : Operations \cup {""}, project : Projects \cup {None},
            at : {"free", "running", "reading", "answered", "gone"}, ok : BOOLEAN,
            branches : Nat, graph : Nat \cup {None}]
DataKind == [project : Projects, branches : Nat, graph : Nat \cup {None}]
UsedKind == [started : 0..MaxOps, overlays : 0..Overlays, entered : SUBSET Projects,
             again : BOOLEAN, halfway : BOOLEAN]
GitTypeOK ==
    /\ known \subseteq Projects /\ project \in Projects \cup {None}
    /\ gitOp \in Operations \cup {""}
    /\ data \in {None} \cup DataKind
    /\ jobs \in [Jobs -> JobKind]
    /\ repo \in [Projects -> Nat] /\ spin \in Nat /\ overlay \in BOOLEAN
    /\ gitUsed \in UsedKind

\* What is shown is of the project the page is about, whatever answers of earlier
\* visits and other projects come in.
DataIsOwn == data # None => project # None /\ data.project = project

\* One operation at a time works in a repository.
AtWork(p) == {j \in Jobs : jobs[j].project = p /\ jobs[j].at \in {"running", "reading"}}
OneOperation == \A p \in Projects : \A j, k \in AtWork(p) : j = k

\* After the operations of a page have ended it shows the repository as they left it,
\* branches and graph alike; a graph that could not be read is left empty.
CurrentWhenIdle ==
    (data # None /\ gitOp = "" /\ project \in known)
    => data.branches = repo[project] /\ data.graph \in {repo[project], None}

\* A repository with commits is not shown as one without any.
GraphIsRead == data # None => data.graph # None

\* While an operation is shown the spinner turns: its chain of ticks does not break
\* when one operation follows another.
SpinnerRuns == gitOp # "" => spin > 0

\* One fetch, pull or load at a time works in a repository, unless its page is left and
\* entered again; what the page shows is of its project, whatever answers of earlier
\* visits come in, and is current when no operation runs, unless one has failed halfway;
\* while one runs the spinner turns, unless an overlay took a tick (startGitOp,
\* onGitDataLoaded, onGitFetchResult, handleSpinnerTick).
PageIsTrue ==
    /\ GitTypeOK /\ DataIsOwn
    /\ ~gitUsed.again => OneOperation
    /\ ~gitUsed.again /\ ~gitUsed.halfway => CurrentWhenIdle
    /\ gitUsed.overlays = 0 => SpinnerRuns

\* An operation does not stay in progress: it ends and lets the next one start.
OperationEnds == gitOp # "" ~> gitOp = ""

=============================================================================
