----------------------------- MODULE Worktrees -----------------------------
(***************************************************************************)
(* The worktrees of one project, as git keeps them and the loop makes and  *)
(* removes them (internal/worktree/manager.go, the poll, the creation and  *)
(* the clean-up of internal/tui/loop_*.go, hooks/worktree-create.sh): the  *)
(* branch, git's list, and the directory of each, step by step.  In module *)
(* LoopEngine a creation or a removal is one step; here an answer and its  *)
(* handler are one.  Tree <<i, 0>> is that of issue i, <<i, k>> that of a  *)
(* parallel task of its agent, whose directory lies within.                *)
(***************************************************************************)
EXTENDS Naturals, FiniteSets

CONSTANTS
    Issues,         \* a set of numbers above zero
    Children,       \* names of parallel tasks: numbers above zero
    MaxPerProject,  \* config worktree.max_per_project
    Faults,         \* what may happen besides, of which a run has some
    MaxSessions     \* bound: starts of the program

WorktreesAssumption ==
    /\ Issues \subseteq Nat \ {0} /\ Children \subseteq Nat \ {0}
    /\ MaxPerProject \in Nat \ {0} /\ MaxSessions \in Nat
    /\ Faults \subseteq {"crash", "git", "locked", "overlap", "parallel", "orphans", "reopen"}
ASSUME WorktreesConstants == WorktreesAssumption

VARIABLES
    branches,   \* branches of the repository
    trees,     \* what `git worktree list` shows
    dirs,       \* directories that exist
    todoIssues,       \* issues labelled todo
    pr,         \* the latest pull request of each issue's branch
    unmerged,   \* issues with commits nobody merged
    slots,      \* the loop's slots, by issue
    cmds,       \* commands that run
    sessions,   \* starts of the program
    faults      \* of Faults, what does happen
repoVars == <<branches, trees, dirs>>
issueVars == <<todoIssues, pr, unmerged>>
treeVars == <<branches, trees, dirs, todoIssues, pr, unmerged, slots, cmds, sessions, faults>>

Tree == Issues \X ({0} \cup Children)
NoTree == <<0, 0>>
NoSlot == [state |-> "none", tree |-> NoTree]
\* git removes a directory with the directories in it.
Inside(t) == IF t[2] = 0 THEN {t[1]} \X ({0} \cup Children) ELSE {t}

TreesInit ==
    /\ branches = {} /\ trees = {} /\ dirs = {}
    /\ todoIssues = {} /\ pr = [i \in Issues |-> "none"] /\ unmerged = {}
    /\ slots = [i \in Issues |-> NoSlot] /\ cmds = {} /\ sessions = 0
    /\ faults \in SUBSET Faults

-----------------------------------------------------------------------------
(* The loop *)

\* group: the issues of one poll, or the slot; empty for the removals at the start
RemoveCmd(group, t) == [op |-> "remove", group |-> group, tree |-> t, at |-> "list"]

\* Bug for comparison: worktrees whose PR is open are leftovers, too.
LeftoversOpen == {t \in trees : t[2] = 0 /\ pr[t[1]] # "none"}
\* loopCleanupMergedCmd: the branches of parallel tasks have no PR.
Leftovers == {t \in trees : t[2] = 0 /\ pr[t[1]] = "merged"}

\* The program starts and the loop with it; a quit ends commands where they are.
Startup ==
    /\ sessions < MaxSessions /\ sessions' = sessions + 1
    /\ "crash" \in faults \/ cmds = {}
    /\ slots' = [i \in Issues |-> NoSlot]
    /\ cmds' = {RemoveCmd({}, t) : t \in Leftovers}
    /\ UNCHANGED <<repoVars, issueVars>>

Slotted == {i \in Issues : slots[i] # NoSlot}
\* findLoopSlotFromWorktree: git lists a directory before those in it.
Found(i) ==
    IF <<i, 0>> \in trees THEN {<<i, 0>>} ELSE {t \in trees : t[1] = i}

\* handleLoopPoll: issues without a slot as far as there is room, in order.
Poll ==
    /\ sessions > 0
    /\ "overlap" \in faults \/ \A c \in cmds : c.op # "create"
    /\ LET ready == todoIssues \ Slotted
           new   == {i \in ready : Cardinality(Slotted) + Cardinality({j \in ready : j < i})
                                       < MaxPerProject}
       IN  /\ new # {}
           /\ \E found \in [new -> Tree \cup {NoTree}] :
                 /\ \A i \in new : IF Found(i) = {} THEN found[i] = NoTree ELSE found[i] \in Found(i)
                 /\ slots' = [i \in Issues |->
                                IF i \notin new THEN slots[i]
                                ELSE [state |-> IF found[i] = NoTree THEN "creating" ELSE "working",
                                      tree |-> found[i]]]
                 /\ cmds' = cmds \cup
                       {[op |-> "create", group |-> new, tree |-> <<i, 0>>, at |-> "list"]
                           : i \in {j \in new : found[j] = NoTree}}
    /\ UNCHANGED <<repoVars, issueVars, sessions>>

\* handleLoopOpenPRs, at the start of the loop: the worktree is found by its branch.
TakeUp(i) ==
    /\ sessions > 0 /\ slots[i] = NoSlot /\ pr[i] = "open" /\ <<i, 0>> \in trees
    /\ slots' = [slots EXCEPT ![i] = [state |-> "working", tree |-> <<i, 0>>]]
    /\ UNCHANGED <<repoVars, issueVars, cmds, sessions>>

\* The PR poll of a slot, which begins when its PR is open, has seen the merge.
Noticed(i) ==
    /\ slots[i].state = "working" /\ slots[i].tree[2] = 0 /\ pr[i] = "merged" /\ i \notin unmerged
    /\ slots' = [slots EXCEPT ![i].state = "cleaning"]
    /\ cmds' = cmds \cup {RemoveCmd({i}, slots[i].tree)}
    /\ UNCHANGED <<repoVars, issueVars, sessions>>

-----------------------------------------------------------------------------
(* Manager.Create *)

\* The creations of one poll, and the removals of a sweep, run in sequence.
Turn(c) == \A d \in cmds : d.op = c.op /\ d.group = c.group => c.tree[1] <= d.tree[1]
Running(c, op, at) == c.op = op /\ c.at = at /\ Turn(c)
Goto(c, at) == cmds' = (cmds \ {c}) \cup {[c EXCEPT !.at = at]} /\ UNCHANGED slots
IssueOf(c) == c.tree[1]

\* handleLoopWorktreeCreated; an issue without a slot needs no answer.
Created(c, state) ==
    /\ cmds' = cmds \ {c}
    /\ slots' = [slots EXCEPT ![IssueOf(c)] =
                    [state |-> state, tree |-> IF state = "working" THEN c.tree ELSE NoTree]]

\* Bug for comparison: the limit is passed by one.
CreateListPastLimit(c) ==
    /\ Running(c, "create", "list")
    /\ IF Cardinality(trees) <= MaxPerProject THEN Goto(c, "branch") ELSE Created(c, "refused")
    /\ UNCHANGED <<repoVars, issueVars, sessions>>
\* Bug for comparison: the worktree of the project itself is counted.
CreateListMain(c) ==
    /\ Running(c, "create", "list")
    /\ IF Cardinality(trees) + 1 < MaxPerProject THEN Goto(c, "branch") ELSE Created(c, "refused")
    /\ UNCHANGED <<repoVars, issueVars, sessions>>
\* List, the limit, and the fetch of the base branch.
CreateList(c) ==
    /\ Running(c, "create", "list")
    /\ \/ IF Cardinality(trees) < MaxPerProject THEN Goto(c, "branch") ELSE Created(c, "refused")
       \/ Created(c, "error")
    /\ UNCHANGED <<repoVars, issueVars, sessions>>

\* git branch makes the branch before it records the upstream in .git/config; a failure
\* there leaves the branch.
CreateBranch(c) ==
    /\ Running(c, "create", "branch")
    /\ \/ c.tree \notin branches /\ branches' = branches \cup {c.tree} /\ Goto(c, "add")
       \/ UNCHANGED branches /\ Created(c, "error")
       \/ "git" \in faults /\ branches' = branches \cup {c.tree} /\ Created(c, "error")
    /\ UNCHANGED <<trees, dirs, issueVars, sessions>>

\* git branch -D spares a branch that is checked out.
Deleted(t) == IF t \in trees THEN branches ELSE branches \ {t}

\* Bug for comparison: the branch stays when the worktree cannot be made.
CreateAddKeepsBranch(c) ==
    /\ Running(c, "create", "add")
    /\ \/ /\ c.tree \in branches \ trees /\ c.tree \notin dirs
          /\ trees' = trees \cup {c.tree} /\ dirs' = dirs \cup {c.tree} /\ Goto(c, "hooks")
       \/ UNCHANGED <<trees, dirs>> /\ Created(c, "error")
    /\ UNCHANGED <<branches, issueVars, sessions>>
\* git worktree add; without it the branch goes again.
CreateAdd(c) ==
    /\ Running(c, "create", "add")
    /\ \/ /\ c.tree \in branches \ trees /\ c.tree \notin dirs
          /\ trees' = trees \cup {c.tree} /\ dirs' = dirs \cup {c.tree} /\ Goto(c, "hooks")
          /\ UNCHANGED branches
       \/ branches' = Deleted(c.tree) /\ UNCHANGED <<trees, dirs>> /\ Created(c, "error")
    /\ UNCHANGED <<issueVars, sessions>>

\* Bug for comparison: the answer lacks the worktree.
CreateHooksNoTree(c) ==
    /\ Running(c, "create", "hooks")
    /\ cmds' = cmds \ {c} /\ slots' = [slots EXCEPT ![IssueOf(c)].state = "working"]
    /\ UNCHANGED <<repoVars, issueVars, sessions>>
\* Without hooks the worktree stays, and the slot has failed.
CreateHooks(c) ==
    /\ Running(c, "create", "hooks")
    /\ Created(c, "working") \/ Created(c, "error")
    /\ UNCHANGED <<repoVars, issueVars, sessions>>

-----------------------------------------------------------------------------
(* Manager.Remove *)

\* loopCleanupCmd closes the issue and its slot goes, whatever the removal said.
Removed(c) ==
    /\ cmds' = cmds \ {c}
    /\ slots' = IF c.group # {} THEN [slots EXCEPT ![IssueOf(c)] = NoSlot] ELSE slots

\* The branch is the one listed for the path; without a list it is not deleted.
RemoveList(c) ==
    /\ Running(c, "remove", "list")
    /\ \/ c.tree \in trees /\ Goto(c, "remove")
       \/ (c.tree \notin trees \/ "git" \in faults) /\ Goto(c, "removeOnly")
    /\ UNCHANGED <<repoVars, issueVars, sessions>>

\* Manager.Remove: git drops its link even when the directory resists; then, or when
\* git does not list the tree, the directory is removed and the list pruned of every
\* tree whose directory is gone, or the command gives up.
RemoveTree(c) ==
    /\ Running(c, "remove", "remove") \/ Running(c, "remove", "removeOnly")
    /\ \/ /\ dirs' = dirs \ Inside(c.tree)
          /\ \/ c.tree \in trees /\ trees' = trees \ {c.tree}
             \/ (c.tree \notin trees \/ "locked" \in faults) /\ trees' = trees \cap dirs'
          /\ IF c.at = "remove" THEN Goto(c, "delete") ELSE Removed(c)
       \/ "locked" \in faults /\ trees' = trees \ {c.tree} /\ UNCHANGED dirs /\ Removed(c)
    /\ UNCHANGED <<branches, issueVars, sessions>>

\* git branch -D
DeleteBranch(c) ==
    /\ Running(c, "remove", "delete")
    /\ branches' \in {Deleted(c.tree)} \cup (IF "git" \in faults THEN {branches} ELSE {})
    /\ Removed(c)
    /\ UNCHANGED <<trees, dirs, issueVars, sessions>>

-----------------------------------------------------------------------------
(* Agents, their tasks, and the people *)

HasAgent(i) == <<i, 0>> \in dirs /\ (slots[i].state = "working" \/ i \notin todoIssues)
\* The agent takes its issue and commits; a terminal outlives the program.
Work(i) ==
    /\ HasAgent(i) /\ pr[i] # "open" /\ (i \in todoIssues \/ pr[i] = "none")
    /\ todoIssues' = todoIssues \ {i} /\ unmerged' = unmerged \cup {i}
    /\ UNCHANGED <<repoVars, pr, slots, cmds, sessions>>
OpensPR(i) ==
    /\ HasAgent(i) /\ i \in unmerged /\ pr' = [pr EXCEPT ![i] = "open"]
    /\ UNCHANGED <<repoVars, todoIssues, unmerged, slots, cmds, sessions>>
Merges(i) ==
    /\ pr[i] = "open" /\ pr' = [pr EXCEPT ![i] = "merged"] /\ unmerged' = unmerged \ {i}
    /\ "orphans" \in faults \/ \A t \in trees : t[1] = i => t[2] = 0
    /\ UNCHANGED <<repoVars, todoIssues, slots, cmds, sessions>>
\* The user confirms an issue.
Label(i) ==
    /\ i \notin todoIssues /\ pr[i] = "none" /\ <<i, 0>> \notin dirs /\ slots[i] = NoSlot
    /\ todoIssues' = todoIssues \cup {i}
    /\ UNCHANGED <<repoVars, pr, unmerged, slots, cmds, sessions>>
\* A merged issue was not done after all; its title, and so its branch, is the same.
Reopen(i) ==
    /\ "reopen" \in faults /\ pr[i] = "merged" /\ slots[i] = NoSlot
    /\ \A c \in cmds : IssueOf(c) # i
    /\ todoIssues' = todoIssues \cup {i}
    /\ UNCHANGED <<repoVars, pr, unmerged, slots, cmds, sessions>>

\* hooks/worktree-create.sh: -B takes a branch that is there, but not a listed tree.
Fork(t) ==
    /\ "parallel" \in faults /\ t[2] # 0 /\ t \notin trees
    /\ HasAgent(t[1]) /\ t[1] \in unmerged /\ pr[t[1]] # "open"
    /\ branches' = branches \cup {t} /\ trees' = trees \cup {t} /\ dirs' = dirs \cup {t}
    /\ UNCHANGED <<issueVars, slots, cmds, sessions>>
\* The agent cleans up after its tasks.
Join(t) ==
    /\ t[2] # 0 /\ t \in trees /\ t \in dirs /\ <<t[1], 0>> \in dirs
    /\ branches' = branches \ {t} /\ trees' = trees \ {t} /\ dirs' = dirs \ {t}
    /\ UNCHANGED <<issueVars, slots, cmds, sessions>>

Command(c) ==
    \/ CreateList(c) \/ CreateBranch(c) \/ CreateAdd(c) \/ CreateHooks(c)
    \/ RemoveList(c) \/ RemoveTree(c) \/ DeleteBranch(c)
TreesNext ==
    /\ \/ Startup \/ Poll
       \/ \E c \in cmds : Command(c)
       \/ \E i \in Issues : TakeUp(i) \/ Noticed(i) \/ Label(i) \/ Work(i) \/ OpensPR(i)
                               \/ Merges(i) \/ Reopen(i)
       \/ \E t \in Tree : Fork(t) \/ Join(t)
    /\ UNCHANGED faults
TreesSpec == TreesInit /\ [][TreesNext]_treeVars

-----------------------------------------------------------------------------
(* Properties *)

\* The kinds of the variables; a listed worktree has its branch, a working slot its tree.
WtTypeOK ==
    /\ branches \subseteq Tree /\ trees \subseteq branches /\ dirs \subseteq Tree
    /\ \A i \in Issues :
          /\ pr[i] \in {"none", "open", "merged"}
          /\ slots[i].state \in {"none", "creating", "working", "cleaning", "error", "refused"}
          /\ slots[i].tree # NoTree <=> slots[i].state \in {"working", "cleaning"}

\* The hypotheses of the properties: the creations of two polls do not overlap, no issue
\* is opened again after its merge, agents have no parallel tasks, and commands end as
\* git ends them.
NoOverlap == "overlap" \notin faults
NoReopen == "reopen" \notin faults
NoForks == "parallel" \notin faults
Untroubled == {"crash", "git", "locked", "reopen"} \cap faults = {}

MainTrees == {t \in trees : t[2] = 0}
\* max_per_project: no more worktrees of issues than the configuration allows.
LimitKept == Cardinality(MainTrees) <= MaxPerProject

\* When no command runs, an issue has its branch, its entry in git's list and its
\* directory, or none of them: what is left of a failure stands in nobody's way.
NoHalf ==
    cmds = {} => \A i \in Issues : <<i, 0>> \in branches <=> <<i, 0>> \in trees /\ <<i, 0>> \in dirs

\* A slot at work has a directory to work in.
SlotHasTree == \A i \in Issues : slots[i].state = "working" => slots[i].tree \in dirs

\* What the worktrees are, whatever of Faults happens (Manager.Create, Manager.Remove,
\* handleLoopWorktreeCreated, handleLoopPoll).
TreesAreWhole ==
    /\ WtTypeOK
    /\ NoOverlap => LimitKept
    /\ NoReopen => SlotHasTree
    /\ Untroubled => NoHalf

\* A creation is refused for the limit only when that many issues have worktrees.
RefusalStep ==
    \A i \in Issues : slots'[i].state = "refused" /\ slots[i].state # "refused"
        => Cardinality(MainTrees) >= MaxPerProject

\* Directories are removed by force: none goes that has work nobody merged.
WorkKept == \A i \in unmerged : <<i, 0>> \in dirs => <<i, 0>> \in dirs'

\* What no step does: refuse a creation while fewer issues have worktrees, or remove a
\* directory with work nobody merged (Manager.Create, Manager.Remove).
TreeStepOK == (NoForks => RefusalStep) /\ (NoReopen => WorkKept)
TreesLeftAlone == [][TreeStepOK]_treeVars

=============================================================================
