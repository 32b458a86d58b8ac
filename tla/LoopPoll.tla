------------------------------- MODULE LoopPoll -------------------------------
(***************************************************************************)
(* One poll of the loop, step by step: loopPollCmd lists the issues, walks *)
(* their DEPENDS_ON graph with detectCycles and asks the tracker for every *)
(* dependency in turn; handleLoopPoll then logs the circular dependencies. *)
(* LoopEngine takes all of this for one step (PollTodo).                   *)
(***************************************************************************)
EXTENDS Naturals, Sequences, FiniteSets

CONSTANTS
    IssueIDs,       \* the issues of the tracker
    Bodies,         \* the DEPENDS_ON sections to begin with: functions to sequences
    Trackers,       \* the states of the tracker to begin with
    NoIssue,
    MaxPolls,       \* bound of the model
    MaxEdits        \* bound of the model: changes of the tracker by others

PollAssumption ==
    /\ IsFiniteSet(IssueIDs) /\ NoIssue \notin IssueIDs
    /\ Bodies \subseteq [IssueIDs -> Seq(IssueIDs)]
    /\ Trackers \subseteq [todo: SUBSET IssueIDs, closed: SUBSET IssueIDs]
    /\ \A t \in Trackers : t.todo \cap t.closed = {}
    /\ {MaxPolls, MaxEdits} \subseteq Nat

VARIABLES
    deps,           \* deps[i]: the DEPENDS_ON section of issue i
    todo, closed,   \* the tracker: open issues with the todo label, closed ones
    stage,          \* "idle", "walking", "filtering", "answered"
    listed,         \* todoIssues
    color, parent, stack, cycleNodes,       \* detectCycles
    unchecked,      \* issues the filter has yet to look at
    asking, at,     \* the issue it looks at, and the dependency it asks for
    eligible,
    reported,       \* ReportedCycleKey
    logged,         \* history: the reports logged
    always, ever, unread,   \* history: see PollContract
    polls, edits

trackerVars == <<deps, todo, closed, edits>>
walkVars == <<color, parent, stack, cycleNodes>>
filterVars == <<unchecked, asking, at, eligible>>
reportVars == <<reported, logged>>
history == <<always, ever, unread>>
pollVars == <<trackerVars, walkVars, filterVars, reportVars, history, stage, listed, polls>>

PollInit ==
    /\ deps \in Bodies
    /\ \E t \in Trackers : todo = t.todo /\ closed = t.closed
    /\ stage = "idle" /\ listed = {}
    /\ color = [i \in IssueIDs |-> "white"] /\ parent = [i \in IssueIDs |-> NoIssue]
    /\ stack = <<>> /\ cycleNodes = {}
    /\ unchecked = {} /\ asking = NoIssue /\ at = 1 /\ eligible = {}
    /\ reported = {} /\ logged = <<>>
    /\ always = {} /\ ever = {} /\ unread = {}
    /\ polls = 0 /\ edits = 0

\* depGraph, and the nodes detectCycles collects from it.
Edges(i) == IF i \in listed THEN deps[i] ELSE <<>>
Targets(i) == {Edges(i)[n] : n \in DOMAIN Edges(i)}
Nodes == UNION {{i} \cup Targets(i) : i \in {j \in listed : deps[j] # <<>>}}

-----------------------------------------------------------------------------
(* The tracker, while the poll runs or not. *)

Edit(i) ==
    /\ edits < MaxEdits
    /\ edits' = edits + 1
    /\ \/ i \in todo /\ todo' = todo \ {i} /\ closed' \in {closed, closed \cup {i}}
       \/ i \in closed /\ closed' = closed \ {i} /\ todo' \in {todo, todo \cup {i}}
       \/ /\ i \notin todo \cup closed
          /\ \/ todo' = todo \cup {i} /\ UNCHANGED closed
             \/ closed' = closed \cup {i} /\ UNCHANGED todo
    /\ always' = always \cap closed'
    /\ ever' = ever \cup closed'
    /\ UNCHANGED <<deps, walkVars, filterVars, reportVars, unread, stage, listed, polls>>

-----------------------------------------------------------------------------
(* detectCycles *)

ListIssues ==
    /\ stage = "idle" /\ polls < MaxPolls
    /\ polls' = polls + 1
    /\ stage' = "walking"
    /\ listed' = todo
    /\ color' = [i \in IssueIDs |-> "white"] /\ parent' = [i \in IssueIDs |-> NoIssue]
    /\ cycleNodes' = {} /\ eligible' = {}
    /\ always' = closed /\ ever' = closed /\ unread' = {}
    /\ UNCHANGED <<trackerVars, stack, unchecked, asking, at, reportVars>>

Frame(i) == [node |-> i, idx |-> 1]
Top == stack[Len(stack)]
Walking == stage = "walking" /\ stack # <<>>
OnEdge == Walking /\ Top.idx <= Len(Edges(Top.node))
Neighbour == Edges(Top.node)[Top.idx]
Advanced == [stack EXCEPT ![Len(stack)].idx = @ + 1]
WalkUnchanged == UNCHANGED <<trackerVars, filterVars, reportVars, history, stage, listed, polls>>

\* The nodes are taken in the order of a Go map: any.
StartRoot(i) ==
    /\ stage = "walking" /\ stack = <<>>
    /\ i \in Nodes /\ color[i] = "white"
    /\ stack' = <<Frame(i)>>
    /\ color' = [color EXCEPT ![i] = "gray"]
    /\ UNCHANGED <<parent, cycleNodes>>
    /\ WalkUnchanged

Pop ==
    /\ Walking /\ Top.idx > Len(Edges(Top.node))
    /\ color' = [color EXCEPT ![Top.node] = "black"]
    /\ stack' = SubSeq(stack, 1, Len(stack) - 1)
    /\ UNCHANGED <<parent, cycleNodes>>
    /\ WalkUnchanged

Descend ==
    /\ OnEdge /\ color[Neighbour] = "white"
    /\ color' = [color EXCEPT ![Neighbour] = "gray"]
    /\ parent' = [parent EXCEPT ![Neighbour] = Top.node]
    /\ stack' = Append(Advanced, Frame(Neighbour))
    /\ UNCHANGED cycleNodes
    /\ WalkUnchanged

\* From cur back to next along the parents: the least set that has cur and, of all it
\* has but next, the parent.
BackTo(cur, next) ==
    {i \in IssueIDs : \A S \in SUBSET IssueIDs :
                        cur \in S /\ (\A j \in S \ {next} : parent[j] \in S) => i \in S}

\* Bug for comparison: the whole path is marked, not the part that is the cycle.
BackEdgeWholePath ==
    /\ OnEdge /\ color[Neighbour] = "gray"
    /\ stack' = Advanced
    /\ cycleNodes' = cycleNodes \cup {stack[n].node : n \in DOMAIN stack}
    /\ UNCHANGED <<color, parent>>
    /\ WalkUnchanged
BackEdge ==
    /\ OnEdge /\ color[Neighbour] = "gray"
    /\ stack' = Advanced
    /\ cycleNodes' = cycleNodes \cup BackTo(Top.node, Neighbour)
    /\ UNCHANGED <<color, parent>>
    /\ WalkUnchanged

\* Bug for comparison: the index is left where it is.
SkipBlackAgain ==
    /\ OnEdge /\ color[Neighbour] = "black"
    /\ UNCHANGED walkVars
    /\ WalkUnchanged
SkipBlack ==
    /\ OnEdge /\ color[Neighbour] = "black"
    /\ stack' = Advanced
    /\ UNCHANGED <<color, parent, cycleNodes>>
    /\ WalkUnchanged

\* Bug for comparison: only what the first node reaches is walked.
EndWalkAfterFirst ==
    /\ stage = "walking" /\ stack = <<>>
    /\ Nodes # {} => \E i \in Nodes : color[i] # "white"
    /\ stage' = "filtering"
    /\ unchecked' = listed
    /\ UNCHANGED <<trackerVars, walkVars, asking, at, eligible, reportVars, history, listed, polls>>
EndWalk ==
    /\ stage = "walking" /\ stack = <<>>
    /\ \A i \in Nodes : color[i] # "white"
    /\ stage' = "filtering"
    /\ unchecked' = listed
    /\ UNCHANGED <<trackerVars, walkVars, asking, at, eligible, reportVars, history, listed, polls>>

-----------------------------------------------------------------------------
(* The filter of loopPollCmd *)

FilterUnchanged ==
    UNCHANGED <<trackerVars, walkVars, reportVars, always, ever, stage, listed, polls>>

TakeIssue(i) ==
    /\ stage = "filtering" /\ asking = NoIssue /\ i \in unchecked
    /\ unchecked' = unchecked \ {i}
    /\ at' = 1
    /\ IF i \in cycleNodes THEN UNCHANGED <<asking, eligible>>
       ELSE IF deps[i] = <<>> THEN eligible' = eligible \cup {i} /\ UNCHANGED asking
       ELSE asking' = i /\ UNCHANGED eligible
    /\ UNCHANGED unread
    /\ FilterUnchanged

\* Bug for comparison: an unread dependency is passed over.
GetIssueFailsOpen ==
    /\ stage = "filtering" /\ asking # NoIssue
    /\ IF at = Len(deps[asking])
       THEN eligible' = eligible \cup {asking} /\ asking' = NoIssue /\ UNCHANGED at
       ELSE at' = at + 1 /\ UNCHANGED <<asking, eligible>>
    /\ unread' = unread \cup {asking}
    /\ UNCHANGED unchecked
    /\ FilterUnchanged
\* A dependency that cannot be read is taken as open.
GetIssueFails ==
    /\ stage = "filtering" /\ asking # NoIssue
    /\ asking' = NoIssue
    /\ unread' = unread \cup {asking}
    /\ UNCHANGED <<unchecked, at, eligible>>
    /\ FilterUnchanged

\* Bug for comparison: an issue that has lost its todo label counts as done.
GetIssueLabel ==
    /\ stage = "filtering" /\ asking # NoIssue
    /\ IF deps[asking][at] \notin todo /\ at = Len(deps[asking])
       THEN eligible' = eligible \cup {asking} /\ asking' = NoIssue /\ UNCHANGED at
       ELSE IF deps[asking][at] \notin todo THEN at' = at + 1 /\ UNCHANGED <<asking, eligible>>
       ELSE asking' = NoIssue /\ UNCHANGED <<at, eligible>>
    /\ UNCHANGED <<unchecked, unread>>
    /\ FilterUnchanged
GetIssue ==
    /\ stage = "filtering" /\ asking # NoIssue
    /\ \/ /\ deps[asking][at] \notin closed
          /\ asking' = NoIssue
          /\ UNCHANGED <<at, eligible>>
       \/ /\ deps[asking][at] \in closed /\ at < Len(deps[asking])
          /\ at' = at + 1
          /\ UNCHANGED <<asking, eligible>>
       \/ /\ deps[asking][at] \in closed /\ at = Len(deps[asking])
          /\ eligible' = eligible \cup {asking}
          /\ asking' = NoIssue
          /\ UNCHANGED at
    /\ UNCHANGED <<unchecked, unread>>
    /\ FilterUnchanged

EndFilter ==
    /\ stage = "filtering" /\ asking = NoIssue /\ unchecked = {}
    /\ stage' = "answered"
    /\ UNCHANGED <<trackerVars, walkVars, filterVars, reportVars, history, listed, polls>>

\* handleLoopPoll logs the circular dependencies when their list has changed.
Report ==
    /\ stage = "answered"
    /\ stage' = "idle"
    /\ reported' = cycleNodes
    /\ logged' = IF cycleNodes = reported THEN logged
                 ELSE Append(logged, [listed |-> listed, nodes |-> cycleNodes])
    /\ UNCHANGED <<trackerVars, walkVars, filterVars, history, listed, polls>>

-----------------------------------------------------------------------------
PollStep ==
    \/ (\E i \in IssueIDs : StartRoot(i) \/ TakeIssue(i))
    \/ Pop \/ Descend \/ BackEdge \/ SkipBlack \/ EndWalk
    \/ GetIssue \/ GetIssueFails \/ EndFilter \/ Report

PollNext == (\E i \in IssueIDs : Edit(i)) \/ ListIssues \/ PollStep

PollSpec == PollInit /\ [][PollNext]_pollVars
\* The goroutine of the command runs on; GetIssue returns or fails in 30 seconds.
PollFairSpec == PollSpec /\ WF_pollVars(PollStep)

-----------------------------------------------------------------------------
(* Properties *)

PollTypeOK ==
    /\ todo \subseteq IssueIDs /\ closed \subseteq IssueIDs \ todo
    /\ color \in [IssueIDs -> {"white", "gray", "black"}]
    /\ \A n \in DOMAIN stack : color[stack[n].node] = "gray"
    /\ \A m, n \in DOMAIN stack : stack[m].node = stack[n].node => m = n
    /\ asking \in IssueIDs \cup {NoIssue}
    /\ eligible \subseteq listed
    /\ stage = "idle" => stack = <<>> /\ unchecked = {} /\ asking = NoIssue

\* Reference definition: what i reaches along the dependencies of listed issues.
Reach(i) ==
    {j \in IssueIDs : \A S \in SUBSET IssueIDs :
                        Targets(i) \subseteq S /\ (\A k \in S : Targets(k) \subseteq S) => j \in S}
OnCycle(i) == i \in Reach(i)
\* Two issues that reach one another wait for one another.
Mutual(i, j) == j \in Reach(i) /\ i \in Reach(j)

\* The parents lead only along the current path, whatever was walked before: an
\* issue that waits for a cycle without being on it is not reported (detectCycles).
ReportedAreOnCycles == \A i \in cycleNodes : OnCycle(i)

Walked == stage \in {"filtering", "answered"}

\* Every knot of circular dependencies shows in the report, in whatever order the
\* map is walked: of the issues that wait for one another some are reported.
KnotsAreReported ==
    Walked => \A i \in IssueIDs : OnCycle(i) => \E j \in cycleNodes : Mutual(i, j)

\* An issue that waits for itself stays out, reported or not, as long as nobody
\* closes an issue of its knot while the poll runs.
KnotsAreNotEligible ==
    Walked => \A i \in eligible :
        OnCycle(i) => \E j \in ever : Mutual(i, j)

\* An issue is reported only if it waits for itself; of issues that wait for one another
\* some are reported, in whatever order the map of issues is walked; and none of them is
\* eligible, reported or not, as long as no issue of the knot was closed during the poll
\* (detectCycles, filterByDependencies).
CyclesAreFound ==
    PollTypeOK /\ ReportedAreOnCycles /\ KnotsAreReported /\ KnotsAreNotEligible

\* "detectCycles finds all issue IDs involved in circular dependencies"
\* (loop_cmds.go:111).
AllCyclesAreReported == Walked => {i \in IssueIDs : OnCycle(i)} \subseteq cycleNodes

\* "Only log on first detection or change" (loop_handler.go:53): two reports in
\* succession are of different issues listed.
LoggedOnlyOnChange ==
    \A n \in 2..Len(logged) : logged[n].listed # logged[n - 1].listed

\* The poll answers, whatever the graph.
PollEnds == (stage = "walking") ~> (stage = "answered")

Contract == INSTANCE PollContract WITH
    Issues <- IssueIDs, NoAnswer <- {NoIssue},
    wanted <- [i \in IssueIDs |-> {deps[i][n] : n \in DOMAIN deps[i]}],
    answer <- IF polls = 0 \/ stage \in {"walking", "filtering"} THEN {NoIssue} ELSE eligible
\* Read by read and interleaved with changes of the tracker, the poll answers as
\* one that takes the tracker as a whole (what LoopEngine's PollTodo relies on).
ImplementsContract == Contract!Spec

===============================================================================
