---------------------------- MODULE LoopPoll_proofs ----------------------------
(***************************************************************************)
(* Theorems about LoopPoll: the walk of detectCycles reports issues that   *)
(* wait for themselves, and some of every knot, in whatever order it       *)
(* visits them; and a poll that is read step by step implements            *)
(* PollContract.                                                           *)
(***************************************************************************)
EXTENDS LoopPoll, TLAPS

Frames == [node: IssueIDs, idx: Nat \ {0}]
Stages == {"idle", "walking", "filtering", "answered"}

PollShape ==
    /\ deps \in [IssueIDs -> Seq(IssueIDs)]
    /\ todo \subseteq IssueIDs /\ closed \subseteq IssueIDs \ todo
    /\ stage \in Stages
    /\ listed \subseteq IssueIDs
    /\ color \in [IssueIDs -> {"white", "gray", "black"}]
    /\ parent \in [IssueIDs -> IssueIDs \cup {NoIssue}]
    /\ stack \in Seq(Frames)
    /\ cycleNodes \subseteq IssueIDs
    /\ unchecked \subseteq listed
    /\ asking \in listed \cup {NoIssue}
    /\ at \in Nat \ {0}
    /\ eligible \subseteq listed
    /\ polls \in Nat

\* Each part of the poll works only in its own stage.
StageInv ==
    /\ stage # "walking" => stack = <<>>
    /\ stage # "filtering" => asking = NoIssue /\ unchecked = {}
    /\ stage = "walking" => eligible = {}
    /\ asking # NoIssue => at <= Len(deps[asking])
    /\ stage # "idle" => polls > 0

-----------------------------------------------------------------------------
(* What an issue reaches along the dependencies *)

\* The dependencies the walk follows are issues of the tracker.
LEMMA TargetsTyped ==
    ASSUME PollShape, NEW i \in IssueIDs
    PROVE  /\ Edges(i) \in Seq(IssueIDs)
           /\ Targets(i) \subseteq IssueIDs
           /\ i \notin listed => Targets(i) = {}
  BY DEF PollShape, Edges, Targets

\* An issue reaches what it depends on.
LEMMA ReachTargets ==
    ASSUME PollShape, NEW i \in IssueIDs
    PROVE  Targets(i) \subseteq Reach(i)
  BY TargetsTyped DEF Reach

\* What an issue reaches is closed under dependencies.
LEMMA ReachClosed ==
    ASSUME PollShape, NEW i \in IssueIDs, NEW j \in Reach(i)
    PROVE  Targets(j) \subseteq Reach(i)
<1>1. j \in IssueIDs
  BY DEF Reach
<1>2. SUFFICES ASSUME NEW t \in Targets(j), NEW S \in SUBSET IssueIDs,
                      Targets(i) \subseteq S, \A k \in S : Targets(k) \subseteq S
               PROVE  t \in S
  BY <1>1, TargetsTyped DEF Reach
<1>3. j \in S
  BY <1>2 DEF Reach
<1> QED
  BY <1>2, <1>3

\* It is the least such set.
LEMMA ReachLeast ==
    ASSUME NEW i \in IssueIDs, NEW S \in SUBSET IssueIDs,
           Targets(i) \subseteq S, \A k \in S : Targets(k) \subseteq S
    PROVE  Reach(i) \subseteq S
  BY DEF Reach

LEMMA ReachTransitive ==
    ASSUME PollShape, NEW i \in IssueIDs, NEW j \in Reach(i)
    PROVE  Reach(j) \subseteq Reach(i)
<1>1. j \in IssueIDs /\ Reach(i) \in SUBSET IssueIDs
  BY DEF Reach
<1>2. Targets(j) \subseteq Reach(i) /\ \A k \in Reach(i) : Targets(k) \subseteq Reach(i)
  BY ReachClosed
<1> QED
  BY <1>1, <1>2, ReachLeast

\* Who reaches anything does so by way of a dependency of its own.
LEMMA ReachByTarget ==
    ASSUME PollShape, NEW i \in IssueIDs, NEW j \in Reach(i)
    PROVE  \E t \in Targets(i) : t = j \/ j \in Reach(t)
<1> DEFINE S == Targets(i) \cup UNION {Reach(t) : t \in Targets(i)}
<1>1. S \in SUBSET IssueIDs
  BY TargetsTyped DEF Reach
<1>2. ASSUME NEW k \in S PROVE Targets(k) \subseteq S
  <2>1. CASE k \in Targets(i)
    BY <2>1, TargetsTyped, ReachTargets
  <2>2. CASE \E t \in Targets(i) : k \in Reach(t)
    <3>1. PICK t \in Targets(i) : k \in Reach(t)
      BY <2>2
    <3>2. Targets(k) \subseteq Reach(t)
      BY <3>1, TargetsTyped, ReachClosed
    <3> QED
      BY <3>1, <3>2
  <2> QED
    BY <2>1, <2>2
<1>3. Targets(i) \subseteq S
  OBVIOUS
<1>4. Reach(i) \subseteq S
  <2> HIDE DEF S
  <2> QED
    BY <1>1, <1>2, <1>3, ReachLeast
<1> QED
  BY <1>4

\* An issue that waits for itself has a dependency that waits for it.
LEMMA CycleByTarget ==
    ASSUME PollShape, NEW i \in IssueIDs, OnCycle(i)
    PROVE  \E t \in Targets(i) : Mutual(i, t) /\ t \in listed
<1>1. PICK t \in Targets(i) : t = i \/ i \in Reach(t)
  BY ReachByTarget DEF OnCycle
<1>2. t \in IssueIDs /\ t \in Reach(i)
  BY TargetsTyped, ReachTargets
<1>3. i \in Reach(t)
  BY <1>1, <1>2
<1>4. t \in listed
  <2>1. \E u \in Targets(t) : TRUE
    BY <1>2, <1>3, ReachByTarget
  <2> QED
    BY <2>1, <1>2, TargetsTyped
<1> QED
  BY <1>2, <1>3, <1>4 DEF Mutual

\* To wait for one another is transitive.
LEMMA MutualTransitive ==
    ASSUME PollShape, NEW i \in IssueIDs, NEW j \in IssueIDs, NEW k \in IssueIDs,
           Mutual(i, j), Mutual(j, k)
    PROVE  Mutual(i, k)
  BY ReachTransitive DEF Mutual

\* Nothing but a new poll changes the graph.
LEMMA GraphKept ==
    ASSUME UNCHANGED <<deps, listed>>
    PROVE  /\ \A i : Edges(i)' = Edges(i)
           /\ \A i : Targets(i)' = Targets(i)
           /\ \A i : Reach(i)' = Reach(i)
           /\ \A i : OnCycle(i)' = OnCycle(i)
           /\ \A i, j : Mutual(i, j)' = Mutual(i, j)
           /\ Nodes' = Nodes
<1>1. \A i : Edges(i)' = Edges(i)
  BY DEF Edges
<1>2. \A i : Targets(i)' = Targets(i)
  BY <1>1 DEF Targets
<1>3. \A i : Reach(i)' = Reach(i)
  BY <1>2 DEF Reach
<1>4. \A i : OnCycle(i)' = OnCycle(i)
  BY <1>3 DEF OnCycle
<1>5. \A i, j : Mutual(i, j)' = Mutual(i, j)
  BY <1>3 DEF Mutual
<1>6. Nodes' = Nodes
  BY <1>2 DEF Nodes
<1> QED
  BY <1>1, <1>2, <1>3, <1>4, <1>5, <1>6

-----------------------------------------------------------------------------
(* The kinds of the variables, and which part works when *)

LEMMA ShapeInit ==
    ASSUME PollAssumption, PollInit
    PROVE  PollShape /\ StageInv
<1>1. PICK t \in Trackers : todo = t.todo /\ closed = t.closed
  BY DEF PollInit
<1>2. todo \subseteq IssueIDs /\ closed \subseteq IssueIDs \ todo
  BY <1>1 DEF PollAssumption
<1>3. deps \in [IssueIDs -> Seq(IssueIDs)]
  BY DEF PollAssumption, PollInit
<1> QED
  BY <1>2, <1>3 DEF PollInit, PollShape, StageInv, Stages

\* The frame on top of a stack that is not empty.
LEMMA TopTyped ==
    ASSUME PollShape, stack # <<>>
    PROVE  /\ Len(stack) \in Nat \ {0} /\ Len(stack) \in DOMAIN stack
           /\ Top \in Frames /\ Top = stack[Len(stack)]
           /\ Top.node \in IssueIDs /\ Top.idx \in Nat \ {0}
<1>1. Len(stack) \in Nat \ {0} /\ Len(stack) \in DOMAIN stack
  BY DEF PollShape
<1>2. stack[Len(stack)] \in Frames
  BY <1>1 DEF PollShape
<1>3. stack[Len(stack)].node \in IssueIDs /\ stack[Len(stack)].idx \in Nat \ {0}
  BY <1>2 DEF Frames
<1> QED
  BY <1>1, <1>2, <1>3 DEF Top

\* A step along an edge moves the index of the frame on top and leaves the others.
LEMMA AdvancedTyped ==
    ASSUME PollShape, OnEdge
    PROVE  /\ Advanced \in Seq(Frames) /\ Len(Advanced) = Len(stack)
           /\ Advanced # <<>>
           /\ \A n \in DOMAIN stack : n # Len(stack) => Advanced[n] = stack[n]
           /\ Advanced[Len(stack)] = [node |-> Top.node, idx |-> Top.idx + 1]
           /\ Neighbour \in IssueIDs /\ Neighbour \in Targets(Top.node)
<1>1. stack # <<>>
  BY DEF OnEdge, Walking
<1>2. Top \in Frames /\ Len(stack) \in DOMAIN stack /\ Top = stack[Len(stack)]
  BY <1>1, TopTyped
<1>3. Advanced = [stack EXCEPT ![Len(stack)] = [node |-> Top.node, idx |-> Top.idx + 1]]
  <2>1. \A f \in Frames : [f EXCEPT !.idx = f.idx + 1] = [node |-> f.node, idx |-> f.idx + 1]
    BY DEF Frames
  <2>2. Advanced = [stack EXCEPT ![Len(stack)] = [stack[Len(stack)] EXCEPT !.idx = stack[Len(stack)].idx + 1]]
    BY DEF Advanced
  <2> QED
    BY <1>2, <2>1, <2>2
<1>4. [node |-> Top.node, idx |-> Top.idx + 1] \in Frames
  BY <1>2 DEF Frames
<1>5. Advanced \in Seq(Frames) /\ Len(Advanced) = Len(stack)
  BY <1>2, <1>3, <1>4 DEF PollShape
<1>6. Top.idx \in DOMAIN Edges(Top.node) /\ Edges(Top.node) \in Seq(IssueIDs)
  BY <1>2, TargetsTyped DEF OnEdge, Frames
<1>7. Neighbour \in IssueIDs /\ Neighbour \in Targets(Top.node)
  BY <1>6 DEF Neighbour, Targets
<1>8. \A n \in DOMAIN stack : n # Len(stack) => Advanced[n] = stack[n]
  BY <1>3 DEF PollShape
<1>9. Advanced[Len(stack)] = [node |-> Top.node, idx |-> Top.idx + 1]
  BY <1>2, <1>3
<1> QED
  BY <1>1, <1>2, <1>5, <1>7, <1>8, <1>9

\* The stack of a descent: the old one moved on, and a frame for the neighbour.
LEMMA DescendTyped ==
    ASSUME PollShape, Descend
    PROVE  /\ stack' \in Seq(Frames) /\ Len(stack') = Len(stack) + 1
           /\ \A n \in DOMAIN stack : n # Len(stack) => stack'[n] = stack[n]
           /\ stack'[Len(stack)] = [node |-> Top.node, idx |-> Top.idx + 1]
           /\ stack'[Len(stack) + 1] = Frame(Neighbour)
<1>1. OnEdge /\ stack' = Append(Advanced, Frame(Neighbour))
  BY DEF Descend
<1>2. /\ Advanced \in Seq(Frames) /\ Len(Advanced) = Len(stack)
      /\ \A n \in DOMAIN stack : n # Len(stack) => Advanced[n] = stack[n]
      /\ Advanced[Len(stack)] = [node |-> Top.node, idx |-> Top.idx + 1]
      /\ Neighbour \in IssueIDs
  BY <1>1, AdvancedTyped
<1>3. Frame(Neighbour) \in Frames
  BY <1>2 DEF Frame, Frames
<1>4. Len(stack) \in Nat \ {0} /\ stack \in Seq(Frames)
  BY <1>1, TopTyped DEF OnEdge, Walking, PollShape
<1> QED
  BY <1>1, <1>2, <1>3, <1>4

\* The stack of a node that is done.
LEMMA PopTyped ==
    ASSUME PollShape, Pop
    PROVE  /\ stack' \in Seq(Frames) /\ Len(stack') = Len(stack) - 1
           /\ Len(stack) \in Nat \ {0}
           /\ \A n \in DOMAIN stack' : n \in DOMAIN stack /\ n # Len(stack) /\ stack'[n] = stack[n]
           /\ \A n \in DOMAIN stack : n # Len(stack) => n \in DOMAIN stack'
<1>1. stack # <<>> /\ stack' = SubSeq(stack, 1, Len(stack) - 1)
  BY DEF Pop, Walking
<1>2. Len(stack) \in Nat \ {0} /\ stack \in Seq(Frames)
  BY <1>1, TopTyped DEF PollShape
<1>3. PICK k \in Nat : k = Len(stack) - 1
  BY <1>2
<1>4. stack' = SubSeq(stack, 1, k) /\ \A n \in 1..k : stack[n] \in Frames
  BY <1>1, <1>2, <1>3
<1>5. stack' \in Seq(Frames) /\ Len(stack') = k
  BY <1>2, <1>3, <1>4
<1>6. \A n \in 1..k : stack'[n] = stack[n]
  BY <1>2, <1>3, <1>4
<1> QED
  BY <1>2, <1>3, <1>5, <1>6

LEMMA ShapeStep ==
    ASSUME PollAssumption, PollShape, StageInv, [PollNext]_pollVars
    PROVE  PollShape' /\ StageInv'
<1> USE DEF PollShape, StageInv, Stages
<1>1. ASSUME NEW i \in IssueIDs, Edit(i) PROVE PollShape' /\ StageInv'
  BY <1>1 DEF Edit, walkVars, filterVars, reportVars
<1>2. CASE ListIssues
  BY <1>2 DEF ListIssues, trackerVars, reportVars
<1>3. ASSUME NEW i \in IssueIDs, StartRoot(i) PROVE PollShape' /\ StageInv'
  <2>1. Frame(i) \in Frames
    BY DEF Frame, Frames
  <2> QED
    BY <1>3, <2>1 DEF StartRoot, WalkUnchanged, trackerVars, filterVars, reportVars, history
<1>4. CASE Pop
  <2>1. stack' \in Seq(Frames) /\ Top.node \in IssueIDs
    BY <1>4, PopTyped, TopTyped DEF Pop, Walking
  <2> QED
    BY <1>4, <2>1 DEF Pop, Walking, WalkUnchanged, trackerVars, filterVars, reportVars, history
<1>5. CASE Descend
  <2>1. stack' \in Seq(Frames) /\ Neighbour \in IssueIDs /\ Top.node \in IssueIDs
    BY <1>5, DescendTyped, AdvancedTyped, TopTyped DEF Descend, OnEdge, Walking
  <2> QED
    BY <1>5, <2>1 DEF Descend, OnEdge, Walking, WalkUnchanged, trackerVars, filterVars, reportVars, history
<1>6. CASE BackEdge
  <2>1. stack' \in Seq(Frames) /\ BackTo(Top.node, Neighbour) \subseteq IssueIDs
    BY <1>6, AdvancedTyped DEF BackEdge, BackTo
  <2> QED
    BY <1>6, <2>1 DEF BackEdge, OnEdge, Walking, WalkUnchanged, trackerVars, filterVars, reportVars, history
<1>7. CASE SkipBlack
  <2>1. stack' \in Seq(Frames)
    BY <1>7, AdvancedTyped DEF SkipBlack
  <2> QED
    BY <1>7, <2>1 DEF SkipBlack, OnEdge, Walking, WalkUnchanged, trackerVars, filterVars, reportVars, history
<1>8. CASE EndWalk
  BY <1>8 DEF EndWalk, trackerVars, walkVars, reportVars, history
<1>9. ASSUME NEW i \in IssueIDs, TakeIssue(i) PROVE PollShape' /\ StageInv'
  BY <1>9 DEF TakeIssue, FilterUnchanged, trackerVars, walkVars, reportVars
<1>10. CASE GetIssue
  BY <1>10 DEF GetIssue, FilterUnchanged, trackerVars, walkVars, reportVars
<1>11. CASE GetIssueFails
  BY <1>11 DEF GetIssueFails, FilterUnchanged, trackerVars, walkVars, reportVars
<1>12. CASE EndFilter
  BY <1>12 DEF EndFilter, trackerVars, walkVars, filterVars, reportVars, history
<1>13. CASE Report
  BY <1>13 DEF Report, trackerVars, walkVars, filterVars, reportVars, history
<1>14. CASE UNCHANGED pollVars
  BY <1>14 DEF pollVars, trackerVars, walkVars, filterVars, reportVars, history
<1> QED
  BY <1>1, <1>2, <1>3, <1>4, <1>5, <1>6, <1>7, <1>8, <1>9, <1>10, <1>11, <1>12, <1>13, <1>14
     DEF PollNext, PollStep

-----------------------------------------------------------------------------
(* The walk *)

\* The gray nodes are those on the stack, each once.
GrayInv ==
    /\ \A n \in DOMAIN stack : color[stack[n].node] = "gray"
    /\ \A m, n \in DOMAIN stack : stack[m].node = stack[n].node => m = n
    /\ \A i \in IssueIDs : color[i] = "gray" => \E n \in DOMAIN stack : stack[n].node = i

\* The stack is a path, and the parents lead back along it.
PathInv ==
    /\ \A n \in DOMAIN stack : n > 1 => parent[stack[n].node] = stack[n - 1].node
    /\ \A a, b \in DOMAIN stack : a < b => stack[b].node \in Reach(stack[a].node)

\* The edges of a node on the stack that have been looked at.
Seen(n) == {Edges(stack[n].node)[m] : m \in DOMAIN Edges(stack[n].node) \cap 1..(stack[n].idx - 1)}

\* They lead to nodes that are done, or to the next one on the stack, unless the
\* node is reported.
SeenInv ==
    \A n \in DOMAIN stack : \A t \in Seen(n) :
        \/ color[t] = "black"
        \/ stack[n].node \in cycleNodes
        \/ n + 1 \in DOMAIN stack /\ stack[n + 1].node = t

\* Of every knot that a node which is done lies in, some are reported.
KnotInv ==
    \A i \in IssueIDs : color[i] = "black" /\ OnCycle(i) => \E j \in cycleNodes : Mutual(i, j)

WalkInv ==
    /\ GrayInv /\ PathInv /\ SeenInv /\ KnotInv
    /\ ReportedAreOnCycles
    /\ Walked => \A i \in Nodes : color[i] = "black"

LEMMA FrameTyped ==
    ASSUME PollShape, NEW n \in DOMAIN stack
    PROVE  stack[n] \in Frames /\ stack[n].node \in IssueIDs /\ stack[n].idx \in Nat \ {0}
<1>1. stack[n] \in Frames
  BY DEF PollShape
<1> QED
  BY <1>1 DEF Frames

LEMMA SeenTyped ==
    ASSUME PollShape, NEW n \in DOMAIN stack
    PROVE  Seen(n) \subseteq Targets(stack[n].node)
  BY DEF Seen, Targets

\* The first node of a walk.
LEMMA WalkStartRoot ==
    ASSUME PollAssumption, PollShape, StageInv, WalkInv, NEW i \in IssueIDs, StartRoot(i)
    PROVE  WalkInv'
<1>1. /\ stack = <<>> /\ stack' = <<Frame(i)>> /\ color[i] = "white"
      /\ color' = [color EXCEPT ![i] = "gray"]
      /\ UNCHANGED <<parent, cycleNodes, deps, listed, stage>> /\ stage = "walking"
  BY DEF StartRoot, WalkUnchanged, trackerVars
<1>2. /\ DOMAIN stack' = {1} /\ stack'[1].node = i /\ stack'[1].idx = 1
  BY <1>1 DEF Frame
<1>3. color' \in [IssueIDs -> {"white", "gray", "black"}] /\ color'[i] = "gray"
      /\ \A j \in IssueIDs : j # i => color'[j] = color[j]
  BY <1>1 DEF PollShape
<1>4. GrayInv'
  BY <1>1, <1>2, <1>3 DEF GrayInv, WalkInv
<1>5. PathInv'
  BY <1>2 DEF PathInv
<1>6. SeenInv'
  <2>1. Seen(1)' = {}
    BY <1>2 DEF Seen
  <2> QED
    BY <1>2, <2>1 DEF SeenInv
<1>7. KnotInv'
  BY <1>1, <1>3, GraphKept DEF KnotInv, WalkInv
<1>8. ReportedAreOnCycles' /\ ~Walked'
  BY <1>1, GraphKept DEF WalkInv, ReportedAreOnCycles, Walked
<1> QED
  BY <1>4, <1>5, <1>6, <1>7, <1>8 DEF WalkInv

\* A node is done: each of its edges leads to nodes that are done, or it is reported.
LEMMA WalkPop ==
    ASSUME PollAssumption, PollShape, StageInv, WalkInv, Pop
    PROVE  WalkInv'
<1> DEFINE x == Top.node
           L == Len(stack)
<1>1. /\ stage = "walking" /\ stack # <<>> /\ Top.idx > Len(Edges(x))
      /\ color' = [color EXCEPT ![x] = "black"]
      /\ UNCHANGED <<parent, cycleNodes, deps, listed, stage>>
  BY DEF Pop, Walking, WalkUnchanged, trackerVars
<1>2. /\ L \in Nat \ {0} /\ L \in DOMAIN stack /\ stack[L] = Top /\ x \in IssueIDs
      /\ stack[L].node = x /\ Top.idx \in Nat
  BY <1>1, TopTyped
<1>3. /\ \A n \in DOMAIN stack' : n \in DOMAIN stack /\ n # L /\ stack'[n] = stack[n]
      /\ \A n \in DOMAIN stack : n # L => n \in DOMAIN stack'
      /\ stack' \in Seq(Frames)
  BY PopTyped
<1>4. \A j \in IssueIDs : j # x => color'[j] = color[j]
  BY <1>1 DEF PollShape
<1>5. color'[x] = "black" /\ color[x] = "gray"
  BY <1>1, <1>2 DEF PollShape, WalkInv, GrayInv
<1>6. \A n \in DOMAIN stack : stack[n].node \in IssueIDs
  BY FrameTyped
<1> HIDE DEF x, L
<1>7. GrayInv'
  <2>1. \A n \in DOMAIN stack' : stack'[n].node # x
    BY <1>2, <1>3 DEF WalkInv, GrayInv
  <2>2. \A n \in DOMAIN stack' : color'[stack'[n].node] = "gray"
    BY <2>1, <1>3, <1>4, <1>6 DEF WalkInv, GrayInv
  <2>3. \A m, n \in DOMAIN stack' : stack'[m].node = stack'[n].node => m = n
    BY <1>3 DEF WalkInv, GrayInv
  <2>4. ASSUME NEW i \in IssueIDs, color'[i] = "gray"
        PROVE  \E n \in DOMAIN stack' : stack'[n].node = i
    <3>1. i # x /\ color[i] = "gray"
      BY <2>4, <1>4, <1>5
    <3>2. PICK n \in DOMAIN stack : stack[n].node = i
      BY <3>1 DEF WalkInv, GrayInv
    <3>3. n # L
      BY <3>1, <3>2, <1>2
    <3> QED
      BY <3>2, <3>3, <1>3
  <2> QED
    BY <2>2, <2>3, <2>4 DEF GrayInv
<1>8. PathInv'
  <2>1. ASSUME NEW n \in DOMAIN stack', n > 1
        PROVE  parent'[stack'[n].node] = stack'[n - 1].node
    <3>1. n \in Nat /\ n - 1 \in DOMAIN stack'
      BY <2>1, <1>3
    <3> QED
      BY <2>1, <3>1, <1>1, <1>3 DEF WalkInv, PathInv
  <2>2. \A i : Reach(i)' = Reach(i)
    BY <1>1, GraphKept
  <2> QED
    BY <2>1, <2>2, <1>3 DEF WalkInv, PathInv
<1>9. SeenInv'
  <2> SUFFICES ASSUME NEW n \in DOMAIN stack', NEW t \in Seen(n)'
               PROVE  \/ color'[t] = "black"
                      \/ stack'[n].node \in cycleNodes'
                      \/ n + 1 \in DOMAIN stack' /\ stack'[n + 1].node = t
    BY DEF SeenInv
  <2>1. n \in DOMAIN stack /\ n # L /\ stack'[n] = stack[n]
    BY <1>3
  <2>2. t \in Seen(n)
    BY <2>1, <1>1, GraphKept DEF Seen
  <2>3. \/ color[t] = "black"
        \/ stack[n].node \in cycleNodes
        \/ n + 1 \in DOMAIN stack /\ stack[n + 1].node = t
    BY <2>1, <2>2 DEF WalkInv, SeenInv
  <2>4. t \in IssueIDs
    BY <2>1, <2>2, <1>6, SeenTyped, TargetsTyped
  <2>5. CASE color[t] = "black"
    BY <2>4, <2>5, <1>4, <1>5
  <2>6. CASE stack[n].node \in cycleNodes
    BY <2>1, <2>6, <1>1
  <2>7. CASE n + 1 \in DOMAIN stack /\ stack[n + 1].node = t
    <3>1. CASE n + 1 = L
      BY <3>1, <2>7, <1>2, <1>5
    <3>2. CASE n + 1 # L
      BY <3>2, <2>7, <1>3
    <3> QED
      BY <3>1, <3>2
  <2> QED
    BY <2>3, <2>5, <2>6, <2>7
<1>10. KnotInv'
  <2>1. SUFFICES ASSUME NEW i \in IssueIDs, color'[i] = "black", OnCycle(i)
                 PROVE  \E j \in cycleNodes : Mutual(i, j)
    BY <1>1, GraphKept DEF KnotInv
  <2>2. CASE i # x
    BY <2>1, <2>2, <1>4 DEF WalkInv, KnotInv
  <2>3. CASE i = x /\ x \in cycleNodes
    BY <2>1, <2>3 DEF OnCycle, Mutual
  <2>4. CASE i = x /\ x \notin cycleNodes
    <3>1. PICK t \in Targets(x) : Mutual(x, t)
      BY <2>1, <2>4, CycleByTarget
    <3>2. t \in Seen(L)
      <4>1. Edges(x) \in Seq(IssueIDs)
        BY <1>2, TargetsTyped
      <4>2. PICK m \in DOMAIN Edges(x) : t = Edges(x)[m]
        BY DEF Targets
      <4>3. m \in 1..(Top.idx - 1)
        BY <4>1, <4>2, <1>1, <1>2 DEF x
      <4> QED
        BY <4>2, <4>3, <1>2 DEF Seen
    <3>3. L + 1 \notin DOMAIN stack
      BY <1>2 DEF PollShape, L
    <3>4. color[t] = "black"
      BY <3>2, <3>3, <2>4, <1>2 DEF WalkInv, SeenInv
    <3>5. t \in IssueIDs /\ OnCycle(t) /\ cycleNodes \subseteq IssueIDs
      <4>1. t \in IssueIDs /\ t \in Reach(x) /\ x \in Reach(t)
        BY <3>1, <1>2, TargetsTyped DEF Mutual
      <4> QED
        BY <4>1, ReachTransitive DEF OnCycle, PollShape
    <3>6. PICK j \in cycleNodes : Mutual(t, j)
      BY <3>4, <3>5 DEF WalkInv, KnotInv
    <3>7. Mutual(x, j)
      BY <3>1, <3>5, <3>6, <1>2, MutualTransitive
    <3> QED
      BY <2>4, <3>7
  <2> QED
    BY <2>2, <2>3, <2>4
<1>11. ReportedAreOnCycles' /\ ~Walked'
  BY <1>1, GraphKept DEF WalkInv, ReportedAreOnCycles, Walked
<1> QED
  BY <1>7, <1>8, <1>9, <1>10, <1>11 DEF WalkInv

\* A step along an edge adds the neighbour to what the node on top has seen.
LEMMA AdvancedSeen ==
    ASSUME PollShape, OnEdge, UNCHANGED <<deps, listed>>,
           stack'[Len(stack)] = [node |-> Top.node, idx |-> Top.idx + 1],
           \A n \in DOMAIN stack : n # Len(stack) => stack'[n] = stack[n]
    PROVE  /\ \A n \in DOMAIN stack : stack'[n].node = stack[n].node
           /\ \A n \in DOMAIN stack : n # Len(stack) => Seen(n)' = Seen(n)
           /\ \A n \in DOMAIN stack : n = Len(stack) => Seen(n)' \subseteq Seen(n) \cup {Neighbour}
<1>1. Len(stack) \in DOMAIN stack /\ stack[Len(stack)] = Top /\ Top.idx \in Nat \ {0}
  BY TopTyped DEF OnEdge, Walking
<1>2. \A i : Edges(i)' = Edges(i)
  BY GraphKept
<1>3. Top.idx \in DOMAIN Edges(Top.node) /\ DOMAIN Edges(Top.node) \subseteq Nat
  BY <1>1, TopTyped, TargetsTyped DEF OnEdge, Walking
<1>4. \A n \in DOMAIN stack : n = Len(stack) => Seen(n)' \subseteq Seen(n) \cup {Neighbour}
  <2>1. SUFFICES ASSUME NEW n \in DOMAIN stack, n = Len(stack),
                        NEW m \in DOMAIN Edges(Top.node) \cap 1..Top.idx
                 PROVE  Edges(Top.node)[m] \in Seen(n) \cup {Neighbour}
    <3>1. stack[Len(stack)].node = Top.node /\ stack'[Len(stack)].node = Top.node
      BY <1>1
    <3>2. stack'[Len(stack)].idx - 1 = Top.idx
      BY <1>1
    <3> QED
      BY <1>2, <3>1, <3>2 DEF Seen
  <2>2. CASE m = Top.idx
    BY <2>2 DEF Neighbour
  <2>3. CASE m # Top.idx
    BY <2>1, <2>3, <1>1, <1>3 DEF Seen
  <2> QED
    BY <2>2, <2>3
<1>5. \A n \in DOMAIN stack : n # Len(stack) => Seen(n)' = Seen(n)
  BY <1>2 DEF Seen
<1> QED
  BY <1>1, <1>4, <1>5

\* A node seen for the first time goes on the stack.
LEMMA WalkDescend ==
    ASSUME PollAssumption, PollShape, StageInv, WalkInv, Descend
    PROVE  WalkInv'
<1> DEFINE x == Top.node
           L == Len(stack)
           y == Neighbour
<1>1. /\ OnEdge /\ stage = "walking" /\ stack # <<>> /\ color[y] = "white"
      /\ color' = [color EXCEPT ![y] = "gray"]
      /\ parent' = [parent EXCEPT ![y] = x]
      /\ UNCHANGED <<cycleNodes, deps, listed, stage>>
  BY DEF Descend, OnEdge, Walking, WalkUnchanged, trackerVars
<1>2. /\ L \in Nat \ {0} /\ L \in DOMAIN stack /\ DOMAIN stack = 1..L
      /\ stack[L].node = x /\ x \in IssueIDs
  BY <1>1, TopTyped DEF PollShape
<1>3. y \in IssueIDs /\ y \in Targets(x)
  BY <1>1, AdvancedTyped
<1>4. /\ DOMAIN stack' = 1..(L + 1) /\ stack'[L + 1].node = y /\ stack'[L + 1].idx = 1
      /\ \A n \in DOMAIN stack : stack'[n].node = stack[n].node
      /\ \A n \in DOMAIN stack : n # L => Seen(n)' = Seen(n)
      /\ \A n \in DOMAIN stack : n = L => Seen(n)' \subseteq Seen(n) \cup {y}
  <2>1. stack' \in Seq(Frames) /\ Len(stack') = L + 1 /\ stack'[L + 1] = Frame(y)
    BY DescendTyped
  <2>2. /\ stack'[L] = [node |-> x, idx |-> Top.idx + 1]
        /\ \A n \in DOMAIN stack : n # L => stack'[n] = stack[n]
    BY DescendTyped
  <2>3. /\ \A n \in DOMAIN stack : stack'[n].node = stack[n].node
        /\ \A n \in DOMAIN stack : n # L => Seen(n)' = Seen(n)
        /\ \A n \in DOMAIN stack : n = L => Seen(n)' \subseteq Seen(n) \cup {y}
    BY <2>2, <1>1, AdvancedSeen
  <2> QED
    BY <2>1, <2>3 DEF Frame
<1>5. /\ color'[y] = "gray" /\ \A j \in IssueIDs : j # y => color'[j] = color[j]
      /\ parent'[y] = x /\ \A j \in IssueIDs : j # y => parent'[j] = parent[j]
  BY <1>1, <1>3 DEF PollShape
<1>6. \A n \in DOMAIN stack : stack[n].node \in IssueIDs
  BY FrameTyped
<1>7. \A n \in DOMAIN stack : stack[n].node # y
  BY <1>1 DEF WalkInv, GrayInv
<1>8. \A n \in DOMAIN stack' : n \in DOMAIN stack \/ n = L + 1
  BY <1>2, <1>4
<1> HIDE DEF x, L, y
<1>9. GrayInv'
  <2>1. \A n \in DOMAIN stack' : color'[stack'[n].node] = "gray"
    BY <1>4, <1>5, <1>6, <1>7, <1>8 DEF WalkInv, GrayInv
  <2>2. \A m, n \in DOMAIN stack' : stack'[m].node = stack'[n].node => m = n
    BY <1>4, <1>7, <1>8 DEF WalkInv, GrayInv
  <2>3. \A i \in IssueIDs : color'[i] = "gray" => \E n \in DOMAIN stack' : stack'[n].node = i
    <3>1. \A n \in DOMAIN stack : n \in DOMAIN stack'
      BY <1>2, <1>4
    <3>2. L + 1 \in DOMAIN stack'
      BY <1>2, <1>4
    <3> QED
      BY <3>1, <3>2, <1>4, <1>5 DEF WalkInv, GrayInv
  <2> QED
    BY <2>1, <2>2, <2>3 DEF GrayInv
<1>10. PathInv'
  <2>1. ASSUME NEW n \in DOMAIN stack', n > 1
        PROVE  parent'[stack'[n].node] = stack'[n - 1].node
    <3>1. CASE n = L + 1
      BY <3>1, <1>2, <1>4, <1>5
    <3>2. CASE n \in DOMAIN stack
      <4>1. n - 1 \in DOMAIN stack
        BY <2>1, <3>2, <1>2
      <4> QED
        BY <2>1, <3>2, <4>1, <1>4, <1>5, <1>6, <1>7 DEF WalkInv, PathInv
    <3> QED
      BY <3>1, <3>2, <1>8
  <2>2. ASSUME NEW a \in DOMAIN stack', NEW b \in DOMAIN stack', a < b
        PROVE  stack'[b].node \in Reach(stack'[a].node)
    <3>1. CASE b \in DOMAIN stack
      <4>1. a \in DOMAIN stack
        BY <2>2, <3>1, <1>2, <1>4
      <4> QED
        BY <2>2, <3>1, <4>1, <1>4 DEF WalkInv, PathInv
    <3>2. CASE b = L + 1
      <4>1. a \in DOMAIN stack /\ (a = L \/ a < L)
        BY <2>2, <3>2, <1>2, <1>4
      <4>2. CASE a = L
        BY <4>2, <3>2, <1>2, <1>3, <1>4, ReachTargets
      <4>3. CASE a < L
        <5>1. x \in Reach(stack[a].node)
          BY <4>1, <4>3, <1>2 DEF WalkInv, PathInv
        <5>2. Targets(x) \subseteq Reach(stack[a].node)
          BY <4>1, <5>1, <1>6, ReachClosed
        <5> QED
          BY <4>1, <5>2, <3>2, <1>3, <1>4
      <4> QED
        BY <4>1, <4>2, <4>3
    <3> QED
      BY <3>1, <3>2, <1>8
  <2>3. \A i : Reach(i)' = Reach(i)
    BY <1>1, GraphKept
  <2> QED
    BY <2>1, <2>2, <2>3 DEF PathInv
<1>11. SeenInv'
  <2> SUFFICES ASSUME NEW n \in DOMAIN stack', NEW t \in Seen(n)'
               PROVE  \/ color'[t] = "black"
                      \/ stack'[n].node \in cycleNodes'
                      \/ n + 1 \in DOMAIN stack' /\ stack'[n + 1].node = t
    BY DEF SeenInv
  <2>1. CASE n = L + 1
    <3>1. Seen(n)' = {}
      BY <2>1, <1>4 DEF Seen
    <3> QED
      BY <3>1
  <2>2. CASE n = L /\ t = y
    BY <2>2, <1>2, <1>4
  <2>3. CASE n \in DOMAIN stack /\ t \in Seen(n)
    <3>1. \/ color[t] = "black"
          \/ stack[n].node \in cycleNodes
          \/ n + 1 \in DOMAIN stack /\ stack[n + 1].node = t
      BY <2>3 DEF WalkInv, SeenInv
    <3>2. t \in IssueIDs
      BY <2>3, <1>6, SeenTyped, TargetsTyped
    <3>3. color[t] = "black" => color'[t] = "black"
      BY <3>2, <1>1, <1>5 DEF y
    <3>4. n + 1 \in DOMAIN stack => n + 1 \in DOMAIN stack'
      BY <1>2, <1>4
    <3> QED
      BY <2>3, <3>1, <3>3, <3>4, <1>1, <1>4
  <2> QED
    BY <2>1, <2>2, <2>3, <1>2, <1>4, <1>8
<1>12. KnotInv'
  BY <1>1, <1>5, GraphKept DEF WalkInv, KnotInv
<1>13. ReportedAreOnCycles' /\ ~Walked'
  BY <1>1, GraphKept DEF WalkInv, ReportedAreOnCycles, Walked
<1> QED
  BY <1>9, <1>10, <1>11, <1>12, <1>13 DEF WalkInv

\* An edge back to a node on the stack marks the part of the stack from there on.
LEMMA MarkedOnStack ==
    ASSUME PollShape, GrayInv, PathInv, OnEdge, NEW p \in DOMAIN stack,
           stack[p].node = Neighbour
    PROVE  /\ \A i \in BackTo(Top.node, Neighbour) :
                 \E n \in DOMAIN stack : p <= n /\ i = stack[n].node
           /\ Top.node \in BackTo(Top.node, Neighbour)
<1> DEFINE S == {stack[n].node : n \in {m \in DOMAIN stack : p <= m}}
<1>1. /\ Len(stack) \in DOMAIN stack /\ stack[Len(stack)].node = Top.node /\ Top.node \in IssueIDs
      /\ Len(stack) \in Nat /\ DOMAIN stack = 1..Len(stack)
  BY TopTyped DEF OnEdge, Walking, PollShape
<1>2. S \in SUBSET IssueIDs /\ Top.node \in S
  BY <1>1, FrameTyped
<1>3. ASSUME NEW j \in S \ {Neighbour} PROVE parent[j] \in S
  <2>1. PICK n \in DOMAIN stack : p <= n /\ j = stack[n].node
    BY <1>3
  <2>2. n # p
    BY <1>3, <2>1
  <2>3. n - 1 \in DOMAIN stack /\ p <= n - 1 /\ n > 1
    BY <2>1, <2>2, <1>1
  <2>4. parent[j] = stack[n - 1].node
    BY <2>1, <2>3 DEF PathInv
  <2> QED
    BY <2>3, <2>4
<1> HIDE DEF S
<1>4. BackTo(Top.node, Neighbour) \subseteq S
  BY <1>2, <1>3 DEF BackTo
<1>5. Top.node \in BackTo(Top.node, Neighbour)
  BY <1>1 DEF BackTo
<1> QED
  BY <1>4, <1>5 DEF S

\* Whoever lies on the stack above the end of such an edge waits for itself.
LEMMA MarkedOnCycle ==
    ASSUME PollShape, GrayInv, PathInv, OnEdge, color[Neighbour] = "gray",
           NEW i \in BackTo(Top.node, Neighbour)
    PROVE  OnCycle(i)
<1> DEFINE x == Top.node
           L == Len(stack)
<1>1. /\ L \in DOMAIN stack /\ stack[L].node = x /\ x \in IssueIDs
      /\ L \in Nat /\ DOMAIN stack = 1..L
  BY TopTyped DEF OnEdge, Walking, PollShape
<1>2. Neighbour \in IssueIDs /\ Neighbour \in Targets(x)
  BY AdvancedTyped
<1>3. PICK p \in DOMAIN stack : stack[p].node = Neighbour
  BY <1>2 DEF GrayInv
<1>4. PICK n \in DOMAIN stack : p <= n /\ i = stack[n].node
  BY <1>3, MarkedOnStack
<1>5. i \in IssueIDs
  BY <1>4, FrameTyped
<1> HIDE DEF x, L
<1>6. Neighbour \in Reach(i)
  <2>1. CASE n = L
    BY <2>1, <1>1, <1>2, <1>4, <1>5, ReachTargets
  <2>2. CASE n # L
    <3>1. n < L
      BY <2>2, <1>1
    <3>2. x \in Reach(i)
      BY <3>1, <1>1, <1>4 DEF PathInv
    <3> QED
      BY <3>2, <1>2, <1>5, ReachClosed
  <2> QED
    BY <2>1, <2>2
<1>7. CASE n = p
  BY <1>6, <1>7, <1>3, <1>4 DEF OnCycle
<1>8. CASE n # p
  <2>1. p < n
    BY <1>4, <1>8, <1>1
  <2>2. i \in Reach(Neighbour)
    BY <2>1, <1>3, <1>4 DEF PathInv
  <2> QED
    BY <2>2, <1>5, <1>6, ReachTransitive DEF OnCycle
<1> QED
  BY <1>7, <1>8

\* What a step along an edge to a node seen before leaves of the stack.
LEMMA AdvancedKeeps ==
    ASSUME PollShape, WalkInv, OnEdge, stack' = Advanced,
           UNCHANGED <<deps, listed, color, parent>>
    PROVE  /\ GrayInv' /\ PathInv'
           /\ DOMAIN stack' = DOMAIN stack
           /\ \A n \in DOMAIN stack : stack'[n].node = stack[n].node
           /\ \A n \in DOMAIN stack : n # Len(stack) => Seen(n)' = Seen(n)
           /\ \A n \in DOMAIN stack : n = Len(stack) => Seen(n)' \subseteq Seen(n) \cup {Neighbour}
<1>1. DOMAIN stack' = DOMAIN stack /\ DOMAIN stack \subseteq Nat
  BY AdvancedTyped DEF PollShape
<1>2. /\ \A n \in DOMAIN stack : stack'[n].node = stack[n].node
      /\ \A n \in DOMAIN stack : n # Len(stack) => Seen(n)' = Seen(n)
      /\ \A n \in DOMAIN stack : n = Len(stack) => Seen(n)' \subseteq Seen(n) \cup {Neighbour}
  BY AdvancedTyped, AdvancedSeen
<1>3. GrayInv'
  BY <1>1, <1>2 DEF WalkInv, GrayInv
<1>4. PathInv'
  <2>1. \A n \in DOMAIN stack : n > 1 => n - 1 \in DOMAIN stack
    BY DEF PollShape
  <2>2. \A i : Reach(i)' = Reach(i)
    BY GraphKept
  <2> QED
    BY <1>1, <1>2, <2>1, <2>2 DEF WalkInv, PathInv
<1> QED
  BY <1>1, <1>2, <1>3, <1>4

LEMMA WalkBackEdge ==
    ASSUME PollAssumption, PollShape, StageInv, WalkInv, BackEdge
    PROVE  WalkInv'
<1>1. /\ OnEdge /\ stage = "walking" /\ stack # <<>> /\ color[Neighbour] = "gray"
      /\ stack' = Advanced /\ cycleNodes' = cycleNodes \cup BackTo(Top.node, Neighbour)
      /\ UNCHANGED <<color, parent, deps, listed, stage>>
  BY DEF BackEdge, OnEdge, Walking, WalkUnchanged, trackerVars
<1>2. /\ GrayInv' /\ PathInv'
      /\ DOMAIN stack' = DOMAIN stack
      /\ \A n \in DOMAIN stack : stack'[n].node = stack[n].node
      /\ \A n \in DOMAIN stack : n # Len(stack) => Seen(n)' = Seen(n)
      /\ \A n \in DOMAIN stack : n = Len(stack) => Seen(n)' \subseteq Seen(n) \cup {Neighbour}
  BY <1>1, AdvancedKeeps
<1>3. GrayInv /\ PathInv
  BY DEF WalkInv
<1>4. Neighbour \in IssueIDs /\ Top.node = stack[Len(stack)].node
  BY <1>1, AdvancedTyped, TopTyped
<1>5. Top.node \in cycleNodes'
  <2>1. PICK p \in DOMAIN stack : stack[p].node = Neighbour
    BY <1>1, <1>4 DEF WalkInv, GrayInv
  <2> QED
    BY <2>1, <1>1, <1>3, MarkedOnStack
<1>6. SeenInv'
  BY <1>1, <1>2, <1>4, <1>5 DEF WalkInv, SeenInv
<1>7. KnotInv'
  BY <1>1, GraphKept DEF WalkInv, KnotInv
<1>8. ReportedAreOnCycles'
  <2>1. \A i \in BackTo(Top.node, Neighbour) : OnCycle(i)
    BY <1>1, <1>3, MarkedOnCycle
  <2> QED
    BY <2>1, <1>1, GraphKept DEF WalkInv, ReportedAreOnCycles
<1>9. ~Walked'
  BY <1>1 DEF Walked
<1> QED
  BY <1>2, <1>6, <1>7, <1>8, <1>9 DEF WalkInv

LEMMA WalkSkipBlack ==
    ASSUME PollAssumption, PollShape, StageInv, WalkInv, SkipBlack
    PROVE  WalkInv'
<1>1. /\ OnEdge /\ stage = "walking" /\ stack # <<>> /\ color[Neighbour] = "black"
      /\ stack' = Advanced
      /\ UNCHANGED <<color, parent, cycleNodes, deps, listed, stage>>
  BY DEF SkipBlack, OnEdge, Walking, WalkUnchanged, trackerVars
<1>2. /\ GrayInv' /\ PathInv'
      /\ DOMAIN stack' = DOMAIN stack
      /\ \A n \in DOMAIN stack : stack'[n].node = stack[n].node
      /\ \A n \in DOMAIN stack : n # Len(stack) => Seen(n)' = Seen(n)
      /\ \A n \in DOMAIN stack : n = Len(stack) => Seen(n)' \subseteq Seen(n) \cup {Neighbour}
  BY <1>1, AdvancedKeeps
<1>3. SeenInv'
  BY <1>1, <1>2 DEF WalkInv, SeenInv
<1>4. KnotInv' /\ ReportedAreOnCycles' /\ ~Walked'
  BY <1>1, GraphKept DEF WalkInv, KnotInv, ReportedAreOnCycles, Walked
<1> QED
  BY <1>2, <1>3, <1>4 DEF WalkInv

LEMMA WalkInit ==
    ASSUME PollAssumption, PollInit
    PROVE  WalkInv
<1>1. stack = <<>> /\ cycleNodes = {} /\ stage = "idle" /\ \A i \in IssueIDs : color[i] = "white"
  BY DEF PollInit
<1> QED
  BY <1>1 DEF WalkInv, GrayInv, PathInv, SeenInv, KnotInv, ReportedAreOnCycles, Walked

\* A step beside the walk.
LEMMA WalkAside ==
    ASSUME WalkInv, UNCHANGED <<deps, listed, walkVars>>, Walked' => Walked
    PROVE  WalkInv'
<1>1. UNCHANGED <<color, parent, stack, cycleNodes>>
  BY DEF walkVars
<1>2. GrayInv'
  BY <1>1 DEF WalkInv, GrayInv
<1>3. PathInv'
  BY <1>1, GraphKept DEF WalkInv, PathInv
<1>4. \A n : Seen(n)' = Seen(n)
  BY <1>1, GraphKept DEF Seen
<1>5. SeenInv'
  BY <1>1, <1>4 DEF WalkInv, SeenInv
<1>6. KnotInv' /\ ReportedAreOnCycles' /\ (Walked' => \A i \in Nodes' : color'[i] = "black")
  BY <1>1, GraphKept DEF WalkInv, KnotInv, ReportedAreOnCycles
<1> QED
  BY <1>2, <1>3, <1>5, <1>6 DEF WalkInv

\* The walk ends when no node is white, and then none is gray either.
LEMMA WalkEnds ==
    ASSUME PollAssumption, PollShape, WalkInv, EndWalk
    PROVE  WalkInv'
<1>1. /\ stack = <<>> /\ \A i \in Nodes : color[i] # "white"
      /\ UNCHANGED <<color, parent, stack, cycleNodes, deps, listed>>
  BY DEF EndWalk, trackerVars, walkVars
<1>2. Nodes \subseteq IssueIDs
  BY TargetsTyped DEF Nodes, PollShape
<1>3. \A i \in Nodes : color[i] = "black"
  BY <1>1, <1>2 DEF WalkInv, GrayInv, PollShape
<1>4. GrayInv'
  BY <1>1 DEF WalkInv, GrayInv
<1>5. PathInv'
  BY <1>1 DEF PathInv
<1>6. SeenInv'
  BY <1>1 DEF SeenInv
<1>7. KnotInv' /\ ReportedAreOnCycles' /\ \A i \in Nodes' : color'[i] = "black"
  BY <1>1, <1>3, GraphKept DEF WalkInv, KnotInv, ReportedAreOnCycles
<1> QED
  BY <1>4, <1>5, <1>6, <1>7 DEF WalkInv

\* A new poll begins with nothing walked.
LEMMA WalkBegins ==
    ASSUME PollAssumption, PollShape, StageInv, ListIssues
    PROVE  WalkInv'
<1>1. /\ stack' = <<>> /\ cycleNodes' = {} /\ stage' = "walking"
      /\ \A i \in IssueIDs : color'[i] = "white"
  BY DEF ListIssues, StageInv
<1> QED
  BY <1>1 DEF WalkInv, GrayInv, PathInv, SeenInv, KnotInv, ReportedAreOnCycles, Walked

LEMMA WalkStep ==
    ASSUME PollAssumption, PollShape, StageInv, WalkInv, [PollNext]_pollVars
    PROVE  WalkInv'
<1>1. ASSUME NEW i \in IssueIDs, Edit(i) PROVE WalkInv'
  BY <1>1, WalkAside DEF Edit, Walked
<1>2. CASE ListIssues
  BY <1>2, WalkBegins
<1>3. ASSUME NEW i \in IssueIDs, StartRoot(i) PROVE WalkInv'
  BY <1>3, WalkStartRoot
<1>4. CASE Pop
  BY <1>4, WalkPop
<1>5. CASE Descend
  BY <1>5, WalkDescend
<1>6. CASE BackEdge
  BY <1>6, WalkBackEdge
<1>7. CASE SkipBlack
  BY <1>7, WalkSkipBlack
<1>8. CASE EndWalk
  BY <1>8, WalkEnds
<1>9. ASSUME NEW i \in IssueIDs, TakeIssue(i) PROVE WalkInv'
  BY <1>9, WalkAside DEF TakeIssue, FilterUnchanged, trackerVars, Walked
<1>10. CASE GetIssue
  BY <1>10, WalkAside DEF GetIssue, FilterUnchanged, trackerVars, Walked
<1>11. CASE GetIssueFails
  BY <1>11, WalkAside DEF GetIssueFails, FilterUnchanged, trackerVars, Walked
<1>12. CASE EndFilter
  BY <1>12, WalkAside DEF EndFilter, trackerVars, Walked
<1>13. CASE Report
  BY <1>13, WalkAside DEF Report, trackerVars, Walked
<1>14. CASE UNCHANGED pollVars
  BY <1>14, WalkAside DEF pollVars, trackerVars, Walked
<1> QED
  BY <1>1, <1>2, <1>3, <1>4, <1>5, <1>6, <1>7, <1>8, <1>9, <1>10, <1>11, <1>12, <1>13, <1>14
     DEF PollNext, PollStep

\* Whoever waits for itself is a node of the walk.
LEMMA CyclesAreWalked ==
    ASSUME PollShape, NEW i \in IssueIDs, OnCycle(i)
    PROVE  i \in Nodes
<1>1. PICK t \in Targets(i) : TRUE
  BY CycleByTarget
<1>2. i \in listed
  BY <1>1, TargetsTyped
<1>3. deps[i] # <<>>
  BY <1>1, <1>2 DEF Targets, Edges
<1> QED
  BY <1>2, <1>3 DEF Nodes

LEMMA WalkFindsKnots ==
    ASSUME PollShape, WalkInv
    PROVE  KnotsAreReported
  BY CyclesAreWalked DEF KnotsAreReported, WalkInv, KnotInv

-----------------------------------------------------------------------------
(* The filter, beside a tracker that changes *)

HistoryInv ==
    /\ always \subseteq closed
    /\ polls > 0 => closed \subseteq ever
    /\ always \cap listed = {}

\* What was eligible had its dependencies closed when they were read.
EligibleInv ==
    /\ \A i \in eligible : Targets(i) \subseteq ever
    /\ asking # NoIssue => \A m \in 1..(at - 1) : deps[asking][m] \in ever

\* Whoever is not eligible is still to be looked at, or there is a reason.
Accounted(i) ==
    \/ i \in unchecked \cup cycleNodes \cup eligible \cup unread
    \/ i = asking
    \/ ~(Targets(i) \subseteq always)
AccountInv == Walked => \A i \in listed : Accounted(i)

FilterInv == HistoryInv /\ EligibleInv /\ AccountInv

\* What is reported waits for an issue that was todo when the poll began.
LEMMA ReportedWait ==
    ASSUME PollShape, HistoryInv, ReportedAreOnCycles, NEW i \in cycleNodes
    PROVE  ~(Targets(i) \subseteq always)
<1>1. i \in IssueIDs /\ OnCycle(i)
  BY DEF PollShape, ReportedAreOnCycles
<1>2. PICK t \in Targets(i) : t \in listed
  BY <1>1, CycleByTarget
<1> QED
  BY <1>2 DEF HistoryInv

\* A step that only lets the histories go on.
LEMMA FilterAside ==
    ASSUME PollShape, FilterInv,
           UNCHANGED <<deps, listed, cycleNodes, filterVars, unread>>,
           Walked' => Walked, HistoryInv', ever \subseteq ever', always' \subseteq always
    PROVE  FilterInv'
<1>1. \A i : Targets(i)' = Targets(i)
  BY GraphKept
<1>2. UNCHANGED <<unchecked, asking, at, eligible>>
  BY DEF filterVars
<1>3. EligibleInv'
  <2>1. \A i \in eligible' : Targets(i)' \subseteq ever'
    BY <1>1, <1>2 DEF FilterInv, EligibleInv
  <2>2. asking' # NoIssue => \A m \in 1..(at' - 1) : deps'[asking'][m] \in ever'
    BY <1>2 DEF FilterInv, EligibleInv
  <2> QED
    BY <2>1, <2>2 DEF EligibleInv
<1>4. \A i \in listed : Accounted(i) => Accounted(i)'
  BY <1>1, <1>2 DEF Accounted
<1>5. AccountInv'
  BY <1>4 DEF FilterInv, AccountInv
<1> QED
  BY <1>3, <1>5 DEF FilterInv

\* A step of the filter says for one issue more why it is not to be looked at.
LEMMA FilterMoves ==
    ASSUME PollShape, FilterInv, FilterUnchanged, HistoryInv',
           \A i \in listed : Accounted(i) => Accounted(i)'
    PROVE  AccountInv'
  BY DEF FilterUnchanged, FilterInv, AccountInv, Walked

LEMMA FilterTakes ==
    ASSUME PollAssumption, PollShape, StageInv, FilterInv, NEW i \in IssueIDs, TakeIssue(i)
    PROVE  FilterInv'
<1>1. /\ i \in unchecked /\ unchecked' = unchecked \ {i} /\ at' = 1 /\ asking = NoIssue
      /\ UNCHANGED <<deps, closed, listed, cycleNodes, unread, always, ever, polls>>
  BY DEF TakeIssue, FilterUnchanged, trackerVars, walkVars
<1>2. \A j : Targets(j)' = Targets(j)
  BY <1>1, GraphKept
<1>3. HistoryInv'
  BY <1>1 DEF FilterInv, HistoryInv
<1>4. i \in listed
  BY <1>1 DEF PollShape
<1>5. \/ i \in cycleNodes /\ UNCHANGED <<asking, eligible>>
      \/ deps[i] = <<>> /\ eligible' = eligible \cup {i} /\ UNCHANGED asking
      \/ asking' = i /\ UNCHANGED eligible
  BY DEF TakeIssue
<1>6. EligibleInv'
  <2>1. deps[i] = <<>> => Targets(i) = {}
    BY DEF Targets, Edges
  <2>2. \A j \in eligible' : Targets(j)' \subseteq ever'
    BY <2>1, <1>1, <1>2, <1>5 DEF FilterInv, EligibleInv
  <2>3. 1..(at' - 1) = {}
    BY <1>1
  <2> QED
    BY <2>2, <2>3 DEF EligibleInv
<1>7. \A j \in listed : Accounted(j) => Accounted(j)'
  <2>1. ASSUME NEW j \in listed, Accounted(j), j # i PROVE Accounted(j)'
    <3>1. j # asking
      BY <1>1 DEF PollAssumption, PollShape
    <3> QED
      BY <2>1, <3>1, <1>1, <1>2, <1>5 DEF Accounted
  <2>2. Accounted(i)'
    BY <1>1, <1>5 DEF Accounted
  <2> QED
    BY <2>1, <2>2
<1>8. AccountInv'
  BY <1>3, <1>7, FilterMoves DEF TakeIssue
<1> QED
  BY <1>3, <1>6, <1>8 DEF FilterInv

\* The dependencies read so far, and the one that is read now.
LEMMA FilterAsks ==
    ASSUME PollAssumption, PollShape, StageInv, FilterInv, GetIssue
    PROVE  FilterInv'
<1>1. /\ asking # NoIssue /\ stage = "filtering"
      /\ UNCHANGED <<deps, closed, listed, cycleNodes, unchecked, unread, always, ever, polls>>
  BY DEF GetIssue, FilterUnchanged, trackerVars, walkVars
<1>2. \A j : Targets(j)' = Targets(j)
  BY <1>1, GraphKept
<1>3. HistoryInv'
  BY <1>1 DEF FilterInv, HistoryInv
<1>4. /\ asking \in listed /\ asking \in IssueIDs /\ Edges(asking) = deps[asking]
      /\ deps[asking] \in Seq(IssueIDs) /\ at \in DOMAIN deps[asking]
      /\ deps[asking][at] \in Targets(asking)
  BY <1>1 DEF PollShape, StageInv, Edges, Targets
<1>5. closed \subseteq ever /\ always \subseteq closed
  BY <1>1 DEF FilterInv, HistoryInv, StageInv
<1>6. \A m \in 1..(at - 1) : deps[asking][m] \in ever
  BY <1>1 DEF FilterInv, EligibleInv
<1>7. CASE deps[asking][at] \notin closed /\ asking' = NoIssue /\ UNCHANGED <<at, eligible>>
  <2>1. EligibleInv'
    BY <1>1, <1>2, <1>7 DEF FilterInv, EligibleInv
  <2>2. ~(Targets(asking) \subseteq always)
    BY <1>4, <1>5, <1>7
  <2>3. \A j \in listed : Accounted(j) => Accounted(j)'
    BY <2>2, <1>1, <1>2, <1>7 DEF Accounted
  <2> QED
    BY <2>1, <2>3, <1>3, FilterMoves DEF GetIssue, FilterInv
<1>8. CASE /\ deps[asking][at] \in closed /\ at < Len(deps[asking]) /\ at' = at + 1
           /\ UNCHANGED <<asking, eligible>>
  <2>1. EligibleInv'
    <3>1. \A m \in 1..at : deps[asking][m] \in ever
      BY <1>4, <1>5, <1>6, <1>8 DEF PollShape
    <3>2. at' - 1 = at
      BY <1>8 DEF PollShape
    <3> QED
      BY <3>1, <3>2, <1>1, <1>2, <1>8 DEF FilterInv, EligibleInv
  <2>2. \A j \in listed : Accounted(j) => Accounted(j)'
    BY <1>1, <1>2, <1>8 DEF Accounted
  <2> QED
    BY <2>1, <2>2, <1>3, FilterMoves DEF GetIssue, FilterInv
<1>9. CASE /\ deps[asking][at] \in closed /\ at = Len(deps[asking])
           /\ eligible' = eligible \cup {asking} /\ asking' = NoIssue /\ UNCHANGED at
  <2>1. Targets(asking) \subseteq ever
    <3>1. \A m \in DOMAIN deps[asking] : m = at \/ m \in 1..(at - 1)
      BY <1>4, <1>9 DEF PollShape
    <3>2. \A m \in DOMAIN deps[asking] : deps[asking][m] \in ever
      BY <3>1, <1>5, <1>6, <1>9
    <3> QED
      BY <3>2, <1>4 DEF Targets
  <2>2. EligibleInv'
    BY <2>1, <1>1, <1>2, <1>9 DEF FilterInv, EligibleInv
  <2>3. \A j \in listed : Accounted(j) => Accounted(j)'
    BY <1>1, <1>2, <1>9 DEF Accounted
  <2> QED
    BY <2>2, <2>3, <1>3, FilterMoves DEF GetIssue, FilterInv
<1> QED
  BY <1>7, <1>8, <1>9 DEF GetIssue

LEMMA FilterFails ==
    ASSUME PollAssumption, PollShape, StageInv, FilterInv, GetIssueFails
    PROVE  FilterInv'
<1>1. /\ asking' = NoIssue /\ unread' = unread \cup {asking}
      /\ UNCHANGED <<deps, closed, listed, cycleNodes, unchecked, at, eligible, always, ever, polls>>
  BY DEF GetIssueFails, FilterUnchanged, trackerVars, walkVars
<1>2. \A j : Targets(j)' = Targets(j)
  BY <1>1, GraphKept
<1>3. HistoryInv' /\ EligibleInv'
  BY <1>1, <1>2 DEF FilterInv, HistoryInv, EligibleInv
<1>4. \A j \in listed : Accounted(j) => Accounted(j)'
  BY <1>1, <1>2 DEF Accounted
<1> QED
  BY <1>3, <1>4, FilterMoves DEF GetIssueFails, FilterInv

LEMMA FilterInit ==
    ASSUME PollAssumption, PollInit
    PROVE  FilterInv
  BY DEF PollInit, FilterInv, HistoryInv, EligibleInv, AccountInv, Walked

LEMMA FilterStep ==
    ASSUME PollAssumption, PollShape, StageInv, FilterInv, [PollNext]_pollVars
    PROVE  FilterInv'
<1>1. ASSUME NEW i \in IssueIDs, Edit(i) PROVE FilterInv'
  <2>1. /\ always' = always \cap closed' /\ ever' = ever \cup closed'
        /\ UNCHANGED <<deps, listed, cycleNodes, filterVars, unread, polls, stage>>
    BY <1>1 DEF Edit, walkVars
  <2>2. HistoryInv'
    BY <2>1 DEF FilterInv, HistoryInv
  <2> QED
    BY <2>1, <2>2, FilterAside DEF Walked
<1>2. CASE ListIssues
  <2>1. /\ always' = closed /\ ever' = closed /\ closed' = closed /\ listed' = todo
        /\ eligible' = {} /\ asking' = NoIssue /\ stage' = "walking"
    BY <1>2 DEF ListIssues, StageInv, trackerVars
  <2> QED
    BY <2>1 DEF FilterInv, HistoryInv, EligibleInv, AccountInv, Walked, PollShape
<1>3. ASSUME UNCHANGED <<deps, listed, cycleNodes, filterVars, history, closed, polls>>,
             Walked' => Walked
      PROVE  FilterInv'
  <2>1. HistoryInv'
    BY <1>3 DEF FilterInv, HistoryInv, history
  <2> QED
    BY <2>1, <1>3, FilterAside DEF history
<1>4. ASSUME stage = "walking", UNCHANGED <<deps, listed, filterVars, history, closed, polls, stage>>
      PROVE  FilterInv'
  <2>1. HistoryInv'
    BY <1>4 DEF FilterInv, HistoryInv, history
  <2>2. eligible' = {} /\ asking' = NoIssue
    BY <1>4 DEF StageInv, filterVars
  <2> QED
    BY <2>1, <2>2, <1>4 DEF FilterInv, EligibleInv, AccountInv, Walked
<1>5. ASSUME NEW i \in IssueIDs, StartRoot(i) PROVE FilterInv'
  BY <1>4, <1>5 DEF StartRoot, WalkUnchanged, trackerVars
<1>6. CASE Pop
  BY <1>4, <1>6 DEF Pop, Walking, WalkUnchanged, trackerVars
<1>7. CASE Descend
  BY <1>4, <1>7 DEF Descend, OnEdge, Walking, WalkUnchanged, trackerVars
<1>8. CASE BackEdge
  BY <1>4, <1>8 DEF BackEdge, OnEdge, Walking, WalkUnchanged, trackerVars
<1>9. CASE SkipBlack
  BY <1>4, <1>9 DEF SkipBlack, OnEdge, Walking, WalkUnchanged, trackerVars
<1>10. CASE EndWalk
  <2>1. /\ unchecked' = listed /\ eligible' = eligible /\ asking' = asking /\ at' = at
        /\ UNCHANGED <<deps, listed, history, closed, polls>> /\ stage = "walking"
    BY <1>10 DEF EndWalk, trackerVars
  <2>2. HistoryInv'
    BY <2>1 DEF FilterInv, HistoryInv, history
  <2>3. eligible' = {} /\ asking' = NoIssue
    BY <2>1 DEF StageInv
  <2>4. EligibleInv' /\ AccountInv'
    BY <2>1, <2>3 DEF EligibleInv, AccountInv, Accounted
  <2> QED
    BY <2>2, <2>4 DEF FilterInv
<1>11. ASSUME NEW i \in IssueIDs, TakeIssue(i) PROVE FilterInv'
  BY <1>11, FilterTakes
<1>12. CASE GetIssue
  BY <1>12, FilterAsks
<1>13. CASE GetIssueFails
  BY <1>13, FilterFails
<1>14. CASE EndFilter
  BY <1>3, <1>14 DEF EndFilter, trackerVars, walkVars, Walked
<1>15. CASE Report
  BY <1>3, <1>15 DEF Report, trackerVars, walkVars, Walked
<1>16. CASE UNCHANGED pollVars
  BY <1>3, <1>16 DEF pollVars, trackerVars, walkVars, Walked
<1> QED
  BY <1>1, <1>2, <1>5, <1>6, <1>7, <1>8, <1>9, <1>10, <1>11, <1>12, <1>13, <1>14, <1>15, <1>16
     DEF PollNext, PollStep

-----------------------------------------------------------------------------
(* The theorems *)

PollInv == PollShape /\ StageInv /\ WalkInv /\ FilterInv

LEMMA Polled ==
    ASSUME PollAssumption
    PROVE  PollSpec => []PollInv
<1>1. PollInit => PollInv
  BY ShapeInit, WalkInit, FilterInit DEF PollInv
<1>2. PollInv /\ [PollNext]_pollVars => PollInv'
  BY ShapeStep, WalkStep, FilterStep DEF PollInv
<1> QED
  BY <1>1, <1>2, PTL DEF PollSpec

LEMMA InvTyped ==
    ASSUME PollInv
    PROVE  PollTypeOK
  BY DEF PollInv, PollShape, StageInv, Stages, WalkInv, GrayInv, PollTypeOK

\* What waits for itself is not eligible while its knot is open.
LEMMA InvEligible ==
    ASSUME PollInv
    PROVE  KnotsAreNotEligible
<1>1. SUFFICES ASSUME NEW i \in eligible, OnCycle(i)
               PROVE  \E j \in ever : Mutual(i, j)
  BY DEF KnotsAreNotEligible
<1>2. PollShape /\ i \in IssueIDs
  BY DEF PollInv, PollShape
<1>3. PICK t \in Targets(i) : Mutual(i, t)
  BY <1>1, <1>2, CycleByTarget
<1> QED
  BY <1>3 DEF PollInv, FilterInv, EligibleInv

\* An issue is reported only if it waits for itself; of the issues of every knot some are
\* reported, whatever the graph and the order in which the map is walked; and none of them
\* is eligible unless somebody closes one while the poll runs (detectCycles,
\* filterByDependencies).
THEOREM CyclesFound ==
    ASSUME PollAssumption
    PROVE  PollSpec => []CyclesAreFound
<1>1. PollInv => CyclesAreFound
  BY InvTyped, InvEligible, WalkFindsKnots DEF PollInv, WalkInv, CyclesAreFound
<1> QED
  BY <1>1, Polled, PTL

LEMMA ContractInit ==
    ASSUME PollAssumption, PollInit
    PROVE  Contract!Init
<1>1. PollShape
  BY ShapeInit
<1>2. [i \in IssueIDs |-> {deps[i][n] : n \in DOMAIN deps[i]}] \in [IssueIDs -> SUBSET IssueIDs]
  BY <1>1 DEF PollShape
<1> QED
  BY <1>1, <1>2 DEF Contract!Init, PollInit, PollShape

\* An answer that is due: what the filter took is what it may take and all it must take.
LEMMA ContractAnswer ==
    ASSUME PollAssumption, PollInv, EndFilter
    PROVE  Contract!Must \subseteq eligible /\ eligible \subseteq Contract!May
<1>1. stage = "filtering" /\ asking = NoIssue /\ unchecked = {} /\ PollShape
  BY DEF EndFilter, PollInv
<1>2. \A i \in listed : {deps[i][n] : n \in DOMAIN deps[i]} = Targets(i) /\ i \in IssueIDs
  BY <1>1 DEF Targets, Edges, PollShape
<1>3. ASSUME NEW i \in listed, i \notin unread, Targets(i) \subseteq always
      PROVE  i \in eligible
  <2>1. Accounted(i)
    BY <1>1 DEF PollInv, FilterInv, AccountInv, Walked
  <2>2. i \notin cycleNodes
    BY <1>1, <1>3, ReportedWait DEF PollInv, FilterInv, WalkInv
  <2>3. i # asking
    BY <1>1, <1>2 DEF PollAssumption
  <2> QED
    BY <2>1, <2>2, <2>3, <1>1, <1>3 DEF Accounted
<1>4. \A i \in eligible : i \in listed /\ Targets(i) \subseteq ever
  BY <1>1 DEF PollInv, FilterInv, EligibleInv, PollShape
<1> QED
  BY <1>2, <1>3, <1>4 DEF Contract!Must, Contract!May

LEMMA ContractStep ==
    ASSUME PollAssumption, PollInv, PollInv', [PollNext]_pollVars
    PROVE  [Contract!Next]_(Contract!contractVars)
<1>1. PollShape /\ PollShape' /\ StageInv /\ StageInv'
  BY DEF PollInv
<1>2. ASSUME UNCHANGED <<deps, todo, closed, listed, always, ever, unread>>,
             \/ UNCHANGED <<stage, polls, eligible>>
             \/ stage \in {"walking", "filtering"} /\ stage' \in {"walking", "filtering"}
             \/ stage = "answered" /\ stage' = "idle" /\ UNCHANGED <<polls, eligible>>
      PROVE  UNCHANGED Contract!contractVars
  BY <1>1, <1>2 DEF Contract!contractVars, StageInv, PollShape
<1>3. ASSUME NEW i \in IssueIDs, Edit(i) PROVE Contract!Edit
  <2>1. todo' \in SUBSET IssueIDs /\ closed' \in SUBSET (IssueIDs \ todo')
    BY <1>1 DEF PollShape
  <2> QED
    BY <1>3, <2>1 DEF Edit, Contract!Edit, filterVars
<1>4. CASE ListIssues
  <2>1. /\ stage' = "walking" /\ listed' = todo /\ always' = closed /\ ever' = closed
        /\ unread' = {} /\ UNCHANGED <<deps, todo, closed>>
    BY <1>4 DEF ListIssues, trackerVars
  <2>2. Contract!Begin
    BY <2>1 DEF Contract!Begin
  <2> QED
    BY <2>2 DEF Contract!Next
<1>5. ASSUME NEW i \in IssueIDs, StartRoot(i) PROVE UNCHANGED Contract!contractVars
  BY <1>2, <1>5 DEF StartRoot, WalkUnchanged, trackerVars, filterVars, history
<1>6. CASE Pop
  BY <1>2, <1>6 DEF Pop, WalkUnchanged, trackerVars, filterVars, history
<1>7. CASE Descend
  BY <1>2, <1>7 DEF Descend, WalkUnchanged, trackerVars, filterVars, history
<1>8. CASE BackEdge
  BY <1>2, <1>8 DEF BackEdge, WalkUnchanged, trackerVars, filterVars, history
<1>9. CASE SkipBlack
  BY <1>2, <1>9 DEF SkipBlack, WalkUnchanged, trackerVars, filterVars, history
<1>10. CASE EndWalk
  BY <1>2, <1>10 DEF EndWalk, trackerVars, history
<1>11. ASSUME NEW i \in IssueIDs, TakeIssue(i) PROVE UNCHANGED Contract!contractVars
  BY <1>2, <1>11 DEF TakeIssue, FilterUnchanged, trackerVars
<1>12. CASE GetIssue
  BY <1>2, <1>12 DEF GetIssue, FilterUnchanged, trackerVars
<1>13. CASE GetIssueFails
  <2>1. /\ asking \in listed /\ asking \in IssueIDs /\ unread' = unread \cup {asking}
        /\ UNCHANGED <<deps, todo, closed, listed, always, ever, polls, stage>>
        /\ stage = "filtering"
    BY <1>1, <1>13 DEF GetIssueFails, FilterUnchanged, trackerVars, PollShape
  <2>2. Contract!ReadFails(asking)
    BY <2>1 DEF Contract!ReadFails
  <2> QED
    BY <2>1, <2>2 DEF Contract!Next
<1>14. CASE EndFilter
  <2>1. /\ stage = "filtering" /\ stage' = "answered"
        /\ UNCHANGED <<deps, todo, closed, listed, eligible, always, ever, unread, polls>>
    BY <1>14 DEF EndFilter, trackerVars, filterVars, history
  <2>2. polls # 0 /\ eligible \in SUBSET IssueIDs
    BY <1>1, <2>1 DEF StageInv, PollShape
  <2>3. Contract!Must \subseteq eligible /\ eligible \subseteq Contract!May
    BY <1>14, ContractAnswer
  <2>4. Contract!Answer
    BY <2>1, <2>2, <2>3 DEF Contract!Answer
  <2> QED
    BY <2>4 DEF Contract!Next
<1>15. CASE Report
  BY <1>2, <1>15 DEF Report, trackerVars, filterVars, history
<1>16. CASE UNCHANGED pollVars
  BY <1>2, <1>16 DEF pollVars, trackerVars, filterVars, history
<1> QED
  BY <1>3, <1>4, <1>5, <1>6, <1>7, <1>8, <1>9, <1>10, <1>11, <1>12, <1>13, <1>14, <1>15, <1>16
     DEF PollNext, PollStep, Contract!Next

\* Read by read and beside people and agents who relabel, close and reopen issues, the poll
\* answers as one that takes the tracker as a whole: who had its dependencies closed all the
\* time is eligible unless one could not be read, and whose dependency was open all the time
\* is not (loopPollCmd).
THEOREM PollKeepsContract ==
    ASSUME PollAssumption
    PROVE  PollSpec => ImplementsContract
<1>1. PollInit => Contract!Init
  BY ContractInit
<1>2. PollInv /\ PollInv' /\ [PollNext]_pollVars => [Contract!Next]_(Contract!contractVars)
  BY ContractStep
<1> QED
  BY <1>1, <1>2, Polled, PTL DEF PollSpec, ImplementsContract, Contract!Spec

===============================================================================
