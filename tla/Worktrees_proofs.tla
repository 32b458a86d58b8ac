-------------------------- MODULE Worktrees_proofs --------------------------
(***************************************************************************)
(* Proofs about the worktrees of a project: git's three records of each,   *)
(* the loop's slots and the commands that make and remove worktrees, step  *)
(* by step, beside agents, parallel tasks and a crash at any step.         *)
(***************************************************************************)
EXTENDS Worktrees, FiniteSetTheorems, TLAPS

Main(i) == <<i, 0>>

SlotState == {"none", "creating", "working", "cleaning", "error", "refused"}
Slot == [state : SlotState, tree : Tree \cup {NoTree}]
CreateCmd ==
    [op : {"create"}, group : (SUBSET Issues) \ {{}}, tree : Issues \X {0},
     at : {"list", "branch", "add", "hooks"}]
SweepCmd ==
    [op : {"remove"}, group : SUBSET Issues, tree : Issues \X {0},
     at : {"list", "remove", "removeOnly", "delete"}]

\* The kinds of all variables; a slot's tree is one of its own issue.
Shape ==
    /\ branches \subseteq Tree /\ trees \subseteq branches /\ dirs \subseteq Tree
    /\ IsFiniteSet(trees)
    /\ todoIssues \subseteq Issues /\ unmerged \subseteq Issues
    /\ pr \in [Issues -> {"none", "open", "merged"}]
    /\ slots \in [Issues -> Slot]
    /\ \A i \in Issues :
          /\ slots[i].tree # NoTree <=> slots[i].state \in {"working", "cleaning"}
          /\ slots[i].tree # NoTree => slots[i].tree[1] = i
    /\ cmds \subseteq CreateCmd \cup SweepCmd

\* A command of a slot finds the slot as it left it, and no other is about that slot.
OwnInv ==
    /\ \A c \in cmds : c.op = "create" => slots[IssueOf(c)].state = "creating"
    /\ \A c \in cmds :
          c.op = "remove" /\ c.group # {} => slots[IssueOf(c)].state = "cleaning"
    /\ \A c, d \in cmds :
          c.group # {} /\ d.group # {} /\ IssueOf(c) = IssueOf(d) => c = d

\* What is todo was not begun, what is not merged is in its directory, and only what is
\* merged is removed.
WorkInv ==
    /\ \A i \in todoIssues : pr[i] = "none" /\ i \notin unmerged
    /\ \A i \in unmerged : pr[i] # "merged" /\ Main(i) \in dirs
    /\ \A c \in cmds : c.op = "remove" => pr[IssueOf(c)] = "merged"

\* Only the trees of merged issues are listed without a directory, or are those of tasks
\* alone; a working slot has its issue's own directory, and no removal is about it.
DirInv ==
    /\ \A t \in trees : t \in dirs \/ pr[t[1]] = "merged"
    /\ \A t \in trees : t[2] = 0 \/ t[1] \in unmerged \/ pr[t[1]] = "merged"
    /\ \A i \in Issues :
          slots[i].state = "working" => slots[i].tree = Main(i) /\ Main(i) \in dirs
    /\ \A c \in cmds :
          c.op = "create" => IssueOf(c) \in todoIssues /\ (c.at = "hooks" => c.tree \in dirs)
    /\ \A c \in cmds :
          c.op = "remove" => slots[IssueOf(c)].state \in {"none", "cleaning"}

\* One command at a time is about an issue.
OneEach == \A c, d \in cmds : IssueOf(c) = IssueOf(d) => c = d

Whole(i) ==
    /\ Main(i) \in branches <=> Main(i) \in trees
    /\ Main(i) \in trees <=> Main(i) \in dirs

\* Git's records of an issue agree, but for a command between two of its steps.
HalfInv ==
    /\ \A i \in Issues :
          (\A c \in cmds : IssueOf(c) = i => c.at \notin {"add", "delete"}) => Whole(i)
    /\ \A c \in cmds :
          /\ c.at = "add" => c.tree \notin trees /\ c.tree \notin dirs
          /\ c.at \in {"delete", "removeOnly"} => c.tree \notin trees
          /\ c.at = "delete" => c.tree \notin dirs

\* The creations are of one poll and run in turn; the one that passed the limit still
\* has room.
LimitInv ==
    /\ \A c, d \in cmds : c.op = "create" /\ d.op = "create" => c.group = d.group
    /\ \A c, d \in cmds :
          c.op = "create" /\ d.op = "create" /\ c.at # "list" => c.tree[1] <= d.tree[1]
    /\ \A c \in cmds : c.op = "create" /\ c.at \in {"branch", "add"}
                          => Cardinality(MainTrees) < MaxPerProject
    /\ LimitKept

NoTasks == \A t \in trees : t[2] = 0

-----------------------------------------------------------------------------
LEMMA Kinds ==
    ASSUME Shape, NEW c \in cmds
    PROVE  /\ IssueOf(c) \in Issues /\ c.tree = Main(IssueOf(c)) /\ c.tree \in Tree
           /\ c.op \in {"create", "remove"}
           /\ c.op = "create" => c \in CreateCmd
           /\ c.op = "remove" => c \in SweepCmd
BY DEF Shape, IssueOf, Main, Tree, CreateCmd, SweepCmd

LEMMA NumberedFromOne ==
    ASSUME WorktreesAssumption, NEW i \in Issues
    PROVE  /\ Main(i) \in Tree /\ Main(i) # NoTree
           /\ i \in Nat
BY DEF WorktreesAssumption, Main, Tree, NoTree

\* A command that goes on is the same one at another place.
Further(c, at) == [c EXCEPT !.at = at]

LEMMA FurtherFields ==
    ASSUME Shape, NEW c \in cmds, NEW at
    PROVE  /\ Further(c, at).op = c.op /\ Further(c, at).group = c.group
           /\ Further(c, at).tree = c.tree /\ Further(c, at).at = at
           /\ c \in CreateCmd /\ at \in {"branch", "add", "hooks"} => Further(c, at) \in CreateCmd
           /\ c \in SweepCmd /\ at \in {"remove", "removeOnly", "delete"}
                 => Further(c, at) \in SweepCmd
<1>1. CASE c \in CreateCmd
  BY <1>1 DEF Further, CreateCmd, SweepCmd
<1>2. CASE c \in SweepCmd
  BY <1>2 DEF Further, CreateCmd, SweepCmd
<1> QED BY <1>1, <1>2 DEF Shape

LEMMA SweepFields ==
    ASSUME NEW g \in SUBSET Issues, NEW i \in Issues
    PROVE  /\ RemoveCmd(g, Main(i)) \in SweepCmd
           /\ RemoveCmd(g, Main(i)).op = "remove" /\ RemoveCmd(g, Main(i)).group = g
           /\ RemoveCmd(g, Main(i)).tree = Main(i) /\ RemoveCmd(g, Main(i)).at = "list"
BY DEF RemoveCmd, SweepCmd, Main

CreateOf(new, i) == [op |-> "create", group |-> new, tree |-> Main(i), at |-> "list"]

LEMMA CreateFields ==
    ASSUME NEW new \in SUBSET Issues, NEW i \in new
    PROVE  /\ CreateOf(new, i) \in CreateCmd
           /\ CreateOf(new, i).op = "create" /\ CreateOf(new, i).group = new
           /\ CreateOf(new, i).tree = Main(i) /\ CreateOf(new, i).at = "list"
BY DEF CreateOf, CreateCmd, Main

\* The sweep at the start of the loop is about worktrees of merged issues.
LEMMA Swept ==
    ASSUME Shape, NEW t \in Leftovers
    PROVE  /\ t[1] \in Issues /\ t = Main(t[1]) /\ pr[t[1]] = "merged"
           /\ RemoveCmd({}, t) \in SweepCmd /\ RemoveCmd({}, t).op = "remove"
           /\ RemoveCmd({}, t).group = {} /\ RemoveCmd({}, t).tree = t
           /\ RemoveCmd({}, t).at = "list"
<1>1. t[1] \in Issues /\ t = Main(t[1]) /\ pr[t[1]] = "merged"
  BY DEF Shape, Leftovers, Tree, Main
<1> QED BY <1>1 DEF RemoveCmd, SweepCmd, Main

\* What a poll does to the slots it gives away, and the commands it starts.
LEMMA Polled ==
    ASSUME WorktreesAssumption, Shape, Poll
    PROVE  \E new \in SUBSET todoIssues :
             /\ \A i \in new : slots[i] = NoSlot
             /\ \A i \in Issues \ new : slots'[i] = slots[i]
             /\ \A i \in new :
                  \/ /\ slots'[i] = [state |-> "creating", tree |-> NoTree]
                     /\ Found(i) = {}
                  \/ slots'[i].state = "working" /\ slots'[i].tree \in Found(i)
             /\ slots' \in [Issues -> Slot]
             /\ \A c \in cmds' : \/ c \in cmds
                                 \/ \E i \in new : /\ c = CreateOf(new, i)
                                                   /\ slots'[i].state = "creating"
             /\ ("overlap" \notin faults => \A c \in cmds : c.op # "create")
<1> DEFINE ready == todoIssues \ Slotted
           new   == {i \in ready : Cardinality(Slotted) + Cardinality({j \in ready : j < i})
                                       < MaxPerProject}
<1>1. PICK found \in [new -> Tree \cup {NoTree}] :
        /\ \A i \in new : IF Found(i) = {} THEN found[i] = NoTree ELSE found[i] \in Found(i)
        /\ slots' = [i \in Issues |->
                       IF i \notin new THEN slots[i]
                       ELSE [state |-> IF found[i] = NoTree THEN "creating" ELSE "working",
                             tree |-> found[i]]]
        /\ cmds' = cmds \cup
              {[op |-> "create", group |-> new, tree |-> <<i, 0>>, at |-> "list"]
                  : i \in {j \in new : found[j] = NoTree}}
  BY DEF Poll
<1>2. new \in SUBSET todoIssues /\ todoIssues \subseteq Issues BY DEF Shape
<1>3. \A i \in new : slots[i] = NoSlot BY <1>2 DEF Slotted
<1> HIDE DEF new
<1>4. \A i \in Issues \ new : slots'[i] = slots[i] BY <1>1
<1>5. \A i \in new : /\ slots'[i] = [state |-> IF found[i] = NoTree THEN "creating" ELSE "working",
                                     tree |-> found[i]]
                     /\ slots'[i] \in Slot
  BY <1>1, <1>2 DEF Slot, SlotState
<1>6. ASSUME NEW i \in new
      PROVE  \/ slots'[i] = [state |-> "creating", tree |-> NoTree] /\ Found(i) = {}
             \/ slots'[i].state = "working" /\ slots'[i].tree \in Found(i)
  <2>1. \A t \in Found(i) : t[1] = i BY DEF Found
  <2>4. NoTree \notin Found(i) BY <2>1, <1>2 DEF WorktreesAssumption, NoTree
  <2>2. CASE Found(i) = {}
    BY <1>1, <1>5, <2>2
  <2>3. CASE Found(i) # {}
    BY <1>1, <1>5, <2>4, <2>3
  <2> QED BY <2>2, <2>3
<1>7. slots' \in [Issues -> Slot]
  <2>1. ASSUME NEW i \in Issues PROVE slots'[i] \in Slot
    BY <1>4, <1>5 DEF Shape
  <2> QED BY <2>1, <1>1
<1>8. ASSUME NEW c \in cmds', c \notin cmds
      PROVE  \E i \in new : c = CreateOf(new, i) /\ slots'[i].state = "creating"
  <2>1. PICK i \in new : /\ found[i] = NoTree
                         /\ c = [op |-> "create", group |-> new, tree |-> <<i, 0>>, at |-> "list"]
    BY <1>1, <1>8
  <2>2. c = CreateOf(new, i) BY <2>1 DEF CreateOf, Main
  <2>4. slots'[i] = [state |-> IF found[i] = NoTree THEN "creating" ELSE "working",
                     tree |-> found[i]]
    BY <1>5, Zenon
  <2>3. slots'[i].state = "creating" BY <2>1, <2>4
  <2> QED BY <2>2, <2>3
<1>9. "overlap" \notin faults => \A c \in cmds : c.op # "create" BY DEF Poll
<1> QED BY <1>2, <1>3, <1>4, <1>6, <1>7, <1>8, <1>9

-----------------------------------------------------------------------------
(* Shapes *)

SlotShape ==
    /\ slots \in [Issues -> Slot]
    /\ \A i \in Issues :
          /\ slots[i].tree # NoTree <=> slots[i].state \in {"working", "cleaning"}
          /\ slots[i].tree # NoTree => slots[i].tree[1] = i
GitShape ==
    /\ branches \subseteq Tree /\ trees \subseteq branches /\ dirs \subseteq Tree
    /\ IsFiniteSet(trees)
IssueShape ==
    /\ todoIssues \subseteq Issues /\ unmerged \subseteq Issues
    /\ pr \in [Issues -> {"none", "open", "merged"}]
CmdShape == cmds \subseteq CreateCmd \cup SweepCmd

LEMMA ShapeParts == Shape <=> SlotShape /\ GitShape /\ IssueShape /\ CmdShape
BY DEF Shape, SlotShape, GitShape, IssueShape, CmdShape

\* The command goes on or ends, and its slot gets its answer.
LEMMA AfterGoto ==
    ASSUME Shape, NEW c \in cmds, NEW at, Goto(c, at),
           \/ c \in CreateCmd /\ at \in {"branch", "add", "hooks"}
           \/ c \in SweepCmd /\ at \in {"remove", "removeOnly", "delete"}
    PROVE  /\ slots' = slots /\ CmdShape'
           /\ cmds' = (cmds \ {c}) \cup {Further(c, at)}
<1>1. slots' = slots /\ cmds' = (cmds \ {c}) \cup {Further(c, at)}
  BY DEF Goto, Further
<1> QED BY <1>1, FurtherFields DEF Shape, CmdShape

LEMMA AfterCreated ==
    ASSUME WorktreesAssumption, Shape, NEW c \in cmds,
           NEW state \in {"working", "error", "refused"}, Created(c, state)
    PROVE  /\ SlotShape' /\ CmdShape' /\ cmds' = cmds \ {c}
           /\ slots'[IssueOf(c)].state = state
           /\ state = "working" => slots'[IssueOf(c)].tree = Main(IssueOf(c))
           /\ \A i \in Issues : i # IssueOf(c) => slots'[i] = slots[i]
<1> DEFINE i == IssueOf(c)
           s == [state |-> state, tree |-> IF state = "working" THEN c.tree ELSE NoTree]
<1>1. i \in Issues /\ c.tree = Main(i) /\ c.tree \in Tree BY Kinds
<1>2. s \in Slot /\ s.state = state /\ s.tree = IF state = "working" THEN c.tree ELSE NoTree
  BY <1>1 DEF Slot, SlotState
<1>3. slots' = [slots EXCEPT ![i] = s] /\ cmds' = cmds \ {c} BY DEF Created
<1>4. Main(i)[1] = i /\ Main(i) # NoTree BY <1>1, NumberedFromOne DEF Main
<1> HIDE DEF s, i
<1>5. slots'[i] = s /\ \A j \in Issues : j # i => slots'[j] = slots[j]
  BY <1>1, <1>3 DEF Shape
<1>6. slots' \in [Issues -> Slot] BY <1>1, <1>2, <1>3 DEF Shape
<1>7. SlotShape'
  <2>1. ASSUME NEW j \in Issues
        PROVE  /\ slots'[j].tree # NoTree <=> slots'[j].state \in {"working", "cleaning"}
               /\ slots'[j].tree # NoTree => slots'[j].tree[1] = j
    <3>1. CASE j = i BY <3>1, <1>1, <1>2, <1>4, <1>5
    <3>2. CASE j # i BY <3>2, <1>5 DEF Shape
    <3> QED BY <3>1, <3>2
  <2> QED BY <2>1, <1>6 DEF SlotShape
<1>8. CmdShape' BY <1>3 DEF Shape, CmdShape
<1> QED BY <1>1, <1>2, <1>3, <1>5, <1>7, <1>8 DEF i

LEMMA AfterRemoved ==
    ASSUME Shape, NEW c \in cmds, Removed(c)
    PROVE  /\ SlotShape' /\ CmdShape' /\ cmds' = cmds \ {c}
           /\ \A i \in Issues : \/ slots'[i] = slots[i]
                                \/ slots'[i] = NoSlot /\ c.group # {} /\ i = IssueOf(c)
<1>1. NoSlot \in Slot /\ NoSlot.state = "none" /\ NoSlot.tree = NoTree
  BY DEF Slot, SlotState, NoSlot
<1>2. IssueOf(c) \in Issues BY Kinds
<1>3. CmdShape' /\ cmds' = cmds \ {c} BY DEF Removed, Shape, CmdShape
<1>4. CASE c.group = {}
  BY <1>3, <1>4 DEF Removed, Shape, SlotShape
<1>5. CASE c.group # {}
  <2>1. slots' = [slots EXCEPT ![IssueOf(c)] = NoSlot] BY <1>5 DEF Removed
  <2>2. \A i \in Issues : slots'[i] = IF i = IssueOf(c) THEN NoSlot ELSE slots[i]
    BY <2>1, <1>2 DEF Shape
  <2>3. slots' \in [Issues -> Slot] BY <2>1, <1>1, <1>2 DEF Shape
  <2>4. SlotShape' BY <2>2, <2>3, <1>1 DEF Shape, SlotShape
  <2> QED BY <2>2, <2>4, <1>3, <1>5
<1> QED BY <1>4, <1>5

LEMMA AfterStart ==
    ASSUME Shape, Startup
    PROVE  /\ SlotShape' /\ CmdShape'
           /\ \A i \in Issues : slots'[i] = NoSlot
           /\ \A c \in cmds' : \E t \in Leftovers : c = RemoveCmd({}, t)
<1>1. NoSlot \in Slot /\ NoSlot.state = "none" /\ NoSlot.tree = NoTree
  BY DEF Slot, SlotState, NoSlot
<1>2. slots' = [i \in Issues |-> NoSlot] /\ cmds' = {RemoveCmd({}, t) : t \in Leftovers}
  BY DEF Startup
<1>3. SlotShape' BY <1>1, <1>2 DEF SlotShape
<1>4. CmdShape' BY <1>2, Swept DEF CmdShape
<1> QED BY <1>2, <1>3, <1>4

LEMMA AfterPoll ==
    ASSUME WorktreesAssumption, Shape, Poll
    PROVE  SlotShape' /\ CmdShape'
<1>1. PICK new \in SUBSET todoIssues :
        /\ \A i \in Issues \ new : slots'[i] = slots[i]
        /\ \A i \in new :
             \/ /\ slots'[i] = [state |-> "creating", tree |-> NoTree]
                /\ Found(i) = {}
             \/ slots'[i].state = "working" /\ slots'[i].tree \in Found(i)
        /\ slots' \in [Issues -> Slot]
        /\ \A c \in cmds' : c \in cmds \/ \E i \in new : c = CreateOf(new, i)
  BY Polled
<1>2. new \subseteq Issues BY <1>1 DEF Shape
<1>3. \A i \in Issues : \A t \in Found(i) : t[1] = i BY DEF Found
<1>4. \A i \in Issues : NoTree \notin Found(i) BY <1>3 DEF WorktreesAssumption, NoTree
<1>5. ASSUME NEW i \in Issues
      PROVE  /\ slots'[i].tree # NoTree <=> slots'[i].state \in {"working", "cleaning"}
             /\ slots'[i].tree # NoTree => slots'[i].tree[1] = i
  <2>1. CASE i \notin new BY <2>1, <1>1 DEF Shape
  <2>2. CASE slots'[i] = [state |-> "creating", tree |-> NoTree] BY <2>2
  <2>3. CASE slots'[i].state = "working" /\ slots'[i].tree \in Found(i)
    BY <2>3, <1>3, <1>4
  <2> QED BY <1>1, <2>1, <2>2, <2>3
<1>6. CmdShape' BY <1>1, <1>2, CreateFields DEF Shape, CmdShape
<1> QED BY <1>1, <1>5, <1>6 DEF SlotShape

\* A slot found working on the issue's own directory, or cleaning up after it.
LEMMA AfterSlot ==
    ASSUME WorktreesAssumption, Shape, NEW i \in Issues, NEW s,
           s \in {[state |-> "working", tree |-> Main(i)], [state |-> "cleaning", tree |-> Main(i)]},
           slots' = [slots EXCEPT ![i] = s]
    PROVE  SlotShape' /\ slots'[i] = s /\ \A j \in Issues : j # i => slots'[j] = slots[j]
<1>1. s \in Slot /\ s.tree = Main(i) /\ s.state \in {"working", "cleaning"}
  BY NumberedFromOne DEF Slot, SlotState
<1>2. Main(i)[1] = i /\ Main(i) # NoTree BY NumberedFromOne DEF Main
<1>3. \A j \in Issues : slots'[j] = IF j = i THEN s ELSE slots[j] BY DEF Shape
<1>4. slots' \in [Issues -> Slot] BY <1>1 DEF Shape
<1> QED BY <1>1, <1>2, <1>3, <1>4 DEF Shape, SlotShape

LEMMA AfterNoticed ==
    ASSUME WorktreesAssumption, Shape, NEW i \in Issues, Noticed(i)
    PROVE  /\ SlotShape' /\ CmdShape'
           /\ slots[i] = [state |-> "working", tree |-> Main(i)]
           /\ slots'[i] = [state |-> "cleaning", tree |-> Main(i)]
           /\ \A j \in Issues : j # i => slots'[j] = slots[j]
           /\ cmds' = cmds \cup {RemoveCmd({i}, Main(i))}
<1>1. slots[i] \in Slot /\ slots[i].tree # NoTree /\ slots[i].tree[1] = i /\ slots[i].tree[2] = 0
  BY DEF Noticed, Shape
<1>2. slots[i].tree = Main(i) BY <1>1 DEF Slot, Tree, Main
<1>3. slots[i] = [state |-> "working", tree |-> Main(i)] BY <1>1, <1>2 DEF Noticed, Slot
<1>4. [slots[i] EXCEPT !.state = "cleaning"] = [state |-> "cleaning", tree |-> Main(i)]
  BY <1>3
<1>5. slots' = [slots EXCEPT ![i] = [state |-> "cleaning", tree |-> Main(i)]]
  BY <1>4 DEF Noticed, Shape
<1>6. cmds' = cmds \cup {RemoveCmd({i}, Main(i))} BY <1>2 DEF Noticed
<1>7. CmdShape' BY <1>6, SweepFields DEF Shape, CmdShape
<1> QED BY <1>3, <1>5, <1>6, <1>7, AfterSlot

LEMMA ShapeInit == TreesInit => Shape
<1> SUFFICES ASSUME TreesInit PROVE Shape OBVIOUS
<1>1. NoSlot \in Slot /\ NoSlot.state = "none" /\ NoSlot.tree = NoTree
  BY DEF Slot, SlotState, NoSlot
<1>2. IsFiniteSet(trees) BY FS_EmptySet DEF TreesInit
<1> QED BY <1>1, <1>2 DEF TreesInit, Shape

\* The actions that are about a command.
LEMMA ShapeCommand ==
    ASSUME WorktreesAssumption, Shape, NEW c \in cmds, Command(c)
    PROVE  SlotShape' /\ CmdShape' /\ GitShape' /\ IssueShape'
<1> USE Kinds
<1>1. SlotShape /\ CmdShape /\ GitShape /\ IssueShape BY ShapeParts
<1>a. IssueShape' BY <1>1 DEF Command, CreateList, CreateBranch, CreateAdd, CreateHooks,
                          RemoveList, RemoveTree, DeleteBranch, issueVars, IssueShape
<1>b. ASSUME slots' = slots PROVE SlotShape' BY <1>1, <1>b DEF SlotShape
<1>c. ASSUME UNCHANGED repoVars PROVE GitShape' BY <1>1, <1>c DEF GitShape, repoVars
<1>2. CASE CreateList(c)
  <2>1. c \in CreateCmd /\ GitShape' BY <1>2, <1>c DEF CreateList, Running
  <2>2. CASE Goto(c, "branch") BY <2>1, <2>2, <1>a, <1>b, AfterGoto
  <2>3. CASE \E state \in {"refused", "error"} : Created(c, state)
    BY <2>1, <2>3, <1>a, AfterCreated
  <2> QED BY <1>2, <2>2, <2>3 DEF CreateList
<1>3. CASE CreateBranch(c)
  <2>1. c \in CreateCmd /\ GitShape'
    BY <1>1, <1>3 DEF CreateBranch, Running, GitShape
  <2>2. CASE Goto(c, "add") BY <2>1, <2>2, <1>a, <1>b, AfterGoto
  <2>3. CASE Created(c, "error") BY <2>1, <2>3, <1>a, AfterCreated
  <2> QED BY <1>3, <2>2, <2>3 DEF CreateBranch
<1>4. CASE CreateAdd(c)
  <2>1. c \in CreateCmd BY <1>4 DEF CreateAdd, Running
  <2>2. CASE /\ c.tree \in branches \ trees
             /\ trees' = trees \cup {c.tree} /\ dirs' = dirs \cup {c.tree} /\ Goto(c, "hooks")
             /\ UNCHANGED branches
    <3>1. IsFiniteSet(trees') BY <1>1, <2>2, FS_AddElement DEF GitShape
    <3>2. GitShape' BY <1>1, <2>2, <3>1 DEF GitShape
    <3> QED BY <2>1, <2>2, <3>2, <1>a, <1>b, AfterGoto
  <2>3. CASE branches' = Deleted(c.tree) /\ UNCHANGED <<trees, dirs>> /\ Created(c, "error")
    <3>1. GitShape' BY <1>1, <2>3 DEF GitShape, Deleted
    <3> QED BY <2>1, <2>3, <3>1, <1>a, AfterCreated
  <2> QED BY <1>4, <2>2, <2>3 DEF CreateAdd
<1>5. CASE CreateHooks(c)
  <2>1. c \in CreateCmd /\ GitShape' BY <1>5, <1>c DEF CreateHooks, Running
  <2> QED BY <1>5, <2>1, <1>a, AfterCreated DEF CreateHooks
<1>6. CASE RemoveList(c)
  <2>1. c \in SweepCmd /\ GitShape' BY <1>6, <1>c DEF RemoveList, Running
  <2>2. Goto(c, "remove") \/ Goto(c, "removeOnly") BY <1>6 DEF RemoveList
  <2> QED BY <2>1, <2>2, <1>a, <1>b, AfterGoto
<1>7. CASE RemoveTree(c)
  <2>1. c \in SweepCmd BY <1>7 DEF RemoveTree, Running
  <2>2. trees' \subseteq trees /\ dirs' \subseteq dirs /\ branches' = branches
    BY <1>7 DEF RemoveTree
  <2>3. IsFiniteSet(trees') BY <1>1, <2>2, FS_Subset DEF GitShape
  <2>4. GitShape' BY <1>1, <2>2, <2>3 DEF GitShape
  <2>5. Goto(c, "delete") \/ Removed(c) BY <1>7 DEF RemoveTree
  <2>6. CASE Goto(c, "delete") BY <2>1, <2>4, <2>6, <1>a, <1>b, AfterGoto
  <2>7. CASE Removed(c) BY <2>4, <2>7, <1>a, AfterRemoved
  <2> QED BY <2>5, <2>6, <2>7
<1>8. CASE DeleteBranch(c)
  <2>1. GitShape' BY <1>1, <1>8 DEF DeleteBranch, GitShape, Deleted
  <2> QED BY <1>8, <2>1, <1>a, AfterRemoved DEF DeleteBranch
<1> QED BY <1>2, <1>3, <1>4, <1>5, <1>6, <1>7, <1>8 DEF Command

LEMMA ShapeStep == ASSUME WorktreesAssumption, Shape, [TreesNext]_treeVars PROVE Shape'
<1>1. SlotShape /\ CmdShape /\ GitShape /\ IssueShape BY ShapeParts
<1>a. ASSUME UNCHANGED <<repoVars, issueVars>>, SlotShape', CmdShape' PROVE Shape'
  <2>1. GitShape' /\ IssueShape' BY <1>1, <1>a DEF GitShape, IssueShape, repoVars, issueVars
  <2> QED BY <1>a, <2>1 DEF Shape, SlotShape, GitShape, IssueShape, CmdShape
<1>b. ASSUME UNCHANGED <<slots, cmds>>, GitShape', IssueShape' PROVE Shape'
  <2>1. SlotShape' /\ CmdShape' BY <1>1, <1>b DEF SlotShape, CmdShape
  <2> QED BY <1>b, <2>1 DEF Shape, SlotShape, GitShape, IssueShape, CmdShape
<1>c. ASSUME UNCHANGED <<repoVars, slots, cmds>>, IssueShape' PROVE Shape'
  <2>1. GitShape' BY <1>1, <1>c DEF GitShape, repoVars
  <2> QED BY <1>b, <1>c, <2>1
<1>2. CASE Startup BY <1>2, <1>a, AfterStart DEF Startup
<1>3. CASE Poll BY <1>3, <1>a, AfterPoll DEF Poll
<1>4. ASSUME NEW c \in cmds, Command(c) PROVE Shape'
  BY <1>4, ShapeCommand DEF Shape, SlotShape, GitShape, IssueShape, CmdShape
<1>5. ASSUME NEW i \in Issues, TakeUp(i) PROVE Shape'
  <2>1. slots' = [slots EXCEPT ![i] = [state |-> "working", tree |-> Main(i)]]
    BY <1>5 DEF TakeUp, Main
  <2>2. SlotShape' BY <2>1, AfterSlot
  <2>3. CmdShape' BY <1>1, <1>5 DEF TakeUp, CmdShape
  <2> QED BY <1>5, <2>2, <2>3, <1>a DEF TakeUp
<1>6. ASSUME NEW i \in Issues, Noticed(i) PROVE Shape'
  BY <1>6, <1>a, AfterNoticed DEF Noticed
<1>7. ASSUME NEW i \in Issues, Label(i) \/ Work(i) \/ OpensPR(i) \/ Merges(i) \/ Reopen(i)
      PROVE  Shape'
  <2>1. IssueShape' BY <1>1, <1>7 DEF Label, Work, OpensPR, Merges, Reopen, IssueShape
  <2> QED BY <1>7, <2>1, <1>c DEF Label, Work, OpensPR, Merges, Reopen
<1>8. ASSUME NEW t \in Tree, Fork(t) PROVE Shape'
  <2>1. IsFiniteSet(trees') BY <1>1, <1>8, FS_AddElement DEF GitShape, Fork
  <2>2. GitShape' BY <1>1, <1>8, <2>1 DEF GitShape, Fork
  <2>3. IssueShape' BY <1>1, <1>8 DEF IssueShape, issueVars, Fork
  <2> QED BY <1>8, <2>2, <2>3, <1>b DEF Fork
<1>9. ASSUME NEW t \in Tree, Join(t) PROVE Shape'
  <2>1. IsFiniteSet(trees') BY <1>1, <1>9, FS_RemoveElement DEF GitShape, Join
  <2>2. GitShape' BY <1>1, <1>9, <2>1 DEF GitShape, Join
  <2>3. IssueShape' BY <1>1, <1>9 DEF IssueShape, issueVars, Join
  <2> QED BY <1>9, <2>2, <2>3, <1>b DEF Join
<1>10. CASE UNCHANGED treeVars
  BY <1>1, <1>10 DEF treeVars, Shape, SlotShape, GitShape, IssueShape, CmdShape
<1> QED BY <1>2, <1>3, <1>4, <1>5, <1>6, <1>7, <1>8, <1>9, <1>10 DEF TreesNext

-----------------------------------------------------------------------------
(* Commands and their slots *)

\* Every command goes on to another place, or ends and tells its slot.
LEMMA Outcome ==
    ASSUME WorktreesAssumption, Shape, NEW c \in cmds, Command(c)
    PROVE  \/ \E at : /\ Goto(c, at)
                      /\ \/ c \in CreateCmd /\ at \in {"branch", "add", "hooks"}
                         \/ c \in SweepCmd /\ at \in {"remove", "removeOnly", "delete"}
           \/ c \in CreateCmd /\ \E state \in {"working", "error", "refused"} : Created(c, state)
           \/ c \in SweepCmd /\ Removed(c)
<1> USE Kinds
<1>1. CASE CreateList(c) BY <1>1 DEF CreateList, Running
<1>2. CASE CreateBranch(c) BY <1>2 DEF CreateBranch, Running
<1>3. CASE CreateAdd(c) BY <1>3 DEF CreateAdd, Running
<1>4. CASE CreateHooks(c) BY <1>4 DEF CreateHooks, Running
<1>5. CASE RemoveList(c) BY <1>5 DEF RemoveList, Running
<1>6. CASE RemoveTree(c) BY <1>6 DEF RemoveTree, Running
<1>7. CASE DeleteBranch(c) BY <1>7 DEF DeleteBranch, Running
<1> QED BY <1>1, <1>2, <1>3, <1>4, <1>5, <1>6, <1>7 DEF Command

LEMMA OwnCommand ==
    ASSUME WorktreesAssumption, Shape, OwnInv, NEW c \in cmds, Command(c)
    PROVE  OwnInv'
<1>1. ASSUME NEW at, Goto(c, at), \/ c \in CreateCmd /\ at \in {"branch", "add", "hooks"}
                                  \/ c \in SweepCmd /\ at \in {"remove", "removeOnly", "delete"}
      PROVE  OwnInv'
  <2>1. slots' = slots /\ cmds' = (cmds \ {c}) \cup {Further(c, at)} BY <1>1, AfterGoto
  <2>2. /\ Further(c, at).op = c.op /\ Further(c, at).group = c.group
        /\ IssueOf(Further(c, at)) = IssueOf(c)
    BY FurtherFields DEF IssueOf
  <2> QED BY <2>1, <2>2 DEF OwnInv
<1>2. ASSUME c \in CreateCmd, NEW state \in {"working", "error", "refused"}, Created(c, state)
      PROVE  OwnInv'
  <2>1. /\ cmds' = cmds \ {c} /\ \A i \in Issues : i # IssueOf(c) => slots'[i] = slots[i]
    BY <1>2, AfterCreated
  <2>2. c.group # {} BY <1>2 DEF CreateCmd
  <2>3. \A d \in cmds : d.op = "create" => d.group # {} BY Kinds DEF CreateCmd
  <2>4. ASSUME NEW d \in cmds', d.group # {} PROVE slots'[IssueOf(d)] = slots[IssueOf(d)]
    BY <2>1, <2>2, <2>4, Kinds DEF OwnInv
  <2> QED BY <2>1, <2>3, <2>4 DEF OwnInv
<1>3. ASSUME c \in SweepCmd, Removed(c) PROVE OwnInv'
  <2>1. /\ cmds' = cmds \ {c}
        /\ \A i \in Issues : \/ slots'[i] = slots[i]
                             \/ slots'[i] = NoSlot /\ c.group # {} /\ i = IssueOf(c)
    BY <1>3, AfterRemoved
  <2>3. \A d \in cmds : d.op = "create" => d.group # {} BY Kinds DEF CreateCmd
  <2>4. ASSUME NEW d \in cmds', d.group # {} PROVE slots'[IssueOf(d)] = slots[IssueOf(d)]
    BY <2>1, <2>4, Kinds DEF OwnInv
  <2> QED BY <2>1, <2>3, <2>4 DEF OwnInv
<1> QED BY <1>1, <1>2, <1>3, Outcome

LEMMA OwnPoll == ASSUME WorktreesAssumption, Shape, OwnInv, Poll PROVE OwnInv'
<1>1. PICK new \in SUBSET todoIssues :
        /\ \A i \in new : slots[i] = NoSlot
        /\ \A i \in Issues \ new : slots'[i] = slots[i]
        /\ \A c \in cmds' : \/ c \in cmds
                            \/ \E i \in new : /\ c = CreateOf(new, i)
                                              /\ slots'[i].state = "creating"
  BY Polled
<1>2. new \in SUBSET Issues BY DEF Shape
<1>3. NoSlot.state = "none" BY DEF NoSlot
<1>4. ASSUME NEW c \in cmds, c.group # {} PROVE IssueOf(c) \notin new
  BY <1>1, <1>3, <1>4, Kinds DEF OwnInv
<1>5. ASSUME NEW i \in new
      PROVE  /\ CreateOf(new, i).op = "create" /\ CreateOf(new, i).group # {}
             /\ IssueOf(CreateOf(new, i)) = i
  BY <1>2, CreateFields DEF IssueOf, Main
<1>6. \A c \in cmds : c.op = "create" => c.group # {} BY Kinds DEF CreateCmd
<1>7. ASSUME NEW c \in cmds'
      PROVE  /\ c.op = "create" => slots'[IssueOf(c)].state = "creating"
             /\ c.op = "remove" /\ c.group # {} => slots'[IssueOf(c)].state = "cleaning"
  <2>1. CASE c \in cmds
    <3>1. c.group # {} => slots'[IssueOf(c)] = slots[IssueOf(c)] BY <2>1, <1>1, <1>4, Kinds
    <3> QED BY <2>1, <3>1, <1>6 DEF OwnInv
  <2>2. ASSUME NEW i \in new, c = CreateOf(new, i), slots'[i].state = "creating"
        PROVE  /\ c.op = "create" => slots'[IssueOf(c)].state = "creating"
               /\ c.op = "remove" /\ c.group # {} => slots'[IssueOf(c)].state = "cleaning"
    <3>1. c.op = "create" /\ IssueOf(c) = i BY <2>2, <1>5
    <3> QED BY <2>2, <3>1
  <2> QED BY <1>1, <2>1, <2>2
<1>8. ASSUME NEW c \in cmds', NEW d \in cmds', c.group # {}, d.group # {},
             IssueOf(c) = IssueOf(d)
      PROVE  c = d
  BY <1>1, <1>4, <1>5, <1>8 DEF OwnInv
<1> QED BY <1>7, <1>8 DEF OwnInv

LEMMA OwnStep ==
    ASSUME WorktreesAssumption, Shape, OwnInv, [TreesNext]_treeVars PROVE OwnInv'
<1>a. ASSUME UNCHANGED <<slots, cmds>> PROVE OwnInv' BY <1>a DEF OwnInv
<1>b. \A c \in cmds : c.op = "create" => c.group # {} BY Kinds DEF CreateCmd
<1>1. CASE Startup
  <2>1. \A c \in cmds' : \E t \in Leftovers : c = RemoveCmd({}, t) BY <1>1, AfterStart
  <2>2. \A c \in cmds' : c.op = "remove" /\ c.group = {} BY <2>1, Swept
  <2> QED BY <2>2 DEF OwnInv
<1>2. CASE Poll BY <1>2, OwnPoll
<1>3. ASSUME NEW c \in cmds, Command(c) PROVE OwnInv' BY <1>3, OwnCommand
<1>4. ASSUME NEW i \in Issues, TakeUp(i) PROVE OwnInv'
  <2>1. slots[i].state = "none" BY <1>4 DEF TakeUp, NoSlot
  <2>2. cmds' = cmds /\ \A j \in Issues : j # i => slots'[j] = slots[j]
    BY <1>4 DEF TakeUp, Shape
  <2>3. ASSUME NEW c \in cmds, c.group # {} PROVE slots'[IssueOf(c)] = slots[IssueOf(c)]
    BY <2>1, <2>2, <2>3, Kinds DEF OwnInv
  <2> QED BY <2>2, <2>3, <1>b DEF OwnInv
<1>5. ASSUME NEW i \in Issues, Noticed(i) PROVE OwnInv'
  <2> DEFINE r == RemoveCmd({i}, Main(i))
  <2>1. /\ slots[i].state = "working" /\ slots'[i].state = "cleaning"
        /\ \A j \in Issues : j # i => slots'[j] = slots[j]
        /\ cmds' = cmds \cup {r}
    <3>1. /\ slots[i] = [state |-> "working", tree |-> Main(i)]
          /\ slots'[i] = [state |-> "cleaning", tree |-> Main(i)]
          /\ \A j \in Issues : j # i => slots'[j] = slots[j]
          /\ cmds' = cmds \cup {r}
      BY <1>5, AfterNoticed
    <3> HIDE DEF r
    <3> QED BY <3>1
  <2>2. r.op = "remove" /\ r.group = {i} /\ IssueOf(r) = i
    <3>1. r.op = "remove" /\ r.group = {i} /\ r.tree = Main(i) BY SweepFields
    <3> QED BY <3>1 DEF IssueOf, Main
  <2>3. ASSUME NEW c \in cmds, c.group # {}
        PROVE  IssueOf(c) # i /\ slots'[IssueOf(c)] = slots[IssueOf(c)]
    BY <2>1, <2>3, Kinds DEF OwnInv
  <2> HIDE DEF r
  <2>4. ASSUME NEW c \in cmds'
        PROVE  /\ c.op = "create" => slots'[IssueOf(c)].state = "creating"
               /\ c.op = "remove" /\ c.group # {} => slots'[IssueOf(c)].state = "cleaning"
    BY <2>1, <2>2, <2>3, <1>b DEF OwnInv
  <2>5. ASSUME NEW c \in cmds', NEW d \in cmds', c.group # {}, d.group # {},
               IssueOf(c) = IssueOf(d)
        PROVE  c = d
    BY <2>1, <2>2, <2>3, <2>5 DEF OwnInv
  <2> QED BY <2>4, <2>5 DEF OwnInv
<1>6. ASSUME NEW i \in Issues, Label(i) \/ Work(i) \/ OpensPR(i) \/ Merges(i) \/ Reopen(i)
      PROVE  OwnInv'
  BY <1>6, <1>a DEF Label, Work, OpensPR, Merges, Reopen
<1>7. ASSUME NEW t \in Tree, Fork(t) \/ Join(t) PROVE OwnInv'
  BY <1>7, <1>a DEF Fork, Join
<1>8. CASE UNCHANGED treeVars BY <1>8, <1>a DEF treeVars
<1> QED BY <1>1, <1>2, <1>3, <1>4, <1>5, <1>6, <1>7, <1>8 DEF TreesNext

-----------------------------------------------------------------------------
(* Work that nobody merged *)


\* What a command does to the directories, and the PRs it leaves alone.
LEMMA CommandDirs ==
    ASSUME Shape, NEW c \in cmds, Command(c)
    PROVE  /\ todoIssues' = todoIssues /\ pr' = pr /\ unmerged' = unmerged
           /\ \/ dirs \subseteq dirs'
              \/ c.op = "remove" /\ dirs' = dirs \ Inside(c.tree)
<1>1. CASE CreateList(c) BY <1>1 DEF CreateList, issueVars, repoVars
<1>2. CASE CreateBranch(c) BY <1>2 DEF CreateBranch, issueVars
<1>3. CASE CreateAdd(c) BY <1>3 DEF CreateAdd, issueVars
<1>4. CASE CreateHooks(c) BY <1>4 DEF CreateHooks, issueVars, repoVars
<1>5. CASE RemoveList(c) BY <1>5 DEF RemoveList, issueVars, repoVars
<1>6. CASE RemoveTree(c) BY <1>6 DEF RemoveTree, Running, issueVars
<1>7. CASE DeleteBranch(c) BY <1>7 DEF DeleteBranch, issueVars
<1> QED BY <1>1, <1>2, <1>3, <1>4, <1>5, <1>6, <1>7 DEF Command

LEMMA InsideIsOwn == ASSUME Shape, NEW t \in Tree, NEW s \in Inside(t) PROVE s[1] = t[1]
BY DEF Inside, Tree

\* The commands that run are those before, at another place perhaps.
LEMMA CommandKinds ==
    ASSUME WorktreesAssumption, Shape, NEW c \in cmds, Command(c), NEW d \in cmds'
    PROVE  \E b \in cmds : d.op = b.op /\ d.tree = b.tree /\ d.group = b.group
<1>1. ASSUME NEW at, Goto(c, at), \/ c \in CreateCmd /\ at \in {"branch", "add", "hooks"}
                                  \/ c \in SweepCmd /\ at \in {"remove", "removeOnly", "delete"}
      PROVE  d \in cmds \/ d = Further(c, at)
  BY <1>1, AfterGoto
<1>2. \A at : Further(c, at).op = c.op /\ Further(c, at).tree = c.tree
              /\ Further(c, at).group = c.group
  BY FurtherFields
<1>3. ASSUME \E state \in {"working", "error", "refused"} : Created(c, state) PROVE d \in cmds
  BY <1>3 DEF Created
<1>4. ASSUME Removed(c) PROVE d \in cmds BY <1>4 DEF Removed
<1> QED BY <1>1, <1>2, <1>3, <1>4, Outcome

\* No step takes the directory of unmerged work.
LEMMA KeptStep == ASSUME WorktreesAssumption, Shape, WorkInv, [TreesNext]_treeVars PROVE WorkKept
<1> SUFFICES ASSUME NEW i \in unmerged, Main(i) \in dirs PROVE Main(i) \in dirs'
  BY DEF WorkKept, Main
<1>1. ASSUME NEW c \in cmds, Command(c) PROVE Main(i) \in dirs'
  <2>1. CASE dirs \subseteq dirs' BY <2>1
  <2>2. CASE c.op = "remove" /\ dirs' = dirs \ Inside(c.tree)
    <3>1. IssueOf(c) # i BY <2>2 DEF WorkInv
    <3>2. Main(i) \notin Inside(c.tree) BY <3>1, InsideIsOwn, Kinds DEF Main, IssueOf
    <3> QED BY <2>2, <3>2
  <2> QED BY <1>1, <2>1, <2>2, CommandDirs
<1>2. ASSUME NEW t \in Tree, Join(t) PROVE Main(i) \in dirs'
  BY <1>2 DEF Join, Main
<1>3. ASSUME NEW t \in Tree, Fork(t) PROVE Main(i) \in dirs'
  BY <1>3 DEF Fork
<1>4. CASE Startup \/ Poll BY <1>4 DEF Startup, Poll, repoVars
<1>5. ASSUME NEW j \in Issues, \/ TakeUp(j) \/ Noticed(j) \/ Label(j) \/ Work(j) \/ OpensPR(j)
                               \/ Merges(j) \/ Reopen(j)
      PROVE  Main(i) \in dirs'
  BY <1>5 DEF TakeUp, Noticed, Label, Work, OpensPR, Merges, Reopen, repoVars
<1>6. CASE UNCHANGED treeVars BY <1>6 DEF treeVars
<1> QED BY <1>1, <1>2, <1>3, <1>4, <1>5, <1>6 DEF TreesNext

LEMMA WorkStep ==
    ASSUME WorktreesAssumption, NoReopen, Shape, WorkInv, [TreesNext]_treeVars PROVE WorkInv'
<1>0. WorkKept BY KeptStep
<1>a. ASSUME UNCHANGED issueVars, \A c \in cmds' : c.op = "remove" => pr[IssueOf(c)] = "merged"
      PROVE  WorkInv'
  BY <1>a, <1>0 DEF WorkInv, WorkKept, issueVars, Main
<1>1. CASE Startup
  <2>1. \A c \in cmds' : \E t \in Leftovers : c = RemoveCmd({}, t) BY <1>1, AfterStart
  <2>2. \A c \in cmds' : pr[IssueOf(c)] = "merged" BY <2>1, Swept DEF IssueOf
  <2> QED BY <1>1, <2>2, <1>a DEF Startup
<1>2. CASE Poll
  <2>1. PICK new \in SUBSET todoIssues : \A c \in cmds' : c \in cmds \/ \E i \in new : c = CreateOf(new, i)
    BY <1>2, Polled
  <2>2. \A i \in new : CreateOf(new, i).op = "create" BY DEF CreateOf
  <2>3. \A c \in cmds' : c.op = "remove" => pr[IssueOf(c)] = "merged"
    BY <2>1, <2>2 DEF WorkInv
  <2> QED BY <1>2, <2>3, <1>a DEF Poll
<1>3. ASSUME NEW c \in cmds, Command(c) PROVE WorkInv'
  <2>1. UNCHANGED issueVars BY <1>3, CommandDirs DEF issueVars
  <2>2. \A d \in cmds' : d.op = "remove" => pr[IssueOf(d)] = "merged"
    BY <1>3, CommandKinds DEF WorkInv, IssueOf
  <2> QED BY <2>1, <2>2, <1>a
<1>4. ASSUME NEW i \in Issues, TakeUp(i) PROVE WorkInv' BY <1>4, <1>a DEF TakeUp, WorkInv
<1>5. ASSUME NEW i \in Issues, Noticed(i) PROVE WorkInv'
  <2>1. cmds' = cmds \cup {RemoveCmd({i}, Main(i))} BY <1>5, AfterNoticed
  <2>2. IssueOf(RemoveCmd({i}, Main(i))) = i BY SweepFields DEF IssueOf, Main
  <2>3. \A c \in cmds' : c.op = "remove" => pr[IssueOf(c)] = "merged"
    BY <1>5, <2>1, <2>2 DEF Noticed, WorkInv
  <2> QED BY <1>5, <2>3, <1>a DEF Noticed
<1>6. ASSUME NEW i \in Issues, Label(i) PROVE WorkInv'
  BY <1>6 DEF Label, WorkInv, repoVars, Main
<1>7. ASSUME NEW i \in Issues, Work(i) PROVE WorkInv'
  <2>1. pr[i] = "none" /\ Main(i) \in dirs
    BY <1>7 DEF Work, HasAgent, WorkInv, Main
  <2> QED BY <1>7, <2>1 DEF Work, WorkInv, repoVars
<1>8. ASSUME NEW i \in Issues, OpensPR(i) PROVE WorkInv'
  <2>1. i \notin todoIssues /\ \A c \in cmds : c.op = "remove" => IssueOf(c) # i
    BY <1>8 DEF OpensPR, WorkInv
  <2>2. \A j \in Issues : pr'[j] = IF j = i THEN "open" ELSE pr[j] BY <1>8 DEF OpensPR, Shape
  <2>3. todoIssues' = todoIssues /\ unmerged' = unmerged /\ dirs' = dirs /\ cmds' = cmds
    BY <1>8 DEF OpensPR, repoVars
  <2> QED BY <2>1, <2>2, <2>3, Kinds DEF WorkInv, Shape
<1>9. ASSUME NEW i \in Issues, Merges(i) PROVE WorkInv'
  <2>1. i \notin todoIssues BY <1>9 DEF Merges, WorkInv
  <2>2. \A j \in Issues : pr'[j] = IF j = i THEN "merged" ELSE pr[j] BY <1>9 DEF Merges, Shape
  <2>3. todoIssues' = todoIssues /\ unmerged' = unmerged \ {i} /\ dirs' = dirs /\ cmds' = cmds
    BY <1>9 DEF Merges, repoVars
  <2> QED BY <2>1, <2>2, <2>3, Kinds DEF WorkInv, Shape
<1>10. ASSUME NEW i \in Issues, Reopen(i) PROVE WorkInv' BY <1>10 DEF Reopen, NoReopen
<1>11. ASSUME NEW t \in Tree, Fork(t) \/ Join(t) PROVE WorkInv'
  BY <1>11, <1>a DEF Fork, Join, WorkInv
<1>12. CASE UNCHANGED treeVars BY <1>12 DEF treeVars, WorkInv
<1> QED BY <1>1, <1>2, <1>3, <1>4, <1>5, <1>6, <1>7, <1>8, <1>9, <1>10, <1>11, <1>12 DEF TreesNext

-----------------------------------------------------------------------------
(* Working slots and their directories *)

LEMMA Tuples == ASSUME NEW t \in Tree PROVE t = <<t[1], t[2]>> /\ t[1] \in Issues
BY DEF Tree

\* A todo issue has no trees of tasks.
LEMMA TodoHasNoTasks ==
    ASSUME Shape, WorkInv, DirInv, NEW i \in todoIssues
    PROVE  /\ \A t \in Found(i) : t = Main(i)
           /\ Found(i) # {} => Main(i) \in dirs
<1>1. ASSUME NEW t \in trees, t[1] = i PROVE t = Main(i) /\ t \in dirs
  <2>1. pr[i] = "none" /\ i \notin unmerged BY DEF WorkInv
  <2>2. t[2] = 0 /\ t \in dirs BY <1>1, <2>1 DEF DirInv
  <2>3. t \in Tree BY <1>1 DEF Shape
  <2> QED BY <1>1, <2>2, <2>3, Tuples DEF Main
<1> QED BY <1>1 DEF Found, Main

LEMMA DirPoll ==
    ASSUME WorktreesAssumption, Shape, WorkInv, DirInv, Poll PROVE DirInv'
<1>1. PICK new \in SUBSET todoIssues :
        /\ \A i \in Issues \ new : slots'[i] = slots[i]
        /\ \A i \in new :
             \/ slots'[i] = [state |-> "creating", tree |-> NoTree] /\ Found(i) = {}
             \/ slots'[i].state = "working" /\ slots'[i].tree \in Found(i)
        /\ \A c \in cmds' : c \in cmds \/ \E i \in new : c = CreateOf(new, i)
  BY Polled
<1>2. /\ trees' = trees /\ dirs' = dirs /\ todoIssues' = todoIssues /\ pr' = pr /\ unmerged' = unmerged
      /\ todoIssues \subseteq Issues
  BY DEF Poll, repoVars, issueVars, Shape
<1>3. ASSUME NEW i \in Issues, slots'[i].state = "working"
      PROVE  slots'[i].tree = Main(i) /\ Main(i) \in dirs
  <2>1. CASE i \notin new BY <2>1, <1>1, <1>3 DEF DirInv
  <2>2. CASE i \in new
    <3>1. slots'[i].tree \in Found(i)
      <4>1. slots'[i] # [state |-> "creating", tree |-> NoTree] BY <1>3
      <4> QED BY <4>1, <2>2, <1>1
    <3> QED BY <2>2, <3>1, <1>1, TodoHasNoTasks
  <2> QED BY <2>1, <2>2
<1>4. ASSUME NEW i \in new
      PROVE  /\ CreateOf(new, i).op = "create" /\ IssueOf(CreateOf(new, i)) = i
             /\ CreateOf(new, i).at = "list"
  BY DEF CreateOf, IssueOf, Main
<1>5. ASSUME NEW c \in cmds', c.op = "create"
      PROVE  IssueOf(c) \in todoIssues /\ (c.at = "hooks" => c.tree \in dirs)
  <2>1. CASE c \in cmds BY <2>1, <1>5 DEF DirInv
  <2>2. CASE c \notin cmds
    <3>1. PICK i \in new : c = CreateOf(new, i) BY <1>1, <2>2
    <3> QED BY <3>1, <1>1, <1>4
  <2> QED BY <2>1, <2>2
<1>6. ASSUME NEW c \in cmds', c.op = "remove"
      PROVE  slots'[IssueOf(c)].state \in {"none", "cleaning"}
  <2>1. c \in cmds BY <1>1, <1>4, <1>6
  <2>2. IssueOf(c) \in Issues /\ pr[IssueOf(c)] = "merged" BY <2>1, <1>6, Kinds DEF WorkInv
  <2>3. IssueOf(c) \notin new BY <2>2, <1>1 DEF WorkInv
  <2> QED BY <2>1, <2>2, <2>3, <1>1, <1>6 DEF DirInv
<1> QED BY <1>2, <1>3, <1>5, <1>6 DEF DirInv

\* What a command leaves of the slots and the commands.
LEMMA DirSlots ==
    ASSUME WorktreesAssumption, Shape, WorkInv, DirInv, NEW c \in cmds, Command(c),
           NEW d \in cmds', d.op = "remove"
    PROVE  slots'[IssueOf(d)].state \in {"none", "cleaning"}
<1>1. PICK b \in cmds : d.op = b.op /\ d.tree = b.tree BY CommandKinds
<1>2. /\ IssueOf(d) = IssueOf(b) /\ IssueOf(b) \in Issues /\ pr[IssueOf(b)] = "merged"
      /\ slots[IssueOf(b)].state \in {"none", "cleaning"}
  BY <1>1, Kinds DEF WorkInv, DirInv, IssueOf
<1>3. ASSUME c \in CreateCmd, NEW state \in {"working", "error", "refused"}, Created(c, state)
      PROVE  slots'[IssueOf(b)] = slots[IssueOf(b)]
  <2>1. IssueOf(c) \in todoIssues BY <1>3 DEF DirInv, CreateCmd
  <2>2. IssueOf(c) # IssueOf(b) BY <2>1, <1>2 DEF WorkInv
  <2> QED BY <2>2, <1>2, <1>3, AfterCreated
<1>4. NoSlot.state = "none" BY DEF NoSlot
<1>5. ASSUME Removed(c) PROVE slots'[IssueOf(b)].state \in {"none", "cleaning"}
  BY <1>2, <1>4, <1>5, AfterRemoved
<1>6. ASSUME NEW at, Goto(c, at) PROVE slots' = slots BY <1>6 DEF Goto
<1> QED BY <1>2, <1>3, <1>5, <1>6, Outcome

LEMMA DirCreations ==
    ASSUME WorktreesAssumption, Shape, WorkInv, DirInv, NEW c \in cmds, Command(c),
           NEW d \in cmds', d.op = "create"
    PROVE  IssueOf(d) \in todoIssues' /\ (d.at = "hooks" => d.tree \in dirs')
<1>1. PICK b \in cmds : d.op = b.op /\ d.tree = b.tree BY CommandKinds
<1>2. b.op = "create" /\ IssueOf(d) = IssueOf(b) /\ IssueOf(d) \in todoIssues
  BY <1>1 DEF IssueOf, DirInv
<1>3. ASSUME d \in cmds, d.at = "hooks" PROVE d.tree \in dirs'
  <2>1. d.tree \in dirs BY <1>3 DEF DirInv
  <2>2. CASE c.op = "remove" /\ dirs' = dirs \ Inside(c.tree)
    <3>1. IssueOf(c) # IssueOf(d) BY <1>2, <2>2 DEF WorkInv
    <3>2. d.tree \notin Inside(c.tree) BY <3>1, InsideIsOwn, Kinds DEF IssueOf
    <3> QED BY <2>1, <2>2, <3>2
  <2> QED BY <2>1, <2>2, CommandDirs
<1>4. ASSUME d \notin cmds, d.at = "hooks" PROVE d.tree \in dirs'
  <2>1. ASSUME NEW at, Goto(c, at), \/ c \in CreateCmd /\ at \in {"branch", "add", "hooks"}
                                    \/ c \in SweepCmd /\ at \in {"remove", "removeOnly", "delete"}
        PROVE  d.at = at /\ d.tree = c.tree
    BY <1>4, <2>1, AfterGoto, FurtherFields
  <2>2. \E at : Goto(c, at) /\ \/ c \in CreateCmd /\ at \in {"branch", "add", "hooks"}
                               \/ c \in SweepCmd /\ at \in {"remove", "removeOnly", "delete"}
    BY <1>4, Outcome DEF Created, Removed
  <2>3. Goto(c, "hooks") /\ d.tree = c.tree /\ c \in CreateCmd BY <1>4, <2>1, <2>2
  <2>4. c.op = "create" /\ c \notin SweepCmd BY <2>3 DEF CreateCmd, SweepCmd
  <2>5. CreateAdd(c)
    <3>1. cmds' = (cmds \ {c}) \cup {Further(c, "hooks")} BY <2>3, AfterGoto
    <3>2. ASSUME NEW at \in {"branch", "add"}, Goto(c, at) PROVE FALSE
      BY <1>4, <2>1, <2>3, <3>2
    <3>3. ASSUME NEW state, Created(c, state) PROVE FALSE BY <1>4, <3>3 DEF Created
    <3>4. ~CreateList(c) BY <3>2, <3>3 DEF CreateList
    <3>5. ~CreateBranch(c) BY <3>2, <3>3 DEF CreateBranch
    <3>6. ~CreateHooks(c) BY <3>3 DEF CreateHooks
    <3>7. ~RemoveList(c) /\ ~RemoveTree(c) /\ ~DeleteBranch(c)
      BY <2>4 DEF RemoveList, RemoveTree, DeleteBranch, Running
    <3> QED BY <3>4, <3>5, <3>6, <3>7 DEF Command
  <2>6. ~Created(c, "error") BY <1>4 DEF Created
  <2> QED BY <2>3, <2>5, <2>6 DEF CreateAdd
<1>5. todoIssues' = todoIssues BY CommandDirs
<1> QED BY <1>2, <1>3, <1>4, <1>5

\* What a command does to git's list and the directories.
LEMMA CommandTrees ==
    ASSUME Shape, NEW c \in cmds, Command(c)
    PROVE  \/ trees' = trees /\ dirs' = dirs
           \/ /\ c.op = "create" /\ Goto(c, "hooks")
              /\ trees' = trees \cup {c.tree} /\ dirs' = dirs \cup {c.tree}
           \/ /\ c.op = "remove" /\ trees' \subseteq trees
              /\ dirs' = dirs \/ dirs' = dirs \ Inside(c.tree)
<1>1. CASE CreateList(c) BY <1>1 DEF CreateList, repoVars
<1>2. CASE CreateBranch(c) BY <1>2 DEF CreateBranch
<1>3. CASE CreateAdd(c) BY <1>3 DEF CreateAdd, Running
<1>4. CASE CreateHooks(c) BY <1>4 DEF CreateHooks, repoVars
<1>5. CASE RemoveList(c) BY <1>5 DEF RemoveList, repoVars
<1>6. CASE RemoveTree(c) BY <1>6 DEF RemoveTree, Running
<1>7. CASE DeleteBranch(c) BY <1>7 DEF DeleteBranch
<1> QED BY <1>1, <1>2, <1>3, <1>4, <1>5, <1>6, <1>7 DEF Command

\* A slot begins to work by the answer of a creation when all its steps are done.
LEMMA WorksAfterHooks ==
    ASSUME WorktreesAssumption, Shape, NEW c \in cmds, Command(c),
           NEW i \in Issues, slots'[i].state = "working"
    PROVE  \/ slots'[i] = slots[i]
           \/ /\ i = IssueOf(c) /\ slots'[i].tree = Main(i) /\ dirs' = dirs
              /\ c.op = "create" /\ c.at = "hooks"
<1>1. ASSUME NEW state \in {"error", "refused"}, Created(c, state) PROVE slots'[i] = slots[i]
  BY <1>1, AfterCreated
<1>2. ASSUME Created(c, "working")
      PROVE  slots'[i] = slots[i] \/ (i = IssueOf(c) /\ slots'[i].tree = Main(i))
  BY <1>2, AfterCreated
<1>3. NoSlot.state # "working" BY DEF NoSlot
<1>4. ASSUME Removed(c) PROVE slots'[i] = slots[i] BY <1>3, <1>4, AfterRemoved
<1>5. ASSUME NEW at, Goto(c, at) PROVE slots'[i] = slots[i] BY <1>5 DEF Goto
<1>6. CASE CreateList(c) BY <1>6, <1>1, <1>5 DEF CreateList
<1>7. CASE CreateBranch(c) BY <1>7, <1>1, <1>5 DEF CreateBranch
<1>8. CASE CreateAdd(c) BY <1>8, <1>1, <1>5 DEF CreateAdd
<1>9. CASE CreateHooks(c)
  <2>1. dirs' = dirs /\ c.op = "create" /\ c.at = "hooks"
    BY <1>9 DEF CreateHooks, Running, repoVars
  <2> QED BY <1>9, <2>1, <1>1, <1>2 DEF CreateHooks
<1>10. CASE RemoveList(c) BY <1>10, <1>5 DEF RemoveList
<1>11. CASE RemoveTree(c) BY <1>11, <1>4, <1>5 DEF RemoveTree
<1>12. CASE DeleteBranch(c) BY <1>12, <1>4 DEF DeleteBranch
<1> QED BY <1>6, <1>7, <1>8, <1>9, <1>10, <1>11, <1>12 DEF Command

LEMMA DirCommand ==
    ASSUME WorktreesAssumption, Shape, WorkInv, DirInv, NEW c \in cmds, Command(c)
    PROVE  DirInv'
<1>1. todoIssues' = todoIssues /\ pr' = pr /\ unmerged' = unmerged BY CommandDirs
<1>2. ASSUME c.op = "remove", NEW t \in Tree, t \in Inside(c.tree)
      PROVE  /\ t[1] = IssueOf(c) /\ pr[t[1]] = "merged"
             /\ slots[t[1]].state # "working"
  <2>1. t[1] = IssueOf(c) BY <1>2, InsideIsOwn, Kinds DEF IssueOf
  <2>2. pr[IssueOf(c)] = "merged" BY <1>2 DEF WorkInv
  <2>3. slots[IssueOf(c)].state \in {"none", "cleaning"} BY <1>2 DEF DirInv
  <2> QED BY <2>1, <2>2, <2>3
<1>3. ASSUME NEW t \in trees'
      PROVE  /\ t \in dirs' \/ pr[t[1]] = "merged"
             /\ t[2] = 0 \/ t[1] \in unmerged \/ pr[t[1]] = "merged"
  <2>1. CASE t \in trees
    <3>1. /\ t \in dirs \/ pr[t[1]] = "merged"
          /\ t[2] = 0 \/ t[1] \in unmerged \/ pr[t[1]] = "merged"
      BY <2>1 DEF DirInv
    <3>2. t \in Tree BY <2>1 DEF Shape
    <3>3. t \in dirs => t \in dirs' \/ pr[t[1]] = "merged" BY <3>2, <1>2, CommandTrees
    <3> QED BY <3>1, <3>3
  <2>2. CASE t \notin trees
    <3>1. t = c.tree /\ t \in dirs' BY <2>2, CommandTrees
    <3>2. t[2] = 0 BY <3>1, Kinds DEF Main
    <3> QED BY <3>1, <3>2
  <2> QED BY <2>1, <2>2
<1>4. ASSUME NEW i \in Issues, slots'[i].state = "working"
      PROVE  slots'[i].tree = Main(i) /\ Main(i) \in dirs'
  <2>1. CASE slots'[i] = slots[i]
    <3>1. slots[i].state = "working" /\ slots[i].tree = Main(i) /\ Main(i) \in dirs
      BY <2>1, <1>4 DEF DirInv
    <3>2. Main(i) \in Tree /\ Main(i)[1] = i BY NumberedFromOne DEF Main
    <3>3. Main(i) \in dirs' BY <3>1, <3>2, <1>2, CommandTrees
    <3> QED BY <2>1, <3>1, <3>3
  <2>2. CASE /\ i = IssueOf(c) /\ slots'[i].tree = Main(i) /\ dirs' = dirs
             /\ c.op = "create" /\ c.at = "hooks"
    BY <2>2, Kinds DEF DirInv
  <2> QED BY <1>4, <2>1, <2>2, WorksAfterHooks
<1> QED BY <1>1, <1>3, <1>4, DirSlots, DirCreations DEF DirInv

LEMMA DirStep ==
    ASSUME WorktreesAssumption, NoReopen, Shape, OwnInv, WorkInv, DirInv, [TreesNext]_treeVars
    PROVE  DirInv'
<1>a. ASSUME UNCHANGED <<trees, dirs, slots, cmds, todoIssues, pr, unmerged>> PROVE DirInv'
  BY <1>a DEF DirInv
<1>1. CASE Startup
  <2>1. /\ \A i \in Issues : slots'[i] = NoSlot
        /\ \A c \in cmds' : \E t \in Leftovers : c = RemoveCmd({}, t)
    BY <1>1, AfterStart
  <2>2. UNCHANGED <<trees, dirs, todoIssues, pr, unmerged>> BY <1>1 DEF Startup, repoVars, issueVars
  <2>3. \A c \in cmds' : c.op = "remove" /\ IssueOf(c) \in Issues BY <2>1, Swept DEF IssueOf
  <2>4. NoSlot.state = "none" BY DEF NoSlot
  <2> QED BY <2>1, <2>2, <2>3, <2>4 DEF DirInv
<1>2. CASE Poll BY <1>2, DirPoll
<1>3. ASSUME NEW c \in cmds, Command(c) PROVE DirInv' BY <1>3, DirCommand
<1>4. ASSUME NEW i \in Issues, TakeUp(i) PROVE DirInv'
  <2>1. slots' = [slots EXCEPT ![i] = [state |-> "working", tree |-> Main(i)]]
    BY <1>4 DEF TakeUp, Main
  <2>2. /\ slots'[i] = [state |-> "working", tree |-> Main(i)]
        /\ \A j \in Issues : j # i => slots'[j] = slots[j]
    BY <2>1, AfterSlot
  <2>3. UNCHANGED <<trees, dirs, cmds, todoIssues, pr, unmerged>>
    BY <1>4 DEF TakeUp, repoVars, issueVars
  <2>4. pr[i] = "open" /\ Main(i) \in trees BY <1>4 DEF TakeUp, Main
  <2>5. Main(i) \in dirs BY <2>4 DEF DirInv, Main
  <2>6. \A c \in cmds : c.op = "remove" => IssueOf(c) # i BY <2>4 DEF WorkInv
  <2>7. slots'[i].tree = Main(i) BY <2>2
  <2> QED BY <2>2, <2>3, <2>5, <2>6, <2>7, Kinds DEF DirInv
<1>5. ASSUME NEW i \in Issues, Noticed(i) PROVE DirInv'
  <2> DEFINE r == RemoveCmd({i}, Main(i))
  <2>1. /\ slots'[i] = [state |-> "cleaning", tree |-> Main(i)]
        /\ \A j \in Issues : j # i => slots'[j] = slots[j]
        /\ cmds' = cmds \cup {r}
    BY <1>5, AfterNoticed
  <2>2. UNCHANGED <<trees, dirs, todoIssues, pr, unmerged>>
    BY <1>5 DEF Noticed, repoVars, issueVars
  <2>3. r.op = "remove" /\ IssueOf(r) = i BY SweepFields DEF IssueOf, Main
  <2>4. slots'[i].state = "cleaning" BY <2>1
  <2> HIDE DEF r
  <2> QED BY <2>1, <2>2, <2>3, <2>4, Kinds DEF DirInv
<1>6. ASSUME NEW i \in Issues, Label(i) PROVE DirInv'
  <2>1. /\ UNCHANGED <<trees, dirs, slots, cmds, pr, unmerged>> /\ todoIssues' = todoIssues \cup {i}
    BY <1>6 DEF Label, repoVars
  <2> QED BY <2>1 DEF DirInv
<1>7. ASSUME NEW i \in Issues, Work(i) PROVE DirInv'
  <2>1. /\ UNCHANGED <<trees, dirs, slots, cmds, pr>> /\ todoIssues' = todoIssues \ {i}
        /\ unmerged' = unmerged \cup {i}
    BY <1>7 DEF Work, repoVars
  <2>2. ASSUME NEW c \in cmds, c.op = "create" PROVE IssueOf(c) # i
    BY <1>7, <2>2 DEF Work, HasAgent, OwnInv, DirInv
  <2> QED BY <2>1, <2>2 DEF DirInv
<1>8. ASSUME NEW i \in Issues, OpensPR(i) PROVE DirInv'
  <2>1. i \in unmerged /\ pr[i] # "merged" BY <1>8 DEF OpensPR, WorkInv
  <2>2. \A j \in Issues : pr'[j] = IF j = i THEN "open" ELSE pr[j] BY <1>8 DEF OpensPR, Shape
  <2>3. UNCHANGED <<trees, dirs, slots, cmds, todoIssues, unmerged>> BY <1>8 DEF OpensPR, repoVars
  <2>4. \A t \in trees : t[1] \in Issues BY Tuples DEF Shape
  <2> QED BY <2>1, <2>2, <2>3, <2>4 DEF DirInv
<1>9. ASSUME NEW i \in Issues, Merges(i) PROVE DirInv'
  <2>2. \A j \in Issues : pr'[j] = IF j = i THEN "merged" ELSE pr[j] BY <1>9 DEF Merges, Shape
  <2>3. UNCHANGED <<trees, dirs, slots, cmds, todoIssues>> /\ unmerged' = unmerged \ {i}
    BY <1>9 DEF Merges, repoVars
  <2>4. \A t \in trees : t[1] \in Issues BY Tuples DEF Shape
  <2> QED BY <2>2, <2>3, <2>4 DEF DirInv
<1>10. ASSUME NEW i \in Issues, Reopen(i) PROVE DirInv' BY <1>10 DEF Reopen, NoReopen
<1>11. ASSUME NEW t \in Tree, Fork(t) PROVE DirInv'
  <2>1. /\ trees' = trees \cup {t} /\ dirs' = dirs \cup {t}
        /\ UNCHANGED <<slots, cmds, todoIssues, pr, unmerged>> /\ t[1] \in unmerged
    BY <1>11 DEF Fork, issueVars
  <2> QED BY <2>1 DEF DirInv
<1>12. ASSUME NEW t \in Tree, Join(t) PROVE DirInv'
  <2>1. /\ trees' = trees \ {t} /\ dirs' = dirs \ {t} /\ t[2] # 0
        /\ UNCHANGED <<slots, cmds, todoIssues, pr, unmerged>>
    BY <1>12 DEF Join, issueVars
  <2>2. \A i \in Issues : Main(i) # t BY <2>1 DEF Main
  <2>3. \A c \in cmds : c.tree # t BY <2>2, Kinds
  <2> QED BY <2>1, <2>2, <2>3 DEF DirInv
<1>13. CASE UNCHANGED treeVars BY <1>13, <1>a DEF treeVars
<1> QED BY <1>1, <1>2, <1>3, <1>4, <1>5, <1>6, <1>7, <1>8, <1>9, <1>10, <1>11, <1>12, <1>13
        DEF TreesNext

-----------------------------------------------------------------------------
(* Nothing is left half made *)

LEMMA OneEachStep ==
    ASSUME WorktreesAssumption, Shape, OwnInv, WorkInv, DirInv, OneEach, [TreesNext]_treeVars
    PROVE  OneEach'
<1>a. ASSUME cmds' = cmds PROVE OneEach' BY <1>a DEF OneEach, IssueOf
<1>1. CASE Startup
  <2>1. \A c \in cmds' : \E t \in Leftovers : c = RemoveCmd({}, t) BY <1>1, AfterStart
  <2>2. ASSUME NEW c \in cmds', NEW d \in cmds', IssueOf(c) = IssueOf(d) PROVE c = d
    <3>1. PICK t \in Leftovers : c = RemoveCmd({}, t) BY <2>1
    <3>2. PICK u \in Leftovers : d = RemoveCmd({}, u) BY <2>1
    <3>3. t = Main(t[1]) /\ IssueOf(c) = t[1] BY <3>1, Swept DEF IssueOf
    <3>4. u = Main(u[1]) /\ IssueOf(d) = u[1] BY <3>2, Swept DEF IssueOf
    <3> QED BY <2>2, <3>1, <3>2, <3>3, <3>4
  <2> QED BY <2>2 DEF OneEach, IssueOf
<1>2. CASE Poll
  <2>1. PICK new \in SUBSET todoIssues :
          /\ \A i \in new : slots[i] = NoSlot
          /\ \A c \in cmds' : c \in cmds \/ \E i \in new : c = CreateOf(new, i)
    BY <1>2, Polled
  <2>2. NoSlot.state = "none" BY DEF NoSlot
  <2>3. ASSUME NEW c \in cmds PROVE IssueOf(c) \notin new
    <3>1. c.op = "create" => slots[IssueOf(c)].state = "creating" BY DEF OwnInv
    <3>2. c.op = "remove" => IssueOf(c) \notin todoIssues BY DEF WorkInv
    <3> QED BY <3>1, <3>2, <2>1, <2>2, Kinds
  <2>4. ASSUME NEW i \in new PROVE IssueOf(CreateOf(new, i)) = i
    BY DEF CreateOf, IssueOf, Main
  <2>5. ASSUME NEW c \in cmds', NEW d \in cmds', IssueOf(c) = IssueOf(d) PROVE c = d
    BY <2>1, <2>3, <2>4, <2>5 DEF OneEach
  <2> QED BY <2>5 DEF OneEach, IssueOf
<1>3. ASSUME NEW c \in cmds, Command(c) PROVE OneEach'
  <2>1. ASSUME NEW at, Goto(c, at), \/ c \in CreateCmd /\ at \in {"branch", "add", "hooks"}
                                    \/ c \in SweepCmd /\ at \in {"remove", "removeOnly", "delete"}
        PROVE  OneEach'
    <3>1. cmds' = (cmds \ {c}) \cup {Further(c, at)} BY <2>1, AfterGoto
    <3>2. IssueOf(Further(c, at)) = IssueOf(c) BY FurtherFields DEF IssueOf
    <3>3. ASSUME NEW b \in cmds', NEW d \in cmds', IssueOf(b) = IssueOf(d) PROVE b = d
      BY <3>1, <3>2, <3>3 DEF OneEach
    <3> QED BY <3>3 DEF OneEach, IssueOf
  <2>2. ASSUME cmds' = cmds \ {c} PROVE OneEach' BY <2>2 DEF OneEach, IssueOf
  <2>3. (\E state \in {"working", "error", "refused"} : Created(c, state)) \/ Removed(c)
           => cmds' = cmds \ {c}
    BY DEF Created, Removed
  <2> QED BY <1>3, <2>1, <2>2, <2>3, Outcome
<1>4. ASSUME NEW i \in Issues, Noticed(i) PROVE OneEach'
  <2> DEFINE r == RemoveCmd({i}, Main(i))
  <2>1. cmds' = cmds \cup {r} /\ slots[i].state = "working"
    BY <1>4, AfterNoticed DEF Noticed
  <2>2. IssueOf(r) = i
    <3>1. r.tree = Main(i) BY SweepFields
    <3> QED BY <3>1 DEF IssueOf, Main
  <2>3. ASSUME NEW c \in cmds PROVE IssueOf(c) # i
    <3>1. c.op = "create" => slots[IssueOf(c)].state = "creating" BY DEF OwnInv
    <3>2. c.op = "remove" => slots[IssueOf(c)].state \in {"none", "cleaning"} BY DEF DirInv
    <3> QED BY <3>1, <3>2, <2>1, Kinds
  <2> HIDE DEF r
  <2>4. ASSUME NEW c \in cmds', NEW d \in cmds', IssueOf(c) = IssueOf(d) PROVE c = d
    BY <2>1, <2>2, <2>3, <2>4 DEF OneEach
  <2> QED BY <2>4 DEF OneEach, IssueOf
<1>5. ASSUME NEW i \in Issues, \/ TakeUp(i) \/ Label(i) \/ Work(i) \/ OpensPR(i) \/ Merges(i)
                               \/ Reopen(i)
      PROVE  OneEach'
  BY <1>5, <1>a DEF TakeUp, Label, Work, OpensPR, Merges, Reopen
<1>6. ASSUME NEW t \in Tree, Fork(t) \/ Join(t) PROVE OneEach' BY <1>6, <1>a DEF Fork, Join
<1>7. CASE UNCHANGED treeVars BY <1>7, <1>a DEF treeVars
<1> QED BY <1>1, <1>2, <1>3, <1>4, <1>5, <1>6, <1>7 DEF TreesNext

\* No crash, and git and the directories do as they are told.

\* A worktree of an issue that git lists has its directory: a prune leaves it alone.
LEMMA ListedIsThere ==
    ASSUME Shape, HalfInv, NEW i \in Issues, Main(i) \in trees
    PROVE  Main(i) \in dirs
<1>1. ASSUME NEW d \in cmds, IssueOf(d) = i PROVE d.at \notin {"add", "delete"}
  <2>1. d.tree = Main(i) BY <1>1, Kinds
  <2> QED BY <2>1 DEF HalfInv
<1>2. Whole(i) BY <1>1 DEF HalfInv
<1> QED BY <1>2 DEF Whole

\* A command leaves what git knows of the other issues.
LEMMA OthersUntouched ==
    ASSUME Untroubled, Shape, HalfInv, NEW c \in cmds, Command(c),
           NEW i \in Issues, i # IssueOf(c)
    PROVE  /\ Main(i) \in branches' <=> Main(i) \in branches
           /\ Main(i) \in trees' <=> Main(i) \in trees
           /\ Main(i) \in dirs' <=> Main(i) \in dirs
<1>1. Main(i) # c.tree /\ Main(i) \notin Inside(c.tree)
  BY Kinds, InsideIsOwn DEF Main, IssueOf
<1>2. CASE CreateList(c) \/ CreateHooks(c) \/ RemoveList(c)
  BY <1>2 DEF CreateList, CreateHooks, RemoveList, repoVars
<1>3. CASE CreateBranch(c) BY <1>1, <1>3 DEF CreateBranch
<1>4. CASE CreateAdd(c) BY <1>1, <1>4 DEF CreateAdd, Deleted
<1>5. CASE RemoveTree(c) BY <1>1, <1>5, ListedIsThere DEF RemoveTree, Untroubled
<1>6. CASE DeleteBranch(c) BY <1>1, <1>6 DEF DeleteBranch, Deleted, Untroubled
<1> QED BY <1>2, <1>3, <1>4, <1>5, <1>6 DEF Command

Untouched(c) ==
    \A i \in Issues : i # IssueOf(c) =>
        /\ Main(i) \in branches' <=> Main(i) \in branches
        /\ Main(i) \in trees' <=> Main(i) \in trees
        /\ Main(i) \in dirs' <=> Main(i) \in dirs

\* A command that ends leaves its issue whole.
LEMMA HalfEnd ==
    ASSUME Shape, HalfInv, OneEach, NEW c \in cmds, Untouched(c),
           cmds' = cmds \ {c}, Whole(IssueOf(c))'
    PROVE  HalfInv'
<1>1. ASSUME NEW d \in cmds'
      PROVE  /\ d.at = "add" => d.tree \notin trees' /\ d.tree \notin dirs'
             /\ d.at \in {"delete", "removeOnly"} => d.tree \notin trees'
             /\ d.at = "delete" => d.tree \notin dirs'
  <2>1. d \in cmds /\ IssueOf(d) # IssueOf(c) BY DEF OneEach
  <2>2. d.tree = Main(IssueOf(d)) /\ IssueOf(d) \in Issues BY <2>1, Kinds
  <2>3. (d.tree \in trees' <=> d.tree \in trees) /\ (d.tree \in dirs' <=> d.tree \in dirs)
    BY <2>1, <2>2 DEF Untouched
  <2> QED BY <2>1, <2>3 DEF HalfInv
<1>2. ASSUME NEW i \in Issues, \A d \in cmds' : IssueOf(d) = i => d.at \notin {"add", "delete"}
      PROVE  Whole(i)'
  <2>1. CASE i # IssueOf(c)
    <3>1. \A d \in cmds : IssueOf(d) = i => d.at \notin {"add", "delete"} BY <1>2, <2>1
    <3>2. Whole(i) BY <3>1 DEF HalfInv
    <3> QED BY <2>1, <3>2 DEF Whole, Untouched, Main
  <2>2. CASE i = IssueOf(c) BY <2>2 DEF Whole, Main
  <2> QED BY <2>1, <2>2
<1> QED BY <1>1, <1>2 DEF HalfInv, IssueOf

\* One that goes on leaves its issue as the place says at which it is then.
LEMMA HalfGo ==
    ASSUME Shape, HalfInv, OneEach, NEW c \in cmds, Untouched(c), NEW at, Goto(c, at),
           \/ c \in CreateCmd /\ at \in {"branch", "add", "hooks"}
           \/ c \in SweepCmd /\ at \in {"remove", "removeOnly", "delete"},
           at \notin {"add", "delete"} => Whole(IssueOf(c))',
           at = "add" => c.tree \notin trees' /\ c.tree \notin dirs',
           at \in {"delete", "removeOnly"} => c.tree \notin trees',
           at = "delete" => c.tree \notin dirs'
    PROVE  HalfInv'
<1> DEFINE f == Further(c, at)
<1>0. cmds' = (cmds \ {c}) \cup {f} BY AfterGoto
<1>3. f.tree = c.tree /\ f.at = at /\ IssueOf(f) = IssueOf(c) BY FurtherFields DEF IssueOf
<1> HIDE DEF f
<1>1. ASSUME NEW d \in cmds'
      PROVE  /\ d.at = "add" => d.tree \notin trees' /\ d.tree \notin dirs'
             /\ d.at \in {"delete", "removeOnly"} => d.tree \notin trees'
             /\ d.at = "delete" => d.tree \notin dirs'
  <2>4. CASE d = f BY <2>4, <1>3
  <2>5. CASE d # f
    <3>1. d \in cmds /\ IssueOf(d) # IssueOf(c) BY <2>5, <1>0 DEF OneEach
    <3>2. d.tree = Main(IssueOf(d)) /\ IssueOf(d) \in Issues BY <3>1, Kinds
    <3>3. (d.tree \in trees' <=> d.tree \in trees) /\ (d.tree \in dirs' <=> d.tree \in dirs)
      BY <3>1, <3>2 DEF Untouched
    <3> QED BY <3>1, <3>3 DEF HalfInv
  <2> QED BY <2>4, <2>5
<1>2. ASSUME NEW i \in Issues, \A d \in cmds' : IssueOf(d) = i => d.at \notin {"add", "delete"}
      PROVE  Whole(i)'
  <2>1. CASE i # IssueOf(c)
    <3>1. \A d \in cmds : IssueOf(d) = i => d.at \notin {"add", "delete"} BY <1>0, <1>2, <2>1
    <3>2. Whole(i) BY <3>1 DEF HalfInv
    <3> QED BY <2>1, <3>2 DEF Whole, Untouched, Main
  <2>2. CASE i = IssueOf(c)
    <3>1. at \notin {"add", "delete"} BY <1>0, <1>2, <1>3, <2>2
    <3> QED BY <2>2, <3>1 DEF Whole, Main
  <2> QED BY <2>1, <2>2
<1> QED BY <1>1, <1>2 DEF HalfInv, IssueOf

LEMMA HalfCommand ==
    ASSUME WorktreesAssumption, Untroubled, Shape, OneEach, HalfInv, NEW c \in cmds, Command(c)
    PROVE  HalfInv'
<1> DEFINE i == IssueOf(c)
<1>0. c.tree = Main(i) /\ i \in Issues /\ Untouched(c)
  BY Kinds, OthersUntouched DEF Untouched
<1>a. c.at \notin {"add", "delete"} => Whole(i) BY <1>0 DEF HalfInv, OneEach
<1>b. ASSUME branches' = branches, trees' = trees, dirs' = dirs, Whole(i) PROVE Whole(i)'
  BY <1>b DEF Whole, Main
<1>c. /\ c.at = "add" => c.tree \notin trees /\ c.tree \notin dirs
      /\ c.at \in {"delete", "removeOnly"} => c.tree \notin trees
      /\ c.at = "delete" => c.tree \notin dirs
  BY DEF HalfInv
<1> HIDE DEF i
<1>1. CASE CreateList(c)
  <2>1. Whole(i)' /\ c \in CreateCmd
    BY <1>1, <1>a, <1>b, Kinds DEF CreateList, Running, repoVars
  <2>2. ASSUME Goto(c, "branch") PROVE HalfInv' BY <2>1, <2>2, <1>0, HalfGo DEF i
  <2>3. ASSUME NEW state, Created(c, state) PROVE HalfInv'
    BY <2>1, <2>3, <1>0, HalfEnd DEF i, Created
  <2> QED BY <1>1, <2>2, <2>3 DEF CreateList
<1>2. CASE CreateBranch(c)
  <2>1. c \in CreateCmd /\ c.at = "branch" /\ trees' = trees /\ dirs' = dirs
    BY <1>2, Kinds DEF CreateBranch, Running
  <2>2. CASE c.tree \notin branches /\ Goto(c, "add")
    <3>1. c.tree \notin trees' /\ c.tree \notin dirs' BY <2>1, <2>2, <1>0, <1>a DEF Whole
    <3> QED BY <2>1, <2>2, <3>1, <1>0, HalfGo
  <2>3. CASE UNCHANGED branches /\ Created(c, "error")
    <3>1. Whole(i)' BY <2>1, <2>3, <1>a, <1>b
    <3> QED BY <2>3, <3>1, <1>0, HalfEnd DEF i, Created
  <2> QED BY <1>2, <2>2, <2>3 DEF CreateBranch, Untroubled
<1>3. CASE CreateAdd(c)
  <2>1. c \in CreateCmd /\ c.tree \notin trees /\ c.tree \notin dirs
    BY <1>3, <1>c, Kinds DEF CreateAdd, Running
  <2>2. CASE /\ c.tree \in branches \ trees
             /\ trees' = trees \cup {c.tree} /\ dirs' = dirs \cup {c.tree} /\ Goto(c, "hooks")
             /\ UNCHANGED branches
    <3>1. Whole(i)' BY <2>2, <1>0 DEF Whole, Main
    <3> QED BY <2>1, <2>2, <3>1, <1>0, HalfGo DEF i
  <2>3. CASE branches' = Deleted(c.tree) /\ UNCHANGED <<trees, dirs>> /\ Created(c, "error")
    <3>1. Whole(i)' BY <2>1, <2>3, <1>0 DEF Whole, Main, Deleted
    <3> QED BY <2>3, <3>1, <1>0, HalfEnd DEF i, Created
  <2> QED BY <1>3, <2>2, <2>3 DEF CreateAdd
<1>4. CASE CreateHooks(c)
  <2>1. Whole(i)' BY <1>4, <1>a, <1>b DEF CreateHooks, Running, repoVars
  <2> QED BY <1>4, <2>1, <1>0, HalfEnd DEF i, CreateHooks, Created
<1>5. CASE RemoveList(c)
  <2>1. Whole(i)' /\ c \in SweepCmd /\ trees' = trees
    BY <1>5, <1>a, <1>b, Kinds DEF RemoveList, Running, repoVars
  <2>2. CASE Goto(c, "remove") BY <2>1, <2>2, <1>0, HalfGo DEF i
  <2>3. CASE c.tree \notin trees /\ Goto(c, "removeOnly") BY <2>1, <2>3, <1>0, HalfGo DEF i
  <2> QED BY <1>5, <2>2, <2>3 DEF RemoveList, Untroubled
<1>6. CASE RemoveTree(c)
  <2>1. /\ c \in SweepCmd /\ c.at \in {"remove", "removeOnly"} /\ branches' = branches
        /\ trees' = trees \ {c.tree} \/ trees' = trees \cap dirs'
        /\ dirs' = dirs \ Inside(c.tree)
        /\ IF c.at = "remove" THEN Goto(c, "delete") ELSE Removed(c)
    BY <1>6, Kinds DEF RemoveTree, Running, Untroubled
  <2>2. c.tree \in Inside(c.tree) BY <1>0 DEF Inside, Main
  <2>3. CASE c.at = "remove" BY <2>1, <2>2, <2>3, <1>0, HalfGo
  <2>4. CASE c.at = "removeOnly"
    <3>1. c.tree \notin branches /\ c.tree \notin trees BY <2>4, <1>0, <1>a, <1>c DEF Whole
    <3>2. Whole(i)' BY <2>1, <2>2, <3>1, <1>0 DEF Whole, Main
    <3> QED BY <2>1, <2>4, <3>2, <1>0, HalfEnd DEF i, Removed
  <2> QED BY <2>1, <2>3, <2>4
<1>7. CASE DeleteBranch(c)
  <2>1. /\ c.at = "delete" /\ branches' = Deleted(c.tree) /\ trees' = trees /\ dirs' = dirs
        /\ Removed(c)
    BY <1>7 DEF DeleteBranch, Running, Untroubled
  <2>2. Whole(i)' BY <2>1, <1>0, <1>c DEF Whole, Main, Deleted
  <2> QED BY <2>1, <2>2, <1>0, HalfEnd DEF i, Removed
<1> QED BY <1>1, <1>2, <1>3, <1>4, <1>5, <1>6, <1>7 DEF Command

LEMMA HalfStep ==
    ASSUME WorktreesAssumption, Untroubled, Shape, OneEach, HalfInv, [TreesNext]_treeVars
    PROVE  HalfInv'
\* New commands are at their first place.
<1>a. ASSUME UNCHANGED repoVars, cmds \subseteq cmds',
             \A c \in cmds' : c \in cmds \/ c.at = "list"
      PROVE  HalfInv'
  <2>1. branches' = branches /\ trees' = trees /\ dirs' = dirs BY <1>a DEF repoVars
  <2>2. \A i \in Issues : Whole(i)' <=> Whole(i) BY <2>1 DEF Whole, Main
  <2> QED BY <2>1, <2>2, <1>a DEF HalfInv, IssueOf
<1>1. CASE Startup
  <2>1. \A c \in cmds' : \E t \in Leftovers : c = RemoveCmd({}, t) BY <1>1, AfterStart
  <2>2. \A c \in cmds' : c.at = "list" BY <2>1, Swept
  <2>3. cmds = {} BY <1>1 DEF Startup, Untroubled
  <2> QED BY <1>1, <2>2, <2>3, <1>a DEF Startup
<1>2. CASE Poll
  <2>1. \A c \in cmds' : c \in cmds \/ c.at = "list"
    <3>1. PICK new : \A c \in cmds' : c \in cmds \/ \E i \in new : c = CreateOf(new, i)
      BY <1>2, Polled
    <3>2. \A i \in new : CreateOf(new, i).at = "list" BY DEF CreateOf
    <3> QED BY <3>1, <3>2
  <2>2. cmds \subseteq cmds' BY <1>2 DEF Poll
  <2> QED BY <1>2, <2>1, <2>2, <1>a DEF Poll
<1>3. ASSUME NEW c \in cmds, Command(c) PROVE HalfInv' BY <1>3, HalfCommand
<1>4. ASSUME NEW i \in Issues, Noticed(i) PROVE HalfInv'
  <2>1. cmds' = cmds \cup {RemoveCmd({i}, slots[i].tree)} /\ UNCHANGED repoVars
    BY <1>4 DEF Noticed
  <2>2. RemoveCmd({i}, slots[i].tree).at = "list" BY DEF RemoveCmd
  <2> QED BY <2>1, <2>2, <1>a
<1>5. ASSUME NEW i \in Issues, \/ TakeUp(i) \/ Label(i) \/ Work(i) \/ OpensPR(i) \/ Merges(i)
                               \/ Reopen(i)
      PROVE  HalfInv'
  BY <1>5, <1>a DEF TakeUp, Label, Work, OpensPR, Merges, Reopen
<1>6. ASSUME NEW t \in Tree, Fork(t) \/ Join(t) PROVE HalfInv'
  <2>1. t[2] # 0 /\ cmds' = cmds BY <1>6 DEF Fork, Join
  <2>2. \A i : /\ Main(i) \in branches' <=> Main(i) \in branches
               /\ Main(i) \in trees' <=> Main(i) \in trees
               /\ Main(i) \in dirs' <=> Main(i) \in dirs
    <3>1. \A i : Main(i) # t BY <2>1 DEF Main
    <3> QED BY <3>1, <1>6 DEF Fork, Join
  <2>3. \A i \in Issues : Whole(i)' <=> Whole(i) BY <2>2 DEF Whole, Main
  <2>4. \A c \in cmds : /\ c.tree \in trees' <=> c.tree \in trees
                        /\ c.tree \in dirs' <=> c.tree \in dirs
    BY <2>2, Kinds
  <2> QED BY <2>1, <2>3, <2>4 DEF HalfInv, IssueOf
<1>7. CASE UNCHANGED treeVars
  <2>1. UNCHANGED repoVars /\ cmds' = cmds BY <1>7 DEF treeVars, repoVars
  <2> QED BY <2>1, <1>a
<1> QED BY <1>1, <1>2, <1>3, <1>4, <1>5, <1>6, <1>7 DEF TreesNext

-----------------------------------------------------------------------------
(* The limit *)


LEMMA MainCard ==
    ASSUME Shape
    PROVE  /\ IsFiniteSet(MainTrees) /\ Cardinality(MainTrees) \in Nat
           /\ Cardinality(trees) \in Nat /\ Cardinality(MainTrees) <= Cardinality(trees)
<1>1. MainTrees \subseteq trees /\ IsFiniteSet(trees) BY DEF MainTrees, Shape
<1> QED BY <1>1, FS_Subset, FS_CardinalityType

LEMMA FewerTrees ==
    ASSUME Shape, MainTrees' \subseteq MainTrees
    PROVE  Cardinality(MainTrees)' \in Nat /\ Cardinality(MainTrees)' <= Cardinality(MainTrees)
BY MainCard, FS_Subset, FS_CardinalityType

LEMMA LimitFrame ==
    ASSUME WorktreesAssumption, Shape, LimitInv, MainTrees' \subseteq MainTrees,
           \A d \in cmds' : d.op = "create" => d \in cmds
    PROVE  LimitInv'
<1>1. /\ Cardinality(MainTrees) \in Nat /\ MaxPerProject \in Nat
      /\ Cardinality(MainTrees)' \in Nat /\ Cardinality(MainTrees)' <= Cardinality(MainTrees)
  BY MainCard, FewerTrees DEF WorktreesAssumption
<1>2. LimitKept' BY <1>1 DEF LimitKept, LimitInv
<1>3. ASSUME NEW d \in cmds', d.op = "create", d.at \in {"branch", "add"}
      PROVE  Cardinality(MainTrees)' < MaxPerProject
  BY <1>1, <1>3 DEF LimitInv
<1> QED BY <1>2, <1>3 DEF LimitInv

\* The command that passed the limit is alone in having done so.
LEMMA OneBuilds ==
    ASSUME WorktreesAssumption, Shape, OwnInv, LimitInv, NEW c \in cmds, NEW d \in cmds,
           c.op = "create", d.op = "create", Turn(c), d.at # "list"
    PROVE  c = d
<1>1. c.group = d.group BY DEF LimitInv
<1>2. c.tree[1] <= d.tree[1] BY <1>1 DEF Turn
<1>3. d.tree[1] <= c.tree[1] BY DEF LimitInv
<1>4. c.tree[1] \in Nat /\ d.tree[1] \in Nat BY Kinds DEF IssueOf, WorktreesAssumption
<1>5. IssueOf(c) = IssueOf(d) BY <1>2, <1>3, <1>4 DEF IssueOf
<1>6. c.group # {} /\ d.group # {} BY Kinds DEF CreateCmd
<1> QED BY <1>5, <1>6 DEF OwnInv

\* A creation goes on, with room or with its worktree made.
LEMMA LimitGo ==
    ASSUME WorktreesAssumption, Shape, OwnInv, LimitInv, NEW c \in CreateCmd \cap cmds, Turn(c),
           NEW at \in {"branch", "add", "hooks"}, Goto(c, at),
           at \in {"branch", "add"} => Cardinality(MainTrees)' < MaxPerProject,
           LimitKept'
    PROVE  LimitInv'
<1> DEFINE f == Further(c, at)
<1>1. cmds' = (cmds \ {c}) \cup {f} BY AfterGoto
<1>2. f.op = "create" /\ f.tree = c.tree /\ f.group = c.group /\ f.at = at /\ c.op = "create"
  BY FurtherFields DEF CreateCmd
<1> HIDE DEF f
<1>3. \A d \in cmds : d.op = "create" => c.group = d.group /\ c.tree[1] <= d.tree[1]
  BY <1>2 DEF LimitInv, Turn
<1>4. \A d \in cmds : d.op = "create" /\ d.at # "list" => d = c BY <1>2, OneBuilds
<1>5. ASSUME NEW d \in cmds', d.op = "create", d.at # "list" PROVE d = f
  BY <1>1, <1>4, <1>5
<1>6. ASSUME NEW d \in cmds', d.op = "create" PROVE f.group = d.group /\ f.tree[1] <= d.tree[1]
  <2>1. c.tree[1] \in Nat BY Kinds DEF IssueOf, WorktreesAssumption
  <2> QED BY <1>1, <1>2, <1>3, <1>6, <2>1
<1>7. \A d \in cmds' : d.op = "create" /\ d.at \in {"branch", "add"}
                          => Cardinality(MainTrees)' < MaxPerProject
  BY <1>2, <1>5
<1> QED BY <1>5, <1>6, <1>7 DEF LimitInv

LEMMA LimitCommand ==
    ASSUME WorktreesAssumption, Shape, OwnInv, LimitInv, NEW c \in cmds, Command(c)
    PROVE  LimitInv'
<1>0. Cardinality(MainTrees) \in Nat /\ MaxPerProject \in Nat
  BY MainCard DEF WorktreesAssumption
<1>a. ASSUME cmds' = cmds \ {c}, trees' \subseteq trees PROVE LimitInv'
  BY <1>a, LimitFrame DEF MainTrees
<1>b. ASSUME UNCHANGED trees PROVE MainTrees' = MainTrees /\ LimitKept'
  BY <1>b DEF MainTrees, LimitKept, LimitInv
<1>c. ASSUME NEW at, c \in SweepCmd, at \in {"remove", "removeOnly", "delete"}, Goto(c, at),
             trees' \subseteq trees
      PROVE  LimitInv'
  <2>1. cmds' = (cmds \ {c}) \cup {Further(c, at)} /\ Further(c, at).op = c.op
    BY <1>c, AfterGoto, FurtherFields
  <2>2. \A d \in cmds' : d.op = "create" => d \in cmds BY <1>c, <2>1 DEF SweepCmd
  <2> QED BY <1>c, <2>2, LimitFrame DEF MainTrees
<1>1. CASE CreateList(c)
  <2>1. c \in CreateCmd /\ Turn(c) /\ UNCHANGED trees
    BY <1>1, Kinds DEF CreateList, Running, repoVars
  <2>2. CASE Cardinality(trees) < MaxPerProject /\ Goto(c, "branch")
    <3>1. Cardinality(MainTrees) < MaxPerProject BY <2>2, <1>0, MainCard
    <3> QED BY <2>1, <2>2, <3>1, <1>b, LimitGo
  <2>3. CASE \E state : Created(c, state) BY <2>1, <2>3, <1>a DEF Created
  <2> QED BY <1>1, <2>2, <2>3 DEF CreateList
<1>2. CASE CreateBranch(c)
  <2>1. /\ c \in CreateCmd /\ Turn(c) /\ UNCHANGED trees
        /\ Cardinality(MainTrees) < MaxPerProject
    BY <1>2, Kinds DEF CreateBranch, Running, LimitInv
  <2>2. CASE Goto(c, "add") BY <2>1, <2>2, <1>b, LimitGo
  <2>3. CASE Created(c, "error") BY <2>1, <2>3, <1>a DEF Created
  <2> QED BY <1>2, <2>2, <2>3 DEF CreateBranch
<1>3. CASE CreateAdd(c)
  <2>1. c \in CreateCmd /\ Turn(c) /\ Cardinality(MainTrees) < MaxPerProject
    BY <1>3, Kinds DEF CreateAdd, Running, LimitInv
  <2>2. CASE trees' = trees \cup {c.tree} /\ c.tree \notin trees /\ Goto(c, "hooks")
    <3>1. c.tree[2] = 0 BY Kinds DEF Main
    <3>2. MainTrees' = MainTrees \cup {c.tree} /\ c.tree \notin MainTrees
      BY <2>2, <3>1 DEF MainTrees
    <3>3. Cardinality(MainTrees)' = Cardinality(MainTrees) + 1
      BY <3>2, MainCard, FS_AddElement
    <3>4. LimitKept' BY <3>3, <2>1, <1>0 DEF LimitKept
    <3> QED BY <2>1, <2>2, <3>4, LimitGo
  <2>3. CASE UNCHANGED trees /\ Created(c, "error") BY <2>3, <1>a DEF Created
  <2> QED BY <1>3, <2>2, <2>3 DEF CreateAdd
<1>4. CASE CreateHooks(c)
  BY <1>4, <1>a DEF CreateHooks, Created, repoVars
<1>5. CASE RemoveList(c) BY <1>5, <1>c, Kinds DEF RemoveList, Running, repoVars
<1>6. CASE RemoveTree(c)
  <2>1. c \in SweepCmd /\ trees' \subseteq trees /\ (Goto(c, "delete") \/ Removed(c))
    BY <1>6, Kinds DEF RemoveTree, Running
  <2> QED BY <2>1, <1>a, <1>c DEF Removed
<1>7. CASE DeleteBranch(c) BY <1>7, <1>a DEF DeleteBranch, Removed
<1> QED BY <1>1, <1>2, <1>3, <1>4, <1>5, <1>6, <1>7 DEF Command

LEMMA LimitStep ==
    ASSUME WorktreesAssumption, NoOverlap, Shape, OwnInv, LimitInv, [TreesNext]_treeVars
    PROVE  LimitInv'
<1>a. ASSUME UNCHANGED trees, \A d \in cmds' : d.op = "create" => d \in cmds PROVE LimitInv'
  BY <1>a, LimitFrame DEF MainTrees
<1>1. CASE Startup
  <2>1. \A c \in cmds' : \E t \in Leftovers : c = RemoveCmd({}, t) BY <1>1, AfterStart
  <2>2. \A c \in cmds' : c.op = "remove" BY <2>1, Swept
  <2> QED BY <1>1, <2>2, <1>a DEF Startup, repoVars
<1>2. CASE Poll
  <2>1. PICK new \in SUBSET todoIssues :
          \A c \in cmds' : c \in cmds \/ \E i \in new : c = CreateOf(new, i)
    BY <1>2, Polled
  <2>2. \A c \in cmds : c.op # "create" BY <1>2, Polled DEF NoOverlap
  <2>3. \A i \in new : CreateOf(new, i).group = new /\ CreateOf(new, i).at = "list"
    BY DEF CreateOf
  <2>4. \A c \in cmds' : c.op = "create" => c.group = new /\ c.at = "list" BY <2>1, <2>2, <2>3
  <2>5. LimitKept' BY <1>2 DEF Poll, repoVars, LimitInv, LimitKept, MainTrees
  <2> QED BY <2>4, <2>5 DEF LimitInv
<1>3. ASSUME NEW c \in cmds, Command(c) PROVE LimitInv' BY <1>3, LimitCommand
<1>4. ASSUME NEW i \in Issues, Noticed(i) PROVE LimitInv'
  <2>1. cmds' = cmds \cup {RemoveCmd({i}, slots[i].tree)} /\ UNCHANGED trees
    BY <1>4 DEF Noticed, repoVars
  <2>2. RemoveCmd({i}, slots[i].tree).op = "remove" BY DEF RemoveCmd
  <2> QED BY <2>1, <2>2, <1>a
<1>5. ASSUME NEW i \in Issues, \/ TakeUp(i) \/ Label(i) \/ Work(i) \/ OpensPR(i) \/ Merges(i)
                               \/ Reopen(i)
      PROVE  LimitInv'
  BY <1>5, <1>a DEF TakeUp, Label, Work, OpensPR, Merges, Reopen, repoVars
<1>6. ASSUME NEW t \in Tree, Fork(t) \/ Join(t) PROVE LimitInv'
  <2>1. MainTrees' \subseteq MainTrees /\ cmds' = cmds BY <1>6 DEF Fork, Join, MainTrees
  <2> QED BY <2>1, LimitFrame
<1>7. CASE UNCHANGED treeVars BY <1>7, <1>a DEF treeVars
<1> QED BY <1>1, <1>2, <1>3, <1>4, <1>5, <1>6, <1>7 DEF TreesNext

-----------------------------------------------------------------------------
(* Refusals *)


LEMMA TasksStep == ASSUME NoForks, Shape, NoTasks, [TreesNext]_treeVars PROVE NoTasks'
<1>1. ASSUME NEW c \in cmds, Command(c) PROVE NoTasks'
  <2>1. c.tree[2] = 0 BY Kinds DEF Main
  <2> QED BY <1>1, <2>1, CommandTrees DEF NoTasks
<1>2. ASSUME NEW t \in Tree, Fork(t) \/ Join(t) PROVE NoTasks'
  BY <1>2 DEF Fork, Join, NoTasks, NoForks
<1>3. CASE Startup \/ Poll BY <1>3 DEF Startup, Poll, repoVars, NoTasks
<1>4. ASSUME NEW i \in Issues, \/ TakeUp(i) \/ Noticed(i) \/ Label(i) \/ Work(i) \/ OpensPR(i)
                               \/ Merges(i) \/ Reopen(i)
      PROVE  NoTasks'
  BY <1>4 DEF TakeUp, Noticed, Label, Work, OpensPR, Merges, Reopen, repoVars, NoTasks
<1>5. CASE UNCHANGED treeVars BY <1>5 DEF treeVars, NoTasks
<1> QED BY <1>1, <1>2, <1>3, <1>4, <1>5 DEF TreesNext

LEMMA RefusesAtLimit ==
    ASSUME WorktreesAssumption, Shape, NoTasks, [TreesNext]_treeVars PROVE RefusalStep
<1> SUFFICES ASSUME NEW i \in Issues, slots'[i].state = "refused", slots[i].state # "refused"
             PROVE  Cardinality(MainTrees) >= MaxPerProject
  BY DEF RefusalStep
<1>0. NoSlot.state # "refused" BY DEF NoSlot
<1>1. ASSUME NEW c \in cmds, Command(c) PROVE Cardinality(MainTrees) >= MaxPerProject
  <2>1. ASSUME NEW state \in {"error", "working"}, Created(c, state) PROVE FALSE
    BY <2>1, AfterCreated
  <2>2. ASSUME Removed(c) PROVE FALSE BY <2>2, <1>0, AfterRemoved
  <2>3. ASSUME NEW at, Goto(c, at) PROVE FALSE BY <2>3 DEF Goto
  <2>4. CreateList(c)
    BY <1>1, <2>1, <2>2, <2>3
       DEF Command, CreateBranch, CreateAdd, CreateHooks, RemoveList, RemoveTree, DeleteBranch
  <2>5. ~(Cardinality(trees) < MaxPerProject) BY <2>1, <2>3, <2>4 DEF CreateList
  <2>6. MainTrees = trees BY DEF NoTasks, MainTrees
  <2> QED BY <2>5, <2>6, MainCard DEF WorktreesAssumption
<1>2. CASE Startup BY <1>0, <1>2, AfterStart
<1>3. CASE Poll
  <2>1. PICK new :
        /\ \A j \in Issues \ new : slots'[j] = slots[j]
        /\ \A j \in new :
             \/ slots'[j] = [state |-> "creating", tree |-> NoTree] /\ Found(j) = {}
             \/ slots'[j].state = "working" /\ slots'[j].tree \in Found(j)
    BY <1>3, Polled
  <2>2. slots'[i] = slots[i] \/ slots'[i].state = "working"
           \/ slots'[i] = [state |-> "creating", tree |-> NoTree]
    BY <2>1
  <2> QED BY <2>2
<1>4. ASSUME NEW j \in Issues, TakeUp(j) PROVE FALSE
  <2>1. slots' = [slots EXCEPT ![j] = [state |-> "working", tree |-> Main(j)]]
    BY <1>4 DEF TakeUp, Main
  <2>2. slots'[i] = slots[i] \/ slots'[i] = [state |-> "working", tree |-> Main(j)]
    BY <2>1, AfterSlot
  <2> QED BY <2>2
<1>5. ASSUME NEW j \in Issues, Noticed(j) PROVE FALSE
  <2>1. slots'[i] = slots[i] \/ slots'[i] = [state |-> "cleaning", tree |-> Main(j)]
    BY <1>5, AfterNoticed
  <2> QED BY <2>1
<1>6. ASSUME NEW j \in Issues, Label(j) \/ Work(j) \/ OpensPR(j) \/ Merges(j) \/ Reopen(j)
      PROVE  FALSE
  BY <1>6 DEF Label, Work, OpensPR, Merges, Reopen
<1>7. ASSUME NEW t \in Tree, Fork(t) \/ Join(t) PROVE FALSE BY <1>7 DEF Fork, Join
<1>8. CASE UNCHANGED treeVars BY <1>8 DEF treeVars
<1> QED BY <1>1, <1>2, <1>3, <1>4, <1>5, <1>6, <1>7, <1>8 DEF TreesNext

-----------------------------------------------------------------------------
(* Theorems *)

\* What happens of Faults is chosen once, so the hypotheses are kept.
LEMMA RigidFaults ==
    ASSUME [TreesNext]_treeVars
    PROVE  /\ NoOverlap' = NoOverlap /\ NoReopen' = NoReopen
           /\ NoForks' = NoForks /\ Untroubled' = Untroubled
<1>1. faults' = faults BY DEF TreesNext, treeVars
<1> QED BY <1>1 DEF NoOverlap, NoReopen, NoForks, Untroubled

LEMMA InitInv ==
    ASSUME WorktreesAssumption, TreesInit
    PROVE  Shape /\ OwnInv /\ WorkInv /\ DirInv /\ OneEach /\ HalfInv /\ LimitInv /\ NoTasks
<1>1. Shape BY ShapeInit
<1>2. NoSlot.state = "none" BY DEF NoSlot
<1>3. OwnInv /\ WorkInv /\ OneEach /\ NoTasks BY DEF TreesInit, OwnInv, WorkInv, OneEach, NoTasks
<1>4. DirInv BY <1>2 DEF TreesInit, DirInv
<1>5. HalfInv BY DEF TreesInit, HalfInv, Whole
<1>6. MainTrees = {} BY DEF TreesInit, MainTrees
<1>7. LimitInv BY <1>6, FS_EmptySet DEF TreesInit, LimitInv, LimitKept, WorktreesAssumption
<1> QED BY <1>1, <1>3, <1>4, <1>5, <1>7

\* The kinds of the variables, whatever fails: a listed worktree has its branch, and a slot
\* has a worktree exactly while it works or cleans up (Manager.Create, Manager.Remove,
\* handleLoopWorktreeCreated).
THEOREM TreesTyped == ASSUME WorktreesAssumption PROVE TreesSpec => []WtTypeOK
<1>1. TreesInit => Shape BY ShapeInit
<1>2. Shape /\ [TreesNext]_treeVars => Shape' BY ShapeStep
<1>3. Shape => WtTypeOK BY DEF Shape, WtTypeOK, Slot, SlotState
<1> QED BY <1>1, <1>2, <1>3, PTL DEF TreesSpec

\* The project never has more worktrees of issues than max_per_project, whatever crashes,
\* fails or is opened again, as long as the creations of two polls do not overlap: Create
\* counts the worktrees some steps before it makes one (manager.go).
THEOREM LimitHolds == ASSUME WorktreesAssumption PROVE TreesSpec => [](NoOverlap => LimitKept)
<1> DEFINE Inv == Shape /\ OwnInv /\ (NoOverlap => LimitInv)
<1>1. TreesInit => Inv BY InitInv
<1>2. Inv /\ [TreesNext]_treeVars => Inv' BY RigidFaults, ShapeStep, OwnStep, LimitStep
<1>3. Inv => (NoOverlap => LimitKept) BY DEF LimitInv
<1> QED BY <1>1, <1>2, <1>3, PTL DEF TreesSpec

\* No step refuses a creation for the limit unless that many issues have worktrees, or
\* parallel tasks, which Create counts as well, have some of them; and none removes a
\* directory with work nobody merged, whatever crashes, fails or overlaps, unless an issue
\* whose PR was merged is opened again: the sweep and the PR poll then go by the old PR
\* (Manager.Create, loopCleanupMergedCmd, Manager.Remove).
THEOREM NothingIsTaken == ASSUME WorktreesAssumption PROVE TreesSpec => TreesLeftAlone
<1> DEFINE Inv == Shape /\ (NoForks => NoTasks) /\ (NoReopen => WorkInv)
<1>1. TreesInit => Inv BY InitInv
<1>2. Inv /\ [TreesNext]_treeVars => Inv' BY RigidFaults, ShapeStep, TasksStep, WorkStep
<1>3. Inv /\ [TreesNext]_treeVars => [TreeStepOK]_treeVars
  BY RefusesAtLimit, KeptStep DEF TreeStepOK
<1> QED BY <1>1, <1>2, <1>3, PTL DEF TreesSpec, TreesLeftAlone

\* Under the same hypothesis a working slot has its directory: neither a removal nor the
\* tasks of its agent take it, and a poll finds the issue's own (handleLoopPoll,
\* findLoopSlotFromWorktree, handleLoopOpenPRs).
THEOREM SlotsHaveTrees == ASSUME WorktreesAssumption PROVE TreesSpec => [](NoReopen => SlotHasTree)
<1> DEFINE Inv == Shape /\ OwnInv /\ (NoReopen => WorkInv /\ DirInv)
<1>1. TreesInit => Inv BY InitInv
<1>2. Inv /\ [TreesNext]_treeVars => Inv' BY RigidFaults, ShapeStep, OwnStep, WorkStep, DirStep
<1>3. Inv => (NoReopen => SlotHasTree) BY DEF DirInv, SlotHasTree
<1> QED BY <1>1, <1>2, <1>3, PTL DEF TreesSpec

\* Between commands an issue has its branch, its entry in git's list and its directory, or
\* none of them, if there is no crash and git does as it is told (Manager.Create,
\* Manager.Remove).
THEOREM NothingIsHalf == ASSUME WorktreesAssumption PROVE TreesSpec => [](Untroubled => NoHalf)
<1> DEFINE Parts == WorkInv /\ DirInv /\ OneEach /\ HalfInv
           Inv == Shape /\ OwnInv /\ (Untroubled => Parts)
<1>1. TreesInit => Inv BY InitInv
<1>2. Inv /\ [TreesNext]_treeVars => Inv'
  <2> SUFFICES ASSUME Inv, [TreesNext]_treeVars PROVE Inv' OBVIOUS
  <2>1. Shape' /\ OwnInv' BY ShapeStep, OwnStep
  <2>2. ASSUME Untroubled PROVE Parts'
    <3>1. NoReopen BY <2>2 DEF Untroubled, NoReopen
    <3> QED BY <2>2, <3>1, WorkStep, DirStep, OneEachStep, HalfStep
  <2> QED BY <2>1, <2>2, RigidFaults
<1>3. Inv => (Untroubled => NoHalf) BY DEF HalfInv, NoHalf, Whole, Main
<1> QED BY <1>1, <1>2, <1>3, PTL DEF TreesSpec

\* The parts together, for any number of issues, parallel tasks and sessions and any set of
\* faults (Manager.Create, Manager.Remove, handleLoopWorktreeCreated, handleLoopPoll).
THEOREM TreesStayWhole == ASSUME WorktreesAssumption PROVE TreesSpec => []TreesAreWhole
BY TreesTyped, LimitHolds, SlotsHaveTrees, NothingIsHalf, PTL DEF TreesAreWhole

=============================================================================
