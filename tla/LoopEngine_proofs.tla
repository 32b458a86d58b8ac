-------------------------- MODULE LoopEngine_proofs --------------------------
(***************************************************************************)
(* Theorems about LoopEngine, for every set of clients, of issues and of   *)
(* dependencies, and every value of the limits and bounds.                 *)
(***************************************************************************)
EXTENDS LoopEngine, TLAPS, FiniteSetTheorems, WellFoundedInduction

Item == Command \cup Message

-----------------------------------------------------------------------------
(* Items in flight. *)

\* What an item carries follows from its op.
LEMMA ItemFields ==
  ASSUME NEW m \in Item
  PROVE  /\ m.op \in {"labelCheck", "ensureLabels", "poll", "scanPRs", "cleanupMerged",
                      "labelChecked", "labelsEnsured", "polled", "openPRs"}
               => m.issue = NoIssue
         /\ m.op \notin {"labelCheck", "ensureLabels", "poll", "scanPRs", "cleanupMerged",
                         "labelChecked", "labelsEnsured", "polled", "openPRs"}
               => m.issue \in Issues
         /\ m.op = "polled" => m.todo \subseteq Issues /\ m.ok \in BOOLEAN
         /\ m.op = "openPRs" => /\ m.prs \subseteq Issues
                                /\ m.labels \in [Issues -> SUBSET Label]
                                /\ m.ok \in BOOLEAN
         /\ m.op \in {"launch", "launched"} => m.role \in Role
         /\ m.op = "launch" => m.dir \in Issues \cup {NoIssue}
         /\ m.op = "merge" => m.attempt \in 0..3 /\ m.branch \in Issues \cup {NoIssue}
         /\ m.op = "pollPR" => m.branch \in Issues \cup {NoIssue}
         /\ m.op = "cleanup" => m.dir \in Issues \cup {NoIssue}
         /\ m.op = "labels" => m.labels \subseteq Label
         /\ m.op = "merged" => m.kind \in {"", "permanent", "transient_exhausted", "auth"}
  BY DEF Item, Command, Message

\* The items the commands and handlers put in flight are items.
LEMMA ItemConstructors ==
  /\ \A op \in {"labelCheck", "ensureLabels", "poll", "scanPRs", "cleanupMerged"} :
        Cmd(op) \in Item
  /\ \A i \in Issues : \A op \in {"write", "pollLabels", "close"} : IssueCmd(op, i) \in Item
  /\ \A i \in Issues, after \in SUBSET Issues :
        [op |-> "create", issue |-> i, after |-> after] \in Item
  /\ \A i \in Issues, role \in Role, dir \in Issues \cup {NoIssue} :
        [op |-> "launch", issue |-> i, role |-> role, dir |-> dir] \in Item
  /\ \A i \in Issues, branch \in Issues \cup {NoIssue} :
        [op |-> "pollPR", issue |-> i, branch |-> branch] \in Item
  /\ \A i \in Issues, branch \in Issues \cup {NoIssue}, k \in 0..3 :
        [op |-> "merge", issue |-> i, branch |-> branch, attempt |-> k] \in Item
  /\ \A i \in Issues, dir \in Issues \cup {NoIssue} :
        [op |-> "cleanup", issue |-> i, dir |-> dir] \in Item
  /\ \A res \in {"ok", "missing", "err"} :
        [op |-> "labelChecked", issue |-> NoIssue, res |-> res] \in Item
  /\ \A ok \in BOOLEAN : [op |-> "labelsEnsured", issue |-> NoIssue, ok |-> ok] \in Item
  /\ \A ok \in BOOLEAN, todo \in SUBSET Issues :
        [op |-> "polled", issue |-> NoIssue, ok |-> ok, todo |-> todo] \in Item
  /\ \A ok \in BOOLEAN, open \in SUBSET Issues, ls \in [Issues -> SUBSET Label] :
        [op |-> "openPRs", issue |-> NoIssue, ok |-> ok, prs |-> open, labels |-> ls] \in Item
  /\ \A i \in Issues, ok \in BOOLEAN :
        /\ [op |-> "created", issue |-> i, ok |-> ok] \in Item
        /\ [op |-> "written", issue |-> i, ok |-> ok] \in Item
  /\ \A i \in Issues, role \in Role, ok \in BOOLEAN :
        [op |-> "launched", issue |-> i, role |-> role, ok |-> ok] \in Item
  /\ \A i \in Issues, ok \in BOOLEAN, ls \in SUBSET Label :
        [op |-> "labels", issue |-> i, ok |-> ok, labels |-> ls] \in Item
  /\ \A i \in Issues, ok \in BOOLEAN, pr \in PRState :
        [op |-> "prStatus", issue |-> i, ok |-> ok, pr |-> pr] \in Item
  /\ \A i \in Issues, kind \in {"", "permanent", "transient_exhausted", "auth"} :
        [op |-> "merged", issue |-> i, kind |-> kind] \in Item
  /\ \A i \in Issues : [op |-> "cleaned", issue |-> i] \in Item
  <1>1. /\ \A op \in {"labelCheck", "ensureLabels", "poll", "scanPRs", "cleanupMerged"} :
              Cmd(op) \in Item
        /\ \A i \in Issues : \A op \in {"write", "pollLabels", "close"} : IssueCmd(op, i) \in Item
        /\ \A i \in Issues, after \in SUBSET Issues :
              [op |-> "create", issue |-> i, after |-> after] \in Item
        /\ \A i \in Issues, role \in Role, dir \in Issues \cup {NoIssue} :
              [op |-> "launch", issue |-> i, role |-> role, dir |-> dir] \in Item
        /\ \A i \in Issues, branch \in Issues \cup {NoIssue} :
              [op |-> "pollPR", issue |-> i, branch |-> branch] \in Item
        /\ \A i \in Issues, branch \in Issues \cup {NoIssue}, k \in 0..3 :
              [op |-> "merge", issue |-> i, branch |-> branch, attempt |-> k] \in Item
        /\ \A i \in Issues, dir \in Issues \cup {NoIssue} :
              [op |-> "cleanup", issue |-> i, dir |-> dir] \in Item
    BY DEF Item, Command, Cmd, IssueCmd
  <1>2. /\ \A res \in {"ok", "missing", "err"} :
              [op |-> "labelChecked", issue |-> NoIssue, res |-> res] \in Item
        /\ \A ok \in BOOLEAN : [op |-> "labelsEnsured", issue |-> NoIssue, ok |-> ok] \in Item
        /\ \A ok \in BOOLEAN, todo \in SUBSET Issues :
              [op |-> "polled", issue |-> NoIssue, ok |-> ok, todo |-> todo] \in Item
        /\ \A ok \in BOOLEAN, open \in SUBSET Issues, ls \in [Issues -> SUBSET Label] :
              [op |-> "openPRs", issue |-> NoIssue, ok |-> ok, prs |-> open, labels |-> ls] \in Item
        /\ \A i \in Issues, ok \in BOOLEAN :
              /\ [op |-> "created", issue |-> i, ok |-> ok] \in Item
              /\ [op |-> "written", issue |-> i, ok |-> ok] \in Item
        /\ \A i \in Issues, role \in Role, ok \in BOOLEAN :
              [op |-> "launched", issue |-> i, role |-> role, ok |-> ok] \in Item
        /\ \A i \in Issues, ok \in BOOLEAN, ls \in SUBSET Label :
              [op |-> "labels", issue |-> i, ok |-> ok, labels |-> ls] \in Item
        /\ \A i \in Issues, ok \in BOOLEAN, pr \in PRState :
              [op |-> "prStatus", issue |-> i, ok |-> ok, pr |-> pr] \in Item
        /\ \A i \in Issues, kind \in {"", "permanent", "transient_exhausted", "auth"} :
              [op |-> "merged", issue |-> i, kind |-> kind] \in Item
        /\ \A i \in Issues : [op |-> "cleaned", issue |-> i] \in Item
    BY DEF Item, Message
  <1>. QED BY <1>1, <1>2

\* The slots as LoopState.Slots holds them.
LEMMA SlotConstructors ==
  /\ NoSlot \in Slot
  /\ FreshSlot \in Slot
  /\ \A j \in Issues : ResumedSlot(j) \in Slot
  /\ \A i \in Issues, ls \in SUBSET Label, listed \in BOOLEAN : PRSlot(i, ls, listed) \in Slot
  /\ \A s \in Slot, st \in SlotState : [s EXCEPT !.state = st] \in Slot
  BY DEF NoSlot, FreshSlot, ResumedSlot, PRSlot, ResumeState, Slot, SlotState, NoIssue

\* One more round leaves a slot a slot.
LEMMA NextRoundType ==
  ASSUME NEW s \in Slot
  PROVE  NextRound(s) \in Slot /\ NextRound(s).state = "WritingAgent"
  <1>1. s.round + 1 \in Nat
    BY DEF Slot
  <1>2. \A n \in Nat : [s EXCEPT !.state = "WritingAgent", !.round = n] \in Slot
    BY DEF Slot, SlotState
  <1>. QED BY <1>1, <1>2 DEF NextRound, Slot

\* Taking an item out of flight and adding others keeps the type of flight.
LEMMA ReplaceType ==
  ASSUME TypeOK, NEW c \in Clients, NEW m, NEW new, new \subseteq Item,
         Replace(c, m, new)
  PROVE  flight' \in [Clients -> SUBSET (Command \cup Message)]
  BY DEF TypeOK, Replace, Item

\* The same for a single item.
LEMMA ReplaceByOneType ==
  ASSUME TypeOK, NEW c \in Clients, NEW m, NEW item \in Item, Replace(c, m, {item})
  PROVE  flight' \in [Clients -> SUBSET (Command \cup Message)]
  BY ReplaceType

\* The same for no item.
LEMMA ReplaceByNoneType ==
  ASSUME TypeOK, NEW c \in Clients, NEW m, Replace(c, m, {})
  PROVE  flight' \in [Clients -> SUBSET (Command \cup Message)]
  BY ReplaceType

\* So does adding items.
LEMMA AddType ==
  ASSUME TypeOK, NEW c \in Clients, NEW cmd \in Item,
         flight' = [flight EXCEPT ![c] = @ \cup {cmd}]
  PROVE  flight' \in [Clients -> SUBSET (Command \cup Message)]
  BY DEF TypeOK, Item

\* Spending a start, an overlay or an end leaves a budget.
LEMMA BudgetType ==
  ASSUME TypeOK,
         \/ budget.starts > 0 /\ budget' = [budget EXCEPT !.starts = @ - 1]
         \/ budget.overlays > 0 /\ budget' = [budget EXCEPT !.overlays = @ - 1]
         \/ budget.ends > 0 /\ budget' = [budget EXCEPT !.ends = @ - 1]
  PROVE  budget' \in [starts : Nat, overlays : Nat, ends : Nat]
  <1>1. budget \in [starts : Nat, overlays : Nat, ends : Nat]
    BY DEF TypeOK
  <1>. QED BY <1>1

-----------------------------------------------------------------------------
(* Type correctness. *)

\* The initial states are well typed.
LEMMA InitTypeOK == Init => TypeOK
  <1> SUFFICES ASSUME Init PROVE TypeOK
    OBVIOUS
  <1>1. /\ slots \in [Issues -> Slot]
        /\ flight \in [Clients -> SUBSET (Command \cup Message)]
    BY SlotConstructors DEF Init
  <1>2. /\ labels \in [Issues -> SUBSET Label]
        /\ prs \in [Issues -> PRState]
    BY DEF Init, PRState
  <1>3. budget \in [starts : Nat, overlays : Nat, ends : Nat]
    BY LoopAssumption DEF Init
  <1>4. /\ pollTicks \in [Clients -> Nat] /\ labelTicks \in [Clients -> [Issues -> Nat]]
        /\ prTicks \in [Clients -> [Issues -> Nat]]
        /\ gate \in [Clients -> {"open", "overlay", "confirm", "gone"}]
        /\ pendingOp \in [Clients -> BOOLEAN]
        /\ rejected \in [Issues -> Nat]
    BY DEF Init
  <1>. QED BY <1>1, <1>2, <1>3, <1>4 DEF Init, TypeOK

\* A stuttering step keeps the types.
LEMMA StutterTypeOK == TypeOK /\ UNCHANGED vars => TypeOK'
  BY DEF TypeOK, vars, loopVars, timerVars, clientVars, trackerVars, agentVars, lossVars

\* So do the user's keys and dialogs.
LEMMA UserTypeOK ==
  ASSUME TypeOK, NEW c \in Clients, UserActs(c)
  PROVE  TypeOK'
  <1> USE DEF loopVars, timerVars, clientVars, trackerVars, agentVars, lossVars
  <1>1. CASE StopLoop(c)
    <2>1. budget' \in [starts : Nat, overlays : Nat, ends : Nat]
      BY <1>1, BudgetType DEF StopLoop
    <2>. QED BY <1>1, <2>1, SlotConstructors DEF StopLoop, TypeOK
  <1>2. CASE PressStart(c)
    <2>1. Cmd("labelCheck") \in Item
      BY ItemConstructors
    <2>2. flight' \in [Clients -> SUBSET (Command \cup Message)]
      BY <1>2, <2>1, AddType DEF PressStart
    <2>3. budget' \in [starts : Nat, overlays : Nat, ends : Nat]
      BY <1>2, BudgetType DEF PressStart
    <2>. QED BY <1>2, <2>2, <2>3 DEF PressStart, TypeOK
  <1>3. CASE ConfirmLabels(c)
    <2>1. Cmd("ensureLabels") \in Item
      BY ItemConstructors
    <2>2. flight' \in [Clients -> SUBSET (Command \cup Message)]
      <3>1. CASE UNCHANGED flight
        BY <3>1 DEF TypeOK
      <3>2. CASE flight' = [flight EXCEPT ![c] = @ \cup {Cmd("ensureLabels")}]
        BY <2>1, <3>2, AddType
      <3>. QED BY <1>3, <3>1, <3>2 DEF ConfirmLabels
    <2>. QED BY <1>3, <2>2 DEF ConfirmLabels, TypeOK
  <1>4. CASE ShowOverlay(c)
    <2>1. budget' \in [starts : Nat, overlays : Nat, ends : Nat]
      BY <1>4, BudgetType DEF ShowOverlay
    <2>. QED BY <1>4, <2>1 DEF ShowOverlay, TypeOK
  <1>5. CASE DismissOverlay(c)
    BY <1>5 DEF DismissOverlay, TypeOK
  <1>6. CASE RemoteQuit(c)
    BY <1>6 DEF RemoteQuit, TypeOK
  <1>. QED BY <1>1, <1>2, <1>3, <1>4, <1>5, <1>6 DEF UserActs

\* So does a restart of the process.
LEMMA RestartTypeOK == TypeOK /\ ProcessRestart => TypeOK'
  <1> SUFFICES ASSUME TypeOK, ProcessRestart PROVE TypeOK'
    OBVIOUS
  <1>1. budget' \in [starts : Nat, overlays : Nat, ends : Nat]
    BY BudgetType DEF ProcessRestart
  <1>. QED BY <1>1, SlotConstructors DEF TypeOK, ProcessRestart, trackerVars, agentVars

\* A command that only posts an answer.
LEMMA AnswersTypeOK ==
  ASSUME TypeOK, NEW c \in Clients, NEW m, NEW res \in Item, Answers(c, m, res)
  PROVE  TypeOK'
  <1>1. flight' \in [Clients -> SUBSET (Command \cup Message)]
    BY ReplaceType DEF Answers
  <1>. QED BY <1>1 DEF Answers, TypeOK, loopVars, timerVars, clientVars, trackerVars,
              agentVars, lossVars

\* What is in flight is a command or a message.
LEMMA InFlightItem == ASSUME TypeOK, NEW c \in Clients, NEW m \in flight[c] PROVE m \in Item
  BY DEF TypeOK, Item

\* Every command keeps the types.
LEMMA CommandTypeOK ==
  ASSUME TypeOK, NEW c \in Clients, NEW m \in flight[c], RunCommand(c, m)
  PROVE  TypeOK'
  <1> USE DEF loopVars, timerVars, clientVars, trackerVars, agentVars, lossVars
  <1>m. m \in Item
    BY InFlightItem
  <1>1. CASE CheckLabels(c, m)
    BY <1>1, ItemConstructors, AnswersTypeOK DEF CheckLabels
  <1>2. CASE EnsureLabels(c, m)
    BY <1>2, ItemConstructors, AnswersTypeOK DEF EnsureLabels
  <1>3. ASSUME NEW ok \in BOOLEAN, NEW unread \in SUBSET Issues, PollTodo(c, m, ok, unread)
        PROVE  TypeOK'
    <2> DEFINE todo == {i \in Issues : IsTodo(i) /\ DependenciesDone(i)}
               res  == [op |-> "polled", issue |-> NoIssue, ok |-> ok,
                        todo |-> IF ok THEN todo \ unread ELSE {}]
    <2>1. (IF ok THEN todo \ unread ELSE {}) \in SUBSET Issues
      OBVIOUS
    <2>2. res \in Item
      BY <2>1, ItemConstructors
    <2>3. Answers(c, m, res)
      BY <1>3 DEF PollTodo
    <2>. QED BY <2>2, <2>3, AnswersTypeOK
  <1>4. CASE ScanOpenPRs(c, m)
    <2>1. PICK ok \in BOOLEAN, unread \in SUBSET Issues :
            LET open == {i \in Issues : ok /\ prs[i] = "open"} IN
            Answers(c, m,
              [op |-> "openPRs", issue |-> NoIssue, ok |-> ok, prs |-> open,
               labels |-> [i \in Issues |-> IF i \in open \ unread THEN labels[i] ELSE {}]])
      BY <1>4 DEF ScanOpenPRs
    <2> DEFINE open == {i \in Issues : ok /\ prs[i] = "open"}
               ls   == [i \in Issues |-> IF i \in open \ unread THEN labels[i] ELSE {}]
    <2>2. open \in SUBSET Issues /\ ls \in [Issues -> SUBSET Label]
      BY DEF TypeOK
    <2>3. [op |-> "openPRs", issue |-> NoIssue, ok |-> ok, prs |-> open, labels |-> ls] \in Item
      BY <2>2, ItemConstructors
    <2>. QED BY <2>1, <2>3, AnswersTypeOK
  <1>5. CASE CleanupMerged(c, m)
    <2>1. flight' \in [Clients -> SUBSET (Command \cup Message)]
      BY <1>5, ReplaceByNoneType DEF CleanupMerged
    <2>. QED BY <1>5, <2>1 DEF CleanupMerged, LeftoverWorktrees, TypeOK
  <1>6. CASE CreateWorktree(c, m)
    <2>1. m.issue \in Issues
      BY <1>6, <1>m, ItemFields DEF CreateWorktree, Running
    <2>2. flight' \in [Clients -> SUBSET (Command \cup Message)]
      <3>1. PICK ok \in BOOLEAN :
              Replace(c, m, {[op |-> "created", issue |-> m.issue, ok |-> ok]})
        BY <1>6 DEF CreateWorktree
      <3>2. [op |-> "created", issue |-> m.issue, ok |-> ok] \in Item
        BY <2>1, ItemConstructors
      <3>. QED BY <3>1, <3>2, ReplaceByOneType
    <2>. QED BY <1>6, <2>1, <2>2 DEF CreateWorktree, TypeOK
  <1>7. CASE WriteAgent(c, m)
    <2>1. m.issue \in Issues
      BY <1>7, <1>m, ItemFields DEF WriteAgent, Running
    <2>. QED BY <1>7, <2>1, ItemConstructors, AnswersTypeOK DEF WriteAgent
  <1>8. CASE LaunchAgent(c, m)
    <2>1. m.issue \in Issues /\ m.role \in Role /\ m.dir \in Issues \cup {NoIssue}
      BY <1>8, <1>m, ItemFields DEF LaunchAgent, Running
    <2>2. flight' \in [Clients -> SUBSET (Command \cup Message)]
      <3>1. PICK ok \in BOOLEAN :
              Replace(c, m, {[op |-> "launched", issue |-> m.issue, role |-> m.role,
                              ok |-> ok]})
        BY <1>8 DEF LaunchAgent
      <3>2. [op |-> "launched", issue |-> m.issue, role |-> m.role, ok |-> ok] \in Item
        BY <2>1, ItemConstructors
      <3>. QED BY <3>1, <3>2, ReplaceByOneType
    <2>3. agents' \subseteq Agent
      <3>1. agents \subseteq Agent
        BY DEF TypeOK
      <3>2. \A n \in 1..MaxAgents :
              [issue |-> m.issue, role |-> m.role, dir |-> m.dir, n |-> n,
               began |-> FALSE] \in Agent
        BY <2>1 DEF Agent
      <3>. QED BY <1>8, <3>1, <3>2 DEF LaunchAgent
    <2>. QED BY <1>8, <2>2, <2>3 DEF LaunchAgent, TypeOK
  <1>9. ASSUME NEW ok \in BOOLEAN, PollLabels(c, m, ok) PROVE TypeOK'
    <2>1. m.issue \in Issues
      BY <1>9, <1>m, ItemFields DEF PollLabels, Running
    <2>2. (IF ok THEN labels[m.issue] ELSE {}) \in SUBSET Label
      BY <2>1 DEF TypeOK
    <2>. QED BY <1>9, <2>1, <2>2, ItemConstructors, AnswersTypeOK DEF PollLabels
  <1>10. ASSUME NEW ok \in BOOLEAN, PollPR(c, m, ok) PROVE TypeOK'
    <2>1. m.issue \in Issues /\ m.branch \in Issues \cup {NoIssue}
      BY <1>10, <1>m, ItemFields DEF PollPR, Running
    <2>2. (IF ok THEN PRByBranch(m.branch) ELSE "none") \in PRState
      BY <2>1 DEF TypeOK, PRByBranch, PRState
    <2>. QED BY <1>10, <2>1, <2>2, ItemConstructors, AnswersTypeOK DEF PollPR
  <1>11. CASE LookUpPR(c, m) \/ TryMerge(c, m)
    <2>1. /\ m.issue \in Issues
          /\ m.branch \in Issues \cup {NoIssue}
          /\ m.attempt \in 0..3
          /\ m = [op |-> "merge", issue |-> m.issue, branch |-> m.branch,
                  attempt |-> m.attempt]
      BY <1>11, <1>m DEF LookUpPR, TryMerge, Running, Item, Command, Message
    <2>2. \A k \in 0..3 : [m EXCEPT !.attempt = k] \in Item
      <3>1. \A k \in 0..3 : [m EXCEPT !.attempt = k] =
              [op |-> "merge", issue |-> m.issue, branch |-> m.branch, attempt |-> k]
        BY <2>1
      <3>2. \A k \in 0..3 :
              [op |-> "merge", issue |-> m.issue, branch |-> m.branch, attempt |-> k] \in Item
        BY <2>1, ItemConstructors
      <3>. QED BY <3>1, <3>2
    <2>3. \A kind \in {"permanent", "auth", "transient"} : AfterFailure(m, kind) \in Item
      <3> SUFFICES ASSUME NEW kind \in {"permanent", "auth", "transient"}
                   PROVE  AfterFailure(m, kind) \in Item
        OBVIOUS
      <3>1. CASE kind = "transient" /\ m.attempt < MaxAttempts
        BY <2>1, <2>2, <3>1 DEF AfterFailure, MaxAttempts
      <3>2. CASE ~(kind = "transient" /\ m.attempt < MaxAttempts)
        BY <2>1, <3>2, ItemConstructors DEF AfterFailure
      <3>. QED BY <3>1, <3>2
    <2>4. \A kind \in {"", "permanent", "auth"} :
            [op |-> "merged", issue |-> m.issue, kind |-> kind] \in Item
      BY <2>1, ItemConstructors
    <2>5. PICK new \in Item : Replace(c, m, {new})
      <3>1. CASE LookUpPR(c, m)
        <4>1. [m EXCEPT !.attempt = 1] \in Item
          BY <2>2
        <4>. QED BY <3>1, <4>1, <2>4 DEF LookUpPR
      <3>2. CASE TryMerge(c, m)
        BY <3>2, <2>3, <2>4 DEF TryMerge
      <3>. QED BY <1>11, <3>1, <3>2
    <2>6. flight' \in [Clients -> SUBSET (Command \cup Message)]
      BY <2>5, ReplaceByOneType
    <2>7. prs' \in [Issues -> PRState]
      BY <1>11 DEF LookUpPR, TryMerge, TypeOK, PRState
    <2>. QED BY <1>11, <2>6, <2>7 DEF LookUpPR, TryMerge, TypeOK
  <1>12. CASE RemoveWorktree(c, m)
    <2>1. m.issue \in Issues
      BY <1>12, <1>m, ItemFields DEF RemoveWorktree, Running
    <2>a. IssueCmd("close", m.issue) \in Item
      BY <2>1, ItemConstructors
    <2>2. flight' \in [Clients -> SUBSET (Command \cup Message)]
      BY <1>12, <2>a, ReplaceByOneType DEF RemoveWorktree
    <2>. QED BY <1>12, <2>2 DEF RemoveWorktree, TypeOK
  <1>13. CASE CloseIssue(c, m)
    <2>1. m.issue \in Issues
      BY <1>13, <1>m, ItemFields DEF CloseIssue, Running
    <2>a. [op |-> "cleaned", issue |-> m.issue] \in Item
      BY <2>1, ItemConstructors
    <2>2. flight' \in [Clients -> SUBSET (Command \cup Message)]
      BY <1>13, <2>a, ReplaceByOneType DEF CloseIssue
    <2>. QED BY <1>13, <2>1, <2>2 DEF CloseIssue, TypeOK
  <1>. QED BY <1>1, <1>2, <1>3, <1>4, <1>5, <1>6, <1>7, <1>8, <1>9, <1>10, <1>11, <1>12,
              <1>13 DEF RunCommand

\* What a pipeline handler may change: the slots, the timers, the losses recorded.
LEMMA HandlerFrameType ==
  ASSUME TypeOK, HandlerFrame,
         slots' \in [Issues -> Slot],
         flight' \in [Clients -> SUBSET (Command \cup Message)],
         pollTicks' \in [Clients -> Nat],
         labelTicks' \in [Clients -> [Issues -> Nat]],
         prTicks' \in [Clients -> [Issues -> Nat]],
         dropped' \subseteq Issues, resumed' \subseteq Issues
  PROVE  TypeOK'
  BY DEF TypeOK, HandlerFrame, clientVars, trackerVars, agentVars

\* An early return keeps the types.
LEMMA IgnoredTypeOK ==
  ASSUME TypeOK, NEW c \in Clients, NEW m, Ignored(c, m), HandlerFrame
  PROVE  TypeOK'
  <1>1. flight' \in [Clients -> SUBSET (Command \cup Message)]
    BY ReplaceByNoneType DEF Ignored
  <1>2. /\ slots' \in [Issues -> Slot] /\ pollTicks' \in [Clients -> Nat]
        /\ labelTicks' \in [Clients -> [Issues -> Nat]]
        /\ prTicks' \in [Clients -> [Issues -> Nat]]
        /\ dropped' \subseteq Issues /\ resumed' \subseteq Issues
    BY DEF Ignored, TypeOK, timerVars
  <1>. QED BY <1>1, <1>2, HandlerFrameType

\* A handler that changes the slots and the items in flight only.
LEMMA SlotStepTypeOK ==
  ASSUME TypeOK, HandlerFrame, UNCHANGED timerVars, UNCHANGED <<dropped, resumed>>,
         slots' \in [Issues -> Slot],
         flight' \in [Clients -> SUBSET (Command \cup Message)]
  PROVE  TypeOK'
  <1>1. /\ pollTicks' \in [Clients -> Nat]
        /\ labelTicks' \in [Clients -> [Issues -> Nat]]
        /\ prTicks' \in [Clients -> [Issues -> Nat]]
        /\ dropped' \subseteq Issues /\ resumed' \subseteq Issues
    BY DEF TypeOK, timerVars
  <1>. QED BY <1>1, HandlerFrameType

\* Moving a slot to another state leaves slots.
LEMMA MovedType ==
  ASSUME TypeOK, NEW i \in Issues, NEW s \in SlotState
  PROVE  Moved(i, s) \in [Issues -> Slot]
  <1>1. slots \in [Issues -> Slot] /\ slots[i] \in Slot
    BY DEF TypeOK
  <1>2. [slots[i] EXCEPT !.state = s] \in Slot
    BY <1>1, SlotConstructors
  <1>3. Moved(i, s) = [slots EXCEPT ![i] = [slots[i] EXCEPT !.state = s]]
    BY <1>1 DEF Moved
  <1>. QED BY <1>1, <1>2, <1>3

\* Setting a timer leaves timer counts.
LEMMA TimerTypes ==
  ASSUME TypeOK, NEW c \in Clients
  PROVE  /\ SchedulePoll(c) => pollTicks' \in [Clients -> Nat]
         /\ \A i \in Issues : ScheduleLabel(c, i) => labelTicks' \in [Clients -> [Issues -> Nat]]
         /\ \A i \in Issues : SchedulePR(c, i) => prTicks' \in [Clients -> [Issues -> Nat]]
  <1>1. /\ pollTicks \in [Clients -> Nat]
        /\ labelTicks \in [Clients -> [Issues -> Nat]]
        /\ prTicks \in [Clients -> [Issues -> Nat]]
    BY DEF TypeOK
  <1>2. SchedulePoll(c) => pollTicks' \in [Clients -> Nat]
    BY <1>1 DEF SchedulePoll
  <1>3. ASSUME NEW i \in Issues, ScheduleLabel(c, i)
        PROVE  labelTicks' \in [Clients -> [Issues -> Nat]]
    BY <1>1, <1>3 DEF ScheduleLabel
  <1>4. ASSUME NEW i \in Issues, SchedulePR(c, i)
        PROVE  prTicks' \in [Clients -> [Issues -> Nat]]
    BY <1>1, <1>4 DEF SchedulePR
  <1>. QED BY <1>2, <1>3, <1>4

\* The items a slot's fields go into.
LEMMA SlotCmds ==
  ASSUME TypeOK, NEW i \in Issues
  PROVE  /\ \A role \in Role : LaunchCmd(i, role) \in Item
         /\ PollPRCmd(i) \in Item
         /\ MergeCmd(i) \in Item
         /\ CleanupCmd(i) \in Item
  <1>1. slots[i].wt \in Issues \cup {NoIssue} /\ slots[i].branch \in Issues \cup {NoIssue}
    BY DEF TypeOK, Slot
  <1>2. \A role \in Role : LaunchCmd(i, role) \in Item
    BY <1>1, ItemConstructors DEF LaunchCmd
  <1>3. PollPRCmd(i) \in Item
    BY <1>1, ItemConstructors DEF PollPRCmd
  <1>4. MergeCmd(i) \in Item
    <2>1. 0 \in 0..3
      OBVIOUS
    <2>. QED BY <1>1, <2>1, ItemConstructors DEF MergeCmd
  <1>5. CleanupCmd(i) \in Item
    BY <1>1, ItemConstructors DEF CleanupCmd
  <1>. QED BY <1>2, <1>3, <1>4, <1>5

\* Starting a loop keeps the types.
LEMMA ExecuteTypeOK ==
  ASSUME TypeOK, NEW c \in Clients, NEW m \in flight[c], ExecutePendingOp(c, m)
  PROVE  TypeOK'
  <1> USE DEF loopVars, timerVars, clientVars, trackerVars, agentVars, lossVars
  <1>1. flight' \in [Clients -> SUBSET (Command \cup Message)]
    <2>1. {Cmd("cleanupMerged"), Cmd("scanPRs"), Cmd("poll")} \subseteq Item
      BY ItemConstructors
    <2>2. CASE pendingOp[c]
      BY <2>1, <2>2, ReplaceType DEF ExecutePendingOp
    <2>3. CASE ~pendingOp[c]
      BY <2>3, ReplaceByNoneType DEF ExecutePendingOp
    <2>. QED BY <2>2, <2>3
  <1>2. slots' \in [Issues -> Slot]
    BY SlotConstructors DEF ExecutePendingOp, TypeOK
  <1>3. pollTicks' \in [Clients -> Nat]
    BY TimerTypes DEF ExecutePendingOp, TypeOK
  <1>. QED BY <1>1, <1>2, <1>3 DEF ExecutePendingOp, TypeOK

\* So do the answers to the label check.
LEMMA StartTypeOK ==
  ASSUME TypeOK, NEW c \in Clients, NEW m \in flight[c],
         HandleLabelCheck(c, m) \/ HandleLabelsEnsured(c, m)
  PROVE  TypeOK'
  <1> USE DEF loopVars, timerVars, clientVars, trackerVars, agentVars, lossVars
  <1>1. CASE ExecutePendingOp(c, m)
    BY <1>1, ExecuteTypeOK
  <1>2. CASE ~ExecutePendingOp(c, m)
    <2>1. flight' \in [Clients -> SUBSET (Command \cup Message)]
      BY <1>2, ReplaceByNoneType DEF HandleLabelCheck, HandleLabelsEnsured
    <2>. QED BY <1>2, <2>1 DEF HandleLabelCheck, HandleLabelsEnsured, TypeOK
  <1>. QED BY <1>1, <1>2

\* So does the answer of the todo poll.
LEMMA PolledTypeOK ==
  ASSUME TypeOK, NEW c \in Clients, NEW m \in flight[c], HandlePolled(c, m)
  PROVE  TypeOK'
  <1>1. CASE Ignored(c, m) /\ HandlerFrame
    BY <1>1, IgnoredTypeOK
  <1>2. CASE ~(Ignored(c, m) /\ HandlerFrame)
    <2>w. PICK listed \in BOOLEAN : TakeTodo(c, m, listed)
      BY <1>2 DEF HandlePolled
    <2> DEFINE new      == Admitted(m.todo)
               leftover == {i \in new : listed /\ MatchingWorktrees(i) # {}}
               fresh    == new \ leftover
    <2>1. m.op = "polled" /\ m \in Item /\ m.todo \subseteq Issues
      BY InFlightItem, ItemFields DEF HandlePolled, Delivered
    <2>2. new \subseteq Issues
      BY <2>1 DEF Admitted
    <2>3. HandlerFrame
      BY DEF HandlePolled
    <2>4. slots' \in [Issues -> Slot]
      <3>1. PICK found \in [leftover -> wts] :
              slots' = [i \in Issues |-> IF i \in leftover THEN ResumedSlot(found[i])
                                         ELSE IF i \in fresh THEN FreshSlot
                                         ELSE slots[i]]
        BY <2>w DEF TakeTodo
      <3>2. \A i \in leftover : ResumedSlot(found[i]) \in Slot
        BY <3>1, SlotConstructors DEF TypeOK
      <3>3. \A i \in Issues : slots[i] \in Slot
        BY DEF TypeOK
      <3> HIDE DEF leftover, fresh
      <3>. QED BY <3>1, <3>2, <3>3, SlotConstructors
    <2>5. flight' \in [Clients -> SUBSET (Command \cup Message)]
      <3>1. Replace(c, m, {[op |-> "create", issue |-> i,
                            after |-> {j \in fresh : j > i}] : i \in fresh})
        BY <2>w DEF TakeTodo
      <3>2. ASSUME NEW i \in fresh
            PROVE  [op |-> "create", issue |-> i, after |-> {j \in fresh : j > i}] \in Item
        <4>1. i \in Issues /\ {j \in fresh : j > i} \in SUBSET Issues
          BY <2>2, <3>2
        <4> HIDE DEF fresh
        <4>. QED BY <4>1, ItemConstructors
      <3> HIDE DEF fresh
      <3>3. {[op |-> "create", issue |-> i, after |-> {j \in fresh : j > i}] : i \in fresh}
              \subseteq Item
        BY <3>2
      <3>. QED BY <3>1, <3>3, ReplaceType
    <2>6. prTicks' \in [Clients -> [Issues -> Nat]]
      <3>1. prTicks' = [prTicks EXCEPT ![c] = [i \in Issues |-> IF i \in leftover THEN @[i] + 1
                                                                               ELSE @[i]]]
        BY <2>w DEF TakeTodo
      <3>2. prTicks \in [Clients -> [Issues -> Nat]]
        BY DEF TypeOK
      <3> HIDE DEF leftover
      <3>. QED BY <3>1, <3>2
    <2>7. pollTicks' \in [Clients -> Nat] /\ labelTicks' \in [Clients -> [Issues -> Nat]]
      BY <2>w DEF TakeTodo, TypeOK
    <2>8. dropped' \subseteq Issues /\ resumed' \subseteq Issues
      <3>1. dropped' = dropped \ new /\ resumed' = (resumed \ new) \cup leftover
        BY <2>w DEF TakeTodo
      <3>. QED BY <2>2, <3>1 DEF TypeOK
    <2>. QED BY <2>3, <2>4, <2>5, <2>6, <2>7, <2>8, HandlerFrameType
  <1>. QED BY <1>1, <1>2

\* So does the answer of the open-PR scan.
LEMMA OpenPRsTypeOK ==
  ASSUME TypeOK, NEW c \in Clients, NEW m \in flight[c], HandleOpenPRs(c, m)
  PROVE  TypeOK'
  <1>1. CASE Ignored(c, m) /\ HandlerFrame
    BY <1>1, IgnoredTypeOK
  <1>2. CASE ~(Ignored(c, m) /\ HandlerFrame)
    <2>w. PICK listed \in BOOLEAN : TakeOpenPRs(c, m, listed)
      BY <1>2 DEF HandleOpenPRs
    <2> DEFINE new == {i \in m.prs : ~HasSlot(i)}
               taken(s) == {i \in new : ResumeState(m.labels[i]) = s}
               cmds == {IssueCmd("write", i) : i \in taken("WritingAgent")} \cup
                       {[op |-> "launch", issue |-> i, role |-> "reviewer",
                         dir |-> PRSlot(i, m.labels[i], listed).wt] : i \in taken("LaunchingReviewer")}
    <2>1. /\ m.op = "openPRs" /\ m \in Item
          /\ m.prs \subseteq Issues /\ m.labels \in [Issues -> SUBSET Label]
      BY InFlightItem, ItemFields DEF HandleOpenPRs, Delivered
    <2>2. new \subseteq Issues
      BY <2>1
    <2>3. HandlerFrame
      BY DEF HandleOpenPRs
    <2>4. /\ slots' = [i \in Issues |-> IF i \in new THEN PRSlot(i, m.labels[i], listed)
                                              ELSE slots[i]]
          /\ Replace(c, m, cmds)
          /\ labelTicks' = [labelTicks EXCEPT ![c] =
                 [i \in Issues |-> IF i \in taken("Coding") THEN @[i] + 1 ELSE @[i]]]
          /\ prTicks' = [prTicks EXCEPT ![c] =
                 [i \in Issues |-> IF i \in taken("WaitingPRMerge") THEN @[i] + 1 ELSE @[i]]]
          /\ dropped' = dropped \ new /\ resumed' = resumed \ new
          /\ UNCHANGED pollTicks
      BY <2>w DEF TakeOpenPRs
    <2>5. slots' \in [Issues -> Slot]
      <3>1. \A i \in new : PRSlot(i, m.labels[i], listed) \in Slot
        BY <2>1, <2>2, SlotConstructors
      <3>2. \A i \in Issues : slots[i] \in Slot
        BY DEF TypeOK
      <3> HIDE DEF new
      <3>. QED BY <2>4, <3>1, <3>2
    <2>6. flight' \in [Clients -> SUBSET (Command \cup Message)]
      <3>1. \A i \in new : IssueCmd("write", i) \in Item
        BY <2>2, ItemConstructors
      <3>2. ASSUME NEW i \in new
            PROVE  [op |-> "launch", issue |-> i, role |-> "reviewer",
                    dir |-> PRSlot(i, m.labels[i], listed).wt] \in Item
        <4>1. i \in Issues /\ PRSlot(i, m.labels[i], listed).wt \in Issues \cup {NoIssue}
          BY <2>2, <3>2 DEF PRSlot
        <4>2. "reviewer" \in Role
          BY DEF Role
        <4>. QED BY <4>1, <4>2, ItemConstructors
      <3>3. taken("WritingAgent") \subseteq new /\ taken("LaunchingReviewer") \subseteq new
        OBVIOUS
      <3> HIDE DEF new, taken
      <3>4. cmds \subseteq Item
        BY <3>1, <3>2, <3>3
      <3>. QED BY <2>4, <3>4, ReplaceType
    <2>7. labelTicks' \in [Clients -> [Issues -> Nat]] /\ prTicks' \in [Clients -> [Issues -> Nat]]
      <3>1. labelTicks \in [Clients -> [Issues -> Nat]] /\ prTicks \in [Clients -> [Issues -> Nat]]
        BY DEF TypeOK
      <3> HIDE DEF new, taken
      <3>2. labelTicks' \in [Clients -> [Issues -> Nat]]
        BY <2>4, <3>1
      <3>3. prTicks' \in [Clients -> [Issues -> Nat]]
        BY <2>4, <3>1
      <3>. QED BY <3>2, <3>3
    <2>8. dropped' \subseteq Issues /\ resumed' \subseteq Issues /\ pollTicks' \in [Clients -> Nat]
      BY <2>4 DEF TypeOK
    <2>. QED BY <2>3, <2>5, <2>6, <2>7, <2>8, HandlerFrameType
  <1>. QED BY <1>1, <1>2

\* The handlers that move one slot on, other than handleLoopLabelPoll.
LEMMA SlotHandlerTypeOK ==
  ASSUME TypeOK, NEW c \in Clients, NEW m \in flight[c],
         \/ HandleCreated(c, m) \/ HandleWritten(c, m) \/ HandleLaunched(c, m)
         \/ HandlePRStatus(c, m) \/ HandleMerged(c, m) \/ HandleCleaned(c, m)
  PROVE  TypeOK'
  <1>h. HandlerFrame
    BY DEF HandleCreated, HandleWritten, HandleLaunched, HandlePRStatus, HandleMerged,
       HandleCleaned
  <1>0. CASE Ignored(c, m)
    BY <1>0, <1>h, IgnoredTypeOK
  <1>n. ASSUME ~Ignored(c, m) PROVE TypeOK'
    <2>i. m.issue \in Issues /\ (m.op = "launched" => m.role \in Role)
      BY InFlightItem, ItemFields DEF HandleCreated, HandleWritten, HandleLaunched,
         HandlePRStatus, HandleMerged, HandleCleaned, Delivered
    <2>s. \A st \in SlotState : Moved(m.issue, st) \in [Issues -> Slot]
      BY <2>i, MovedType
    <2>1. CASE HandleCreated(c, m)
      <3>1. slots' \in [Issues -> Slot]
        <4>1. "Error" \in SlotState /\ slots \in [Issues -> Slot]
          BY DEF SlotState, TypeOK
        <4>2. [slots[m.issue] EXCEPT !.state = "WritingAgent", !.branch = m.issue,
                                     !.wt = m.issue] \in Slot
          BY <2>i, <4>1 DEF Slot, SlotState
        <4>. QED BY <1>n, <2>1, <2>i, <2>s, <4>1, <4>2 DEF HandleCreated
      <3>2. IssueCmd("write", m.issue) \in Item
        BY <2>i, ItemConstructors
      <3>3. flight' \in [Clients -> SUBSET (Command \cup Message)]
        BY <1>n, <2>1, <3>2, ReplaceByOneType, ReplaceByNoneType DEF HandleCreated
      <3>4. UNCHANGED timerVars /\ UNCHANGED <<dropped, resumed>>
        BY <1>n, <2>1 DEF HandleCreated, timerVars
      <3>. QED BY <1>h, <3>1, <3>3, <3>4, SlotStepTypeOK
    <2>2. CASE HandleWritten(c, m)
      <3>1. slots' \in [Issues -> Slot]
        BY <1>n, <2>2, <2>s DEF HandleWritten, SlotState
      <3>2. LaunchCmd(m.issue, "coder") \in Item
        BY <2>i, SlotCmds DEF Role
      <3>3. flight' \in [Clients -> SUBSET (Command \cup Message)]
        BY <1>n, <2>2, <3>2, ReplaceByOneType, ReplaceByNoneType DEF HandleWritten
      <3>4. UNCHANGED timerVars /\ UNCHANGED <<dropped, resumed>>
        BY <1>n, <2>2 DEF HandleWritten, timerVars
      <3>. QED BY <1>h, <3>1, <3>3, <3>4, SlotStepTypeOK
    <2>3. CASE HandleLaunched(c, m)
      <3>1. slots' \in [Issues -> Slot]
        BY <1>n, <2>3, <2>s DEF HandleLaunched, SlotState
      <3>2. flight' \in [Clients -> SUBSET (Command \cup Message)]
        BY <1>n, <2>3, ReplaceByNoneType DEF HandleLaunched
      <3>3. labelTicks' \in [Clients -> [Issues -> Nat]]
        BY <1>n, <2>3, <2>i, TimerTypes DEF HandleLaunched, TypeOK
      <3>4. /\ pollTicks' \in [Clients -> Nat] /\ prTicks' \in [Clients -> [Issues -> Nat]]
            /\ dropped' \subseteq Issues /\ resumed' \subseteq Issues
        BY <1>n, <2>3 DEF HandleLaunched, TypeOK
      <3>. QED BY <1>h, <3>1, <3>2, <3>3, <3>4, HandlerFrameType
    <2>4. CASE HandlePRStatus(c, m)
      <3>1. slots' \in [Issues -> Slot]
        BY <1>n, <2>4, <2>s DEF HandlePRStatus, SlotState
      <3>2. CleanupCmd(m.issue) \in Item
        BY <2>i, SlotCmds
      <3>3. flight' \in [Clients -> SUBSET (Command \cup Message)]
        BY <1>n, <2>4, <3>2, ReplaceByOneType, ReplaceByNoneType DEF HandlePRStatus
      <3>4. UNCHANGED timerVars /\ UNCHANGED <<dropped, resumed>>
        BY <1>n, <2>4 DEF HandlePRStatus, timerVars
      <3>. QED BY <1>h, <3>1, <3>3, <3>4, SlotStepTypeOK
    <2>5. CASE HandleMerged(c, m)
      <3>1. slots' \in [Issues -> Slot]
        BY <1>n, <2>5, <2>s DEF HandleMerged, SlotState
      <3>2. CleanupCmd(m.issue) \in Item
        BY <2>i, SlotCmds
      <3>3. flight' \in [Clients -> SUBSET (Command \cup Message)]
        BY <1>n, <2>5, <3>2, ReplaceByOneType, ReplaceByNoneType DEF HandleMerged
      <3>4. UNCHANGED timerVars /\ UNCHANGED <<dropped, resumed>>
        BY <1>n, <2>5 DEF HandleMerged, timerVars
      <3>. QED BY <1>h, <3>1, <3>3, <3>4, SlotStepTypeOK
    <2>6. CASE HandleCleaned(c, m)
      <3>1. slots' \in [Issues -> Slot]
        BY <2>6, <2>i, SlotConstructors DEF HandleCleaned, TypeOK
      <3>2. flight' \in [Clients -> SUBSET (Command \cup Message)]
        BY <2>6, ReplaceByNoneType DEF HandleCleaned
      <3>3. /\ pollTicks' \in [Clients -> Nat] /\ labelTicks' \in [Clients -> [Issues -> Nat]]
            /\ prTicks' \in [Clients -> [Issues -> Nat]]
            /\ dropped' \subseteq Issues /\ resumed' \subseteq Issues
        BY <2>6 DEF HandleCleaned, TypeOK, timerVars
      <3>. QED BY <1>h, <3>1, <3>2, <3>3, HandlerFrameType
    <2>. QED BY <2>1, <2>2, <2>3, <2>4, <2>5, <2>6
  <1>. QED BY <1>0, <1>n

\* So does the answer of a label poll.
LEMMA LabelsTypeOK ==
  ASSUME TypeOK, NEW c \in Clients, NEW m \in flight[c], HandleLabels(c, m)
  PROVE  TypeOK'
  <1>h. HandlerFrame
    BY DEF HandleLabels
  <1>0. CASE Ignored(c, m)
    BY <1>0, <1>h, IgnoredTypeOK
  <1>n. ASSUME ~Ignored(c, m) PROVE TypeOK'
    <2>i. m.issue \in Issues
      BY InFlightItem, ItemFields DEF HandleLabels, Delivered
    <2>s. \A st \in SlotState : Moved(m.issue, st) \in [Issues -> Slot]
      BY <2>i, MovedType
    <2>d. UNCHANGED <<dropped, resumed>>
      BY <1>n DEF HandleLabels
    <2>1. CASE ReviewRequested(c, m)
      <3>1. slots' \in [Issues -> Slot] /\ UNCHANGED timerVars
        BY <2>1, <2>s DEF ReviewRequested, SlotState
      <3>2. LaunchCmd(m.issue, "reviewer") \in Item
        BY <2>i, SlotCmds DEF Role
      <3>3. flight' \in [Clients -> SUBSET (Command \cup Message)]
        BY <2>1, <3>2, ReplaceByOneType DEF ReviewRequested
      <3>. QED BY <1>h, <2>d, <3>1, <3>3, SlotStepTypeOK
    <2>2. CASE ReviewPassed(c, m)
      <3>1. slots' \in [Issues -> Slot]
        BY <2>2, <2>s DEF ReviewPassed, SlotState
      <3>2. MergeCmd(m.issue) \in Item
        BY <2>i, SlotCmds
      <3>3. flight' \in [Clients -> SUBSET (Command \cup Message)]
        BY <2>2, <3>2, ReplaceByOneType, ReplaceByNoneType DEF ReviewPassed
      <3>4. prTicks' \in [Clients -> [Issues -> Nat]]
        BY <2>2, <2>i, TimerTypes DEF ReviewPassed, TypeOK, timerVars
      <3>5. /\ pollTicks' \in [Clients -> Nat] /\ labelTicks' \in [Clients -> [Issues -> Nat]]
            /\ dropped' \subseteq Issues /\ resumed' \subseteq Issues
        BY <2>2, <2>d DEF ReviewPassed, TypeOK, timerVars
      <3>. QED BY <1>h, <3>1, <3>3, <3>4, <3>5, HandlerFrameType
    <2>3. CASE ChangesNeeded(c, m)
      <3>1. slots' \in [Issues -> Slot]
        <4>1. slots \in [Issues -> Slot]
          BY DEF TypeOK
        <4>2. NextRound(slots[m.issue]) \in Slot
          BY <2>i, <4>1, NextRoundType
        <4>3. CASE RoundsExhausted(m.issue)
          BY <2>3, <2>s, <4>3 DEF ChangesNeeded, SlotState
        <4>4. CASE ~RoundsExhausted(m.issue)
          BY <2>3, <4>1, <4>2, <4>4 DEF ChangesNeeded
        <4>. QED BY <4>3, <4>4
      <3>2. IssueCmd("write", m.issue) \in Item
        BY <2>i, ItemConstructors
      <3>3. flight' \in [Clients -> SUBSET (Command \cup Message)]
        BY <2>3, <3>2, ReplaceByOneType, ReplaceByNoneType DEF ChangesNeeded
      <3>4. UNCHANGED timerVars
        BY <2>3 DEF ChangesNeeded
      <3>. QED BY <1>h, <2>d, <3>1, <3>3, <3>4, SlotStepTypeOK
    <2>. QED BY <1>n, <2>1, <2>2, <2>3 DEF HandleLabels
  <1>. QED BY <1>0, <1>n

\* Every handler keeps the types.
LEMMA HandleTypeOK ==
  ASSUME TypeOK, NEW c \in Clients, NEW m \in flight[c], HandleMessage(c, m)
  PROVE  TypeOK'
  BY StartTypeOK, PolledTypeOK, OpenPRsTypeOK, SlotHandlerTypeOK, LabelsTypeOK
  DEF HandleMessage

\* So does every timer that fires.
LEMMA TickTypeOK ==
  ASSUME TypeOK, NEW c \in Clients,
         \/ PollTick(c) \/ DropPollTick(c)
         \/ \E i \in Issues : \/ LabelTick(c, i) \/ PRTick(c, i)
                              \/ DropLabelTick(c, i) \/ DropPRTick(c, i)
  PROVE  TypeOK'
  <1> USE DEF loopVars, timerVars, clientVars, trackerVars, agentVars, lossVars
  <1>t. /\ pollTicks \in [Clients -> Nat] /\ labelTicks \in [Clients -> [Issues -> Nat]]
        /\ prTicks \in [Clients -> [Issues -> Nat]]
    BY DEF TypeOK
  <1>1. ASSUME PollTick(c) PROVE TypeOK'
    <2>1. Cmd("poll") \in Item
      BY ItemConstructors
    <2>2. flight' \in [Clients -> SUBSET (Command \cup Message)]
      BY <1>1, <2>1, AddType DEF PollTick, Request, TypeOK
    <2>3. pollTicks' \in [Clients -> Nat]
      BY <1>1, <1>t DEF PollTick
    <2>. QED BY <1>1, <2>2, <2>3 DEF PollTick, TickFrame, TypeOK
  <1>2. ASSUME DropPollTick(c) PROVE TypeOK'
    <2>1. pollTicks' \in [Clients -> Nat]
      BY <1>2, <1>t DEF DropPollTick
    <2>2. pollLost' \in BOOLEAN
      BY <1>2 DEF DropPollTick
    <2>. QED BY <1>2, <2>1, <2>2 DEF DropPollTick, DropFrame, TypeOK
  <1>3. ASSUME NEW i \in Issues, LabelTick(c, i) PROVE TypeOK'
    <2>1. IssueCmd("pollLabels", i) \in Item
      BY ItemConstructors
    <2>2. flight' \in [Clients -> SUBSET (Command \cup Message)]
      BY <1>3, <2>1, AddType DEF LabelTick, Request, TypeOK
    <2>3. labelTicks' \in [Clients -> [Issues -> Nat]]
      <3>1. CASE UNCHANGED labelTicks
        BY <1>t, <3>1
      <3>2. CASE labelTicks[c][i] > 0 /\ labelTicks' = [labelTicks EXCEPT ![c][i] = @ - 1]
        BY <1>t, <3>2
      <3>. QED BY <1>3, <3>1, <3>2 DEF LabelTick
    <2>. QED BY <1>3, <2>2, <2>3 DEF LabelTick, TickFrame, TypeOK
  <1>4. ASSUME NEW i \in Issues, PRTick(c, i) PROVE TypeOK'
    <2>1. PollPRCmd(i) \in Item
      BY SlotCmds
    <2>2. flight' \in [Clients -> SUBSET (Command \cup Message)]
      BY <1>4, <2>1, AddType DEF PRTick, Request, TypeOK
    <2>3. prTicks' \in [Clients -> [Issues -> Nat]]
      <3>1. CASE UNCHANGED prTicks
        BY <1>t, <3>1
      <3>2. CASE prTicks[c][i] > 0 /\ prTicks' = [prTicks EXCEPT ![c][i] = @ - 1]
        BY <1>t, <3>2
      <3>. QED BY <1>4, <3>1, <3>2 DEF PRTick
    <2>. QED BY <1>4, <2>2, <2>3 DEF PRTick, TickFrame, TypeOK
  <1>5. ASSUME NEW i \in Issues, DropLabelTick(c, i) PROVE TypeOK'
    <2>1. labelTicks' \in [Clients -> [Issues -> Nat]]
      BY <1>5, <1>t DEF DropLabelTick
    <2>. QED BY <1>5, <2>1 DEF DropLabelTick, DropFrame, TypeOK
  <1>6. ASSUME NEW i \in Issues, DropPRTick(c, i) PROVE TypeOK'
    <2>1. prTicks' \in [Clients -> [Issues -> Nat]]
      BY <1>6, <1>t DEF DropPRTick
    <2>. QED BY <1>6, <2>1 DEF DropPRTick, DropFrame, TypeOK
  <1>. QED BY <1>1, <1>2, <1>3, <1>4, <1>5, <1>6

\* So does what a closed gate swallows.
LEMMA DropTypeOK ==
  ASSUME TypeOK, NEW c \in Clients, NEW m \in flight[c], DropMessage(c, m)
  PROVE  TypeOK'
  <1>1. flight' \in [Clients -> SUBSET (Command \cup Message)]
    BY ReplaceByNoneType DEF DropMessage
  <1>2. dropped' \subseteq Issues
    <2>1. CASE m.op \in StepResult
      <3>1. m.issue \in Issues
        BY <2>1, InFlightItem, ItemFields DEF StepResult
      <3>. QED BY <3>1 DEF DropMessage, TypeOK
    <2>2. CASE m.op \notin StepResult
      BY <2>2 DEF DropMessage, TypeOK
    <2>. QED BY <2>1, <2>2
  <1>. QED BY <1>1, <1>2 DEF DropMessage, DropFrame, TypeOK, loopVars, timerVars,
              clientVars, trackerVars, agentVars

\* Relabelling an issue leaves sets of labels.
LEMMA RelabelledType ==
  ASSUME TypeOK, NEW i \in Issues, NEW old, NEW new \in Label, Relabelled(i, old, new)
  PROVE  labels' \in [Issues -> SUBSET Label]
  BY DEF TypeOK, Relabelled

\* So does every act of an agent.
LEMMA AgentTypeOK ==
  ASSUME TypeOK, NEW a \in agents, AgentActs(a)
  PROVE  TypeOK'
  <1> USE DEF loopVars, timerVars, clientVars, trackerVars, lossVars
  <1>a. a \in Agent /\ a.issue \in Issues /\ agents \subseteq Agent
    BY DEF TypeOK, Agent
  <1>b. [a EXCEPT !.began = TRUE] \in Agent
    BY <1>a DEF Agent
  <1>l. {"wip", "review", "ai-review", "needs-changes"} \subseteq Label
    BY DEF Label
  <1>1. CASE CoderBegins(a)
    <2>1. labels' \in [Issues -> SUBSET Label]
      BY <1>1, <1>a, <1>l, RelabelledType DEF CoderBegins
    <2>2. agents' \subseteq Agent
      BY <1>1, <1>a, <1>b DEF CoderBegins
    <2>. QED BY <1>1, <2>1, <2>2 DEF CoderBegins, AgentFrame, TypeOK
  <1>2. CASE CoderOpensPR(a)
    <2>1. prs' \in [Issues -> PRState]
      BY <1>2, <1>a DEF CoderOpensPR, TypeOK, PRState
    <2>. QED BY <1>2, <2>1 DEF CoderOpensPR, AgentFrame, TypeOK
  <1>3. CASE CoderFinishes(a)
    <2>1. labels' \in [Issues -> SUBSET Label]
      BY <1>3, <1>a, <1>l, RelabelledType DEF CoderFinishes
    <2>. QED BY <1>3, <2>1 DEF CoderFinishes, AgentFrame, TypeOK
  <1>4. CASE ReviewerPasses(a)
    <2>1. labels' \in [Issues -> SUBSET Label]
      BY <1>4, <1>a, <1>l, RelabelledType DEF ReviewerPasses
    <2>. QED BY <1>4, <2>1 DEF ReviewerPasses, AgentFrame, TypeOK
  <1>5. CASE ReviewerRejects(a)
    <2>1. labels' \in [Issues -> SUBSET Label]
      BY <1>5, <1>a, <1>l, RelabelledType DEF ReviewerRejects
    <2>2. rejected' \in [Issues -> Nat]
      BY <1>5, <1>a DEF ReviewerRejects, TypeOK
    <2>. QED BY <1>5, <2>1, <2>2 DEF ReviewerRejects, AgentFrame, TypeOK
  <1>6. CASE AgentDies(a)
    BY <1>6 DEF AgentDies, AgentFrame, TypeOK
  <1>. QED BY <1>1, <1>2, <1>3, <1>4, <1>5, <1>6 DEF AgentActs

\* So does every act of a person.
LEMMA HumanTypeOK ==
  ASSUME TypeOK, NEW i \in Issues, HumanActs(i)
  PROVE  TypeOK'
  <1> USE DEF loopVars, timerVars, clientVars, lossVars
  <1>1. labels' \in [Issues -> SUBSET Label]
    BY DEF HumanActs, HumanConfirms, HumanMerges, HumanClosesPR, TypeOK, Label
  <1>2. prs' \in [Issues -> PRState]
    BY DEF HumanActs, HumanConfirms, HumanMerges, HumanClosesPR, TypeOK, PRState
  <1>. QED BY <1>1, <1>2 DEF HumanActs, HumanConfirms, HumanMerges, HumanClosesPR,
              AgentFrame, TypeOK

\* Every step keeps the types, ...
LEMMA TypeStep ==
  ASSUME TypeOK, [Next]_vars
  PROVE  TypeOK'
  <1>1. CASE UNCHANGED vars
    BY <1>1, StutterTypeOK
  <1>2. CASE Next
    BY <1>2, UserTypeOK, CommandTypeOK, HandleTypeOK, DropTypeOK, TickTypeOK,
       RestartTypeOK, AgentTypeOK, HumanTypeOK DEF Next
  <1>. QED BY <1>1, <1>2

\* ... so that the variables keep their types, whatever the instance.
THEOREM TypeCorrect == Spec => []TypeOK
  <1>1. TypeOK /\ [Next]_vars => TypeOK'
    BY TypeStep
  <1>. QED BY <1>1, InitTypeOK, PTL DEF Spec

-----------------------------------------------------------------------------
(***************************************************************************)
(* HeartbeatPreserved for every instance.  TypeOK /\ HeartbeatPreserved is *)
(* inductive: a step either leaves a slot with what will move it on, or    *)
(* moves the slot and puts in place what moves it on next, or records why  *)
(* neither is so in dropped, resumed or pollLost.                          *)
(***************************************************************************)

\* The ops of a command, and of the message it ends with, that a slot waits for.
StepClass == {{"create", "created"}, {"write", "written"}, {"launch", "launched"},
              {"merge", "merged"}, {"cleanup", "close", "cleaned"}}

\* The two halves of HeartbeatPreserved.
PollBeats == pollLost \/ \E c \in Clients : pollTicks[c] > 0
SlotBeats(i) == i \notin dropped \cup resumed /\ HasSlot(i) => Continues(i)

\* The property as the todo poll and the slots, one by one.
LEMMA Halves == HeartbeatPreserved <=> (active => PollBeats /\ \A i \in Issues : SlotBeats(i))
  BY DEF HeartbeatPreserved, PollBeats, SlotBeats

-----------------------------------------------------------------------------
(* What taking an item out of flight does to Pending. *)

\* An item that is added is pending.
LEMMA AddedPending ==
  ASSUME TypeOK, NEW c \in Clients, NEW m, NEW new, Replace(c, m, new),
         NEW K, NEW i, NEW x \in new, x.op \in K, x.issue = i
  PROVE  Pending(K, i)'
  <1>1. x \in flight'[c]
    BY DEF TypeOK, Replace
  <1>. QED BY <1>1 DEF Pending

\* Replacing an item by one of its class and issue keeps the class pending.
LEMMA ReplacePending ==
  ASSUME TypeOK, NEW c \in Clients, NEW m \in flight[c], NEW new, Replace(c, m, new),
         NEW K, NEW i, Pending(K, i),
         m.op \in K /\ m.issue = i => \E x \in new : x.op \in K /\ x.issue = i
  PROVE  Pending(K, i)'
  <1>1. CASE m.op \in K /\ m.issue = i
    BY <1>1, AddedPending
  <1>2. CASE ~(m.op \in K /\ m.issue = i)
    <2>0. PICK d \in Clients : \E o \in flight[d] : o.op \in K /\ o.issue = i
      BY DEF Pending
    <2>1. PICK o \in flight[d] : o.op \in K /\ o.issue = i
      BY <2>0
    <2>2. o \in flight'[d]
      BY <1>2, <2>1 DEF TypeOK, Replace
    <2>. QED BY <2>1, <2>2 DEF Pending
  <1>. QED BY <1>1, <1>2

\* Adding an item keeps everything pending.
LEMMA AddPending ==
  ASSUME TypeOK, NEW c \in Clients, NEW cmd,
         flight' = [flight EXCEPT ![c] = @ \cup {cmd}],
         NEW K, NEW i, Pending(K, i)
  PROVE  Pending(K, i)'
  <1>0. PICK d \in Clients : \E o \in flight[d] : o.op \in K /\ o.issue = i
    BY DEF Pending
  <1>1. PICK o \in flight[d] : o.op \in K /\ o.issue = i
    BY <1>0
  <1>2. o \in flight'[d]
    BY DEF TypeOK
  <1>. QED BY <1>1, <1>2 DEF Pending

\* So does a step that leaves flight alone.
LEMMA SamePending ==
  ASSUME UNCHANGED flight, NEW K, NEW i, Pending(K, i) PROVE Pending(K, i)'
  BY DEF Pending

-----------------------------------------------------------------------------
(* What keeps a slot's continuation. *)

\* A slot that does not move keeps its continuation with its class and timers.
LEMMA ContinuesKept ==
  ASSUME NEW i \in Issues, slots'[i] = slots[i], Continues(i),
         \A K \in StepClass : Pending(K, i) => Pending(K, i)',
         (\E c \in Clients : labelTicks[c][i] > 0) => (\E c \in Clients : labelTicks'[c][i] > 0),
         (\E c \in Clients : prTicks[c][i] > 0) => (\E c \in Clients : prTicks'[c][i] > 0)
  PROVE  Continues(i)'
  BY DEF Continues, StepClass

\* A step that leaves the slots and the timers alone.
LEMMA QuietBeats ==
  ASSUME HeartbeatPreserved, UNCHANGED <<loopVars, timerVars, lossVars>>,
         \A K \in StepClass, i \in Issues : Pending(K, i) => Pending(K, i)'
  PROVE  HeartbeatPreserved'
  <1> USE DEF loopVars, timerVars, lossVars
  <1>1. PollBeats => PollBeats'
    BY DEF PollBeats
  <1>2. ASSUME NEW i \in Issues, SlotBeats(i) PROVE SlotBeats(i)'
    BY <1>2, ContinuesKept DEF SlotBeats, HasSlot
  <1>. QED BY <1>1, <1>2, Halves DEF HeartbeatPreserved, PollBeats, SlotBeats

-----------------------------------------------------------------------------
(* The commands: each step of one hands on to an item of the same class.   *)

\* A command may end when its answer is of the same class and issue.
LEMMA HandsOn ==
  ASSUME TypeOK, HeartbeatPreserved, UNCHANGED <<loopVars, timerVars, lossVars>>,
         NEW c \in Clients, NEW m \in flight[c], NEW new, Replace(c, m, new),
         \A K \in StepClass : m.op \in K => \E x \in new : x.op \in K /\ x.issue = m.issue
  PROVE  HeartbeatPreserved'
  <1>1. ASSUME NEW K \in StepClass, NEW i \in Issues, Pending(K, i) PROVE Pending(K, i)'
    BY <1>1, ReplacePending
  <1>. QED BY <1>1, QuietBeats

\* The same for a single answer.
LEMMA HandsOnOne ==
  ASSUME TypeOK, HeartbeatPreserved, UNCHANGED <<loopVars, timerVars, lossVars>>,
         NEW c \in Clients, NEW m \in flight[c], NEW x, Replace(c, m, {x}),
         x.issue = m.issue, \A K \in StepClass : m.op \in K => x.op \in K
  PROVE  HeartbeatPreserved'
  BY HandsOn

\* A command on no slot's way: its answer, or its silence, touches no class.
LEMMA AsideBeats ==
  ASSUME TypeOK, HeartbeatPreserved, UNCHANGED <<loopVars, timerVars, lossVars>>,
         NEW c \in Clients, NEW m \in flight[c], NEW new, Replace(c, m, new),
         \A K \in StepClass : m.op \notin K
  PROVE  HeartbeatPreserved'
  BY HandsOn

\* Every command keeps the property.
LEMMA CommandBeats ==
  ASSUME TypeOK, HeartbeatPreserved, NEW c \in Clients, NEW m \in flight[c],
         RunCommand(c, m)
  PROVE  HeartbeatPreserved'
  <1>u. UNCHANGED <<loopVars, timerVars, lossVars>>
    BY DEF RunCommand, CheckLabels, EnsureLabels, PollTodo, ScanOpenPRs, CleanupMerged,
       CreateWorktree, WriteAgent, LaunchAgent, PollLabels, PollPR, LookUpPR, TryMerge,
       RemoveWorktree, CloseIssue, Answers
  <1>1. CASE m.op \in {"labelCheck", "ensureLabels", "poll", "scanPRs", "cleanupMerged",
                       "pollLabels", "pollPR"}
    <2>1. \A K \in StepClass : m.op \notin K
      BY <1>1 DEF StepClass
    <2>2. PICK new : Replace(c, m, new)
      BY <1>1 DEF RunCommand, CheckLabels, EnsureLabels, PollTodo, ScanOpenPRs, CleanupMerged,
         CreateWorktree, WriteAgent, LaunchAgent, PollLabels, PollPR, LookUpPR, TryMerge,
         RemoveWorktree, CloseIssue, Answers, Running
    <2>. QED BY <1>u, <2>1, <2>2, AsideBeats
  <1>2. CASE CreateWorktree(c, m)
    <2>0. PICK ok \in BOOLEAN : Replace(c, m, {[op |-> "created", issue |-> m.issue, ok |-> ok]})
      BY <1>2 DEF CreateWorktree
    <2> DEFINE x == [op |-> "created", issue |-> m.issue, ok |-> ok]
    <2>1. Replace(c, m, {x}) /\ x.issue = m.issue /\ x.op = "created"
      BY <2>0
    <2> HIDE DEF x
    <2>2. \A K \in StepClass : m.op \in K => x.op \in K
      BY <1>2, <2>1 DEF StepClass, CreateWorktree, Running
    <2>. QED BY <1>u, <2>1, <2>2, HandsOnOne
  <1>3. CASE WriteAgent(c, m)
    <2>0. PICK ok \in BOOLEAN : Replace(c, m, {[op |-> "written", issue |-> m.issue, ok |-> ok]})
      BY <1>3 DEF WriteAgent, Answers
    <2> DEFINE x == [op |-> "written", issue |-> m.issue, ok |-> ok]
    <2>1. Replace(c, m, {x}) /\ x.issue = m.issue /\ x.op = "written"
      BY <2>0
    <2> HIDE DEF x
    <2>2. \A K \in StepClass : m.op \in K => x.op \in K
      BY <1>3, <2>1 DEF StepClass, WriteAgent, Running
    <2>. QED BY <1>u, <2>1, <2>2, HandsOnOne
  <1>4. CASE LaunchAgent(c, m)
    <2>0. PICK ok \in BOOLEAN : Replace(c, m, {[op |-> "launched", issue |-> m.issue, role |-> m.role, ok |-> ok]})
      BY <1>4 DEF LaunchAgent
    <2> DEFINE x == [op |-> "launched", issue |-> m.issue, role |-> m.role, ok |-> ok]
    <2>1. Replace(c, m, {x}) /\ x.issue = m.issue /\ x.op = "launched"
      BY <2>0
    <2> HIDE DEF x
    <2>2. \A K \in StepClass : m.op \in K => x.op \in K
      BY <1>4, <2>1 DEF StepClass, LaunchAgent, Running
    <2>. QED BY <1>u, <2>1, <2>2, HandsOnOne
  <1>5. CASE LookUpPR(c, m) \/ TryMerge(c, m)
    <2>1. PICK x : /\ Replace(c, m, {x})
                   /\ x.issue = m.issue /\ x.op \in {"merge", "merged"}
      <3>m. m.op = "merge" /\ m \in Item
        BY <1>5, InFlightItem DEF LookUpPR, TryMerge, Running
      <3>0. \A k \in 0..3 : /\ [m EXCEPT !.attempt = k].issue = m.issue
                            /\ [m EXCEPT !.attempt = k].op = "merge"
        BY <3>m DEF Item, Command, Message
      <3>1. ASSUME NEW kind, Replace(c, m, {[op |-> "merged", issue |-> m.issue, kind |-> kind]})
            PROVE  \E x : /\ Replace(c, m, {x})
                          /\ x.issue = m.issue /\ x.op \in {"merge", "merged"}
        <4> DEFINE y == [op |-> "merged", issue |-> m.issue, kind |-> kind]
        <4>1. Replace(c, m, {y}) /\ y.issue = m.issue /\ y.op = "merged"
          BY <3>1
        <4> HIDE DEF y
        <4>. QED BY <4>1
      <3>2. ASSUME NEW k \in 0..3, Replace(c, m, {[m EXCEPT !.attempt = k]})
            PROVE  \E x : /\ Replace(c, m, {x})
                          /\ x.issue = m.issue /\ x.op \in {"merge", "merged"}
        BY <3>0, <3>2
      <3>3. ASSUME NEW kind, Replace(c, m, {AfterFailure(m, kind)})
            PROVE  \E x : /\ Replace(c, m, {x})
                          /\ x.issue = m.issue /\ x.op \in {"merge", "merged"}
        <4>1. AfterFailure(m, kind).issue = m.issue /\ AfterFailure(m, kind).op \in {"merge", "merged"}
          BY <3>m DEF AfterFailure, Item, Command, Message
        <4>. QED BY <3>3, <4>1
      <3>4. CASE LookUpPR(c, m)
        <4>1. 1 \in 0..3
          OBVIOUS
        <4>. QED BY <3>1, <3>2, <3>4, <4>1 DEF LookUpPR
      <3>5. CASE TryMerge(c, m)
        BY <3>1, <3>3, <3>5 DEF TryMerge
      <3>. QED BY <1>5, <3>4, <3>5
    <2>2. \A K \in StepClass : m.op \in K => x.op \in K
      BY <1>5, <2>1 DEF StepClass, LookUpPR, TryMerge, Running
    <2>. QED BY <1>u, <2>1, <2>2, HandsOnOne
  <1>6. CASE RemoveWorktree(c, m)
    <2> DEFINE x == [op |-> "close", issue |-> m.issue]
    <2>1. Replace(c, m, {x}) /\ x.issue = m.issue /\ x.op = "close"
      BY <1>6 DEF RemoveWorktree, IssueCmd
    <2> HIDE DEF x
    <2>2. \A K \in StepClass : m.op \in K => x.op \in K
      BY <1>6, <2>1 DEF StepClass, RemoveWorktree, Running
    <2>. QED BY <1>u, <2>1, <2>2, HandsOnOne
  <1>7. CASE CloseIssue(c, m)
    <2> DEFINE x == [op |-> "cleaned", issue |-> m.issue]
    <2>1. Replace(c, m, {x}) /\ x.issue = m.issue /\ x.op = "cleaned"
      BY <1>7 DEF CloseIssue
    <2> HIDE DEF x
    <2>2. \A K \in StepClass : m.op \in K => x.op \in K
      BY <1>7, <2>1 DEF StepClass, CloseIssue, Running
    <2>. QED BY <1>u, <2>1, <2>2, HandsOnOne
  <1>. QED BY <1>1, <1>2, <1>3, <1>4, <1>5, <1>6, <1>7 DEF RunCommand, CheckLabels,
              EnsureLabels, PollTodo, ScanOpenPRs, CleanupMerged, PollLabels, PollPR, Running

-----------------------------------------------------------------------------
(* The user, the agents and the people.                                     *)

\* So do the user's keys and dialogs.
LEMMA UserBeats ==
  ASSUME TypeOK, HeartbeatPreserved, NEW c \in Clients, UserActs(c)
  PROVE  HeartbeatPreserved'
  <1>1. CASE StopLoop(c)
    BY <1>1 DEF StopLoop, HeartbeatPreserved
  <1>2. CASE PressStart(c)
    BY <1>2 DEF PressStart, HeartbeatPreserved, loopVars
  <1>3. CASE ConfirmLabels(c)
    <2>1. ASSUME NEW K \in StepClass, NEW i \in Issues, Pending(K, i) PROVE Pending(K, i)'
      BY <1>3, <2>1, AddPending, SamePending DEF ConfirmLabels
    <2>. QED BY <1>3, <2>1, QuietBeats DEF ConfirmLabels
  <1>4. CASE ShowOverlay(c) \/ DismissOverlay(c) \/ RemoteQuit(c)
    <2>1. ASSUME NEW K \in StepClass, NEW i \in Issues, Pending(K, i) PROVE Pending(K, i)'
      BY <1>4, <2>1, SamePending DEF ShowOverlay, DismissOverlay, RemoteQuit
    <2>. QED BY <1>4, <2>1, QuietBeats DEF ShowOverlay, DismissOverlay, RemoteQuit
  <1>. QED BY <1>1, <1>2, <1>3, <1>4 DEF UserActs

\* So do the restart, the agents and the people.
LEMMA WorldBeats ==
  ASSUME TypeOK, HeartbeatPreserved,
         \/ \E a \in agents : AgentActs(a)
         \/ \E i \in Issues : HumanActs(i)
  PROVE  HeartbeatPreserved'
  <1>1. AgentFrame
    BY DEF AgentActs, CoderBegins, CoderOpensPR, CoderFinishes, ReviewerPasses,
       ReviewerRejects, AgentDies, HumanActs, HumanConfirms, HumanMerges, HumanClosesPR
  <1>2. ASSUME NEW K \in StepClass, NEW i \in Issues, Pending(K, i) PROVE Pending(K, i)'
    BY <1>1, <1>2, SamePending DEF AgentFrame
  <1>. QED BY <1>1, <1>2, QuietBeats DEF AgentFrame

-----------------------------------------------------------------------------
(* The handlers: a set S of slots is moved, and each of them beats again.   *)

LabelsTick(i) == \E c \in Clients : labelTicks[c][i] > 0
PRsTick(i)    == \E c \in Clients : prTicks[c][i] > 0

\* What a handler has to show: a continuation for the slots in S, and no change to others.
LEMMA HandlerBeats ==
  ASSUME TypeOK, HeartbeatPreserved, UNCHANGED <<active, pollLost, pollTicks>>,
         NEW c \in Clients, NEW m \in flight[c], NEW new, Replace(c, m, new),
         NEW S \in SUBSET Issues,
         \A K \in StepClass : m.op \in K => m.issue \in S,
         \A j \in Issues : /\ LabelsTick(j) => LabelsTick(j)'
                           /\ PRsTick(j) => PRsTick(j)',
         \A j \in Issues \ S : /\ slots'[j] = slots[j]
                               /\ j \in dropped \cup resumed => j \in dropped' \cup resumed',
         active => \A j \in S : SlotBeats(j)'
  PROVE  HeartbeatPreserved'
  <1> SUFFICES ASSUME active PROVE HeartbeatPreserved'
    BY DEF HeartbeatPreserved
  <1>1. PollBeats'
    BY Halves DEF PollBeats
  <1>2. ASSUME NEW j \in Issues \ S PROVE SlotBeats(j)'
    <2> SUFFICES ASSUME j \notin dropped' \cup resumed', HasSlot(j)' PROVE Continues(j)'
      BY DEF SlotBeats
    <2>0. j \in Issues /\ slots'[j] = slots[j] /\ j \notin dropped \cup resumed
      OBVIOUS
    <2>1. Continues(j)
      <3>1. HasSlot(j)
        BY <2>0 DEF HasSlot
      <3>. QED BY <2>0, <3>1, Halves DEF SlotBeats
    <2>2. ASSUME NEW K \in StepClass, Pending(K, j) PROVE Pending(K, j)'
      BY <2>2, ReplacePending
    <2>3. /\ (\E d \in Clients : labelTicks[d][j] > 0) => (\E d \in Clients : labelTicks'[d][j] > 0)
          /\ (\E d \in Clients : prTicks[d][j] > 0) => (\E d \in Clients : prTicks'[d][j] > 0)
      BY <2>0 DEF LabelsTick, PRsTick
    <2>. QED BY <2>0, <2>1, <2>2, <2>3, ContinuesKept
  <1>. QED BY <1>1, <1>2 DEF HeartbeatPreserved, PollBeats, SlotBeats

\* Unchanged timers still tick.
LEMMA TicksKept ==
  ASSUME UNCHANGED <<labelTicks, prTicks>>
  PROVE  \A j \in Issues : /\ LabelsTick(j) => LabelsTick(j)'
                           /\ PRsTick(j) => PRsTick(j)'
  BY DEF LabelsTick, PRsTick

\* A label timer that is set ticks.
LEMMA LabelScheduled ==
  ASSUME TypeOK, NEW c \in Clients, NEW i \in Issues, ScheduleLabel(c, i)
  PROVE  LabelsTick(i)' /\ \A j \in Issues : LabelsTick(j) => LabelsTick(j)'
  <1>t. labelTicks \in [Clients -> [Issues -> Nat]]
    BY DEF TypeOK
  <1>1. labelTicks'[c][i] > 0
    BY <1>t DEF ScheduleLabel
  <1>2. \A d \in Clients, j \in Issues : labelTicks'[d][j] >= labelTicks[d][j]
    BY <1>t DEF ScheduleLabel
  <1>3. \A d \in Clients, j \in Issues : labelTicks[d][j] \in Nat
    BY <1>t
  <1>4. ASSUME NEW j \in Issues, NEW d \in Clients, labelTicks[d][j] > 0 PROVE labelTicks'[d][j] > 0
    <2>1. labelTicks' \in [Clients -> [Issues -> Nat]]
      BY TimerTypes
    <2>. QED BY <1>2, <1>3, <1>4, <2>1
  <1>. QED BY <1>1, <1>4 DEF LabelsTick

\* A PR timer that is set ticks.
LEMMA PRScheduled ==
  ASSUME TypeOK, NEW c \in Clients, NEW i \in Issues, SchedulePR(c, i)
  PROVE  PRsTick(i)' /\ \A j \in Issues : PRsTick(j) => PRsTick(j)'
  <1>t. prTicks \in [Clients -> [Issues -> Nat]]
    BY DEF TypeOK
  <1>1. prTicks'[c][i] > 0
    BY <1>t DEF SchedulePR
  <1>2. \A d \in Clients, j \in Issues : prTicks'[d][j] >= prTicks[d][j]
    BY <1>t DEF SchedulePR
  <1>3. \A d \in Clients, j \in Issues : prTicks[d][j] \in Nat
    BY <1>t
  <1>4. ASSUME NEW j \in Issues, NEW d \in Clients, prTicks[d][j] > 0 PROVE prTicks'[d][j] > 0
    <2>1. prTicks' \in [Clients -> [Issues -> Nat]]
      BY TimerTypes
    <2>. QED BY <1>2, <1>3, <1>4, <2>1
  <1>. QED BY <1>1, <1>4 DEF PRsTick

\* A handler that moves the slot of its message's issue, and sets no poll timer.
LEMMA OneSlotBeats ==
  ASSUME TypeOK, HeartbeatPreserved, HandlerFrame, UNCHANGED pollTicks,
         NEW c \in Clients, NEW m \in flight[c], m.issue \in Issues,
         NEW new, Replace(c, m, new),
         \A j \in Issues \ {m.issue} :
            /\ slots'[j] = slots[j]
            /\ j \in dropped \cup resumed => j \in dropped' \cup resumed',
         \A j \in Issues : /\ LabelsTick(j) => LabelsTick(j)'
                           /\ PRsTick(j) => PRsTick(j)',
         SlotBeats(m.issue)'
  PROVE  HeartbeatPreserved'
  <1>1. {m.issue} \in SUBSET Issues
    OBVIOUS
  <1>2. UNCHANGED <<active, pollLost, pollTicks>>
    BY DEF HandlerFrame
  <1>3. \A K \in StepClass : m.op \in K => m.issue \in {m.issue}
    OBVIOUS
  <1>4. active => \A j \in {m.issue} : SlotBeats(j)'
    OBVIOUS
  <1>. QED BY <1>1, <1>2, <1>3, <1>4, HandlerBeats

\* An early return on a message no class knows.
LEMMA IgnoredBeats ==
  ASSUME TypeOK, HeartbeatPreserved, HandlerFrame, NEW c \in Clients, NEW m \in flight[c],
         Ignored(c, m), \A K \in StepClass : m.op \notin K
  PROVE  HeartbeatPreserved'
  BY AsideBeats DEF Ignored, HandlerFrame, loopVars, lossVars

\* The answers to the label check keep the property.
LEMMA StartBeats ==
  ASSUME TypeOK, HeartbeatPreserved, NEW c \in Clients, NEW m \in flight[c],
         HandleLabelCheck(c, m) \/ HandleLabelsEnsured(c, m)
  PROVE  HeartbeatPreserved'
  <1>1. \A K \in StepClass : m.op \notin K
    BY DEF HandleLabelCheck, HandleLabelsEnsured, Delivered, StepClass
  <1>2. CASE ExecutePendingOp(c, m) /\ pendingOp[c]
    <2>1. pollTicks \in [Clients -> Nat]
      BY DEF TypeOK
    <2>2. pollTicks' = [pollTicks EXCEPT ![c] = @ + 1]
      BY <1>2 DEF ExecutePendingOp, SchedulePoll
    <2>3. pollTicks'[c] > 0
      BY <2>1, <2>2
    <2>4. \A i \in Issues : ~HasSlot(i)'
      BY <1>2 DEF ExecutePendingOp, HasSlot, NoSlot
    <2>. QED BY <2>3, <2>4 DEF HeartbeatPreserved
  <1>3. CASE ~(ExecutePendingOp(c, m) /\ pendingOp[c])
    <2>1. Replace(c, m, {}) /\ UNCHANGED <<loopVars, timerVars, lossVars>>
      BY <1>3 DEF HandleLabelCheck, HandleLabelsEnsured, ExecutePendingOp, timerVars
    <2>. QED BY <1>1, <2>1, AsideBeats
  <1>. QED BY <1>2, <1>3

\* So does the answer of the todo poll.
LEMMA PolledBeats ==
  ASSUME TypeOK, HeartbeatPreserved, NEW c \in Clients, NEW m \in flight[c],
         HandlePolled(c, m)
  PROVE  HeartbeatPreserved'
  <1>0. HandlerFrame /\ (\A K \in StepClass : m.op \notin K)
    BY DEF HandlePolled, Delivered, StepClass
  <1>1. CASE Ignored(c, m)
    BY <1>0, <1>1, IgnoredBeats
  <1>2. CASE ~Ignored(c, m)
    <2>w. PICK listed \in BOOLEAN : TakeTodo(c, m, listed)
      BY <1>2 DEF HandlePolled
    <2> DEFINE new      == Admitted(m.todo)
               leftover == {i \in new : listed /\ MatchingWorktrees(i) # {}}
               fresh    == new \ leftover
               made     == {[op |-> "create", issue |-> i,
                             after |-> {j \in fresh : j > i}] : i \in fresh}
    <2>1. m.todo \subseteq Issues
      BY InFlightItem, ItemFields DEF HandlePolled, Delivered
    <2>2. new \in SUBSET Issues
      BY <2>1 DEF Admitted
    <2>3. PICK found \in [leftover -> wts] :
            slots' = [i \in Issues |-> IF i \in leftover THEN ResumedSlot(found[i])
                                       ELSE IF i \in fresh THEN FreshSlot
                                       ELSE slots[i]]
      BY <2>w DEF TakeTodo
    <2>4. /\ prTicks' = [prTicks EXCEPT ![c] = [i \in Issues |-> IF i \in leftover THEN @[i] + 1
                                                                              ELSE @[i]]]
          /\ Replace(c, m, made)
          /\ resumed' = (resumed \ new) \cup leftover
          /\ dropped' = dropped \ new
          /\ UNCHANGED <<pollTicks, labelTicks>>
      BY <2>w DEF TakeTodo
    <2>5. ASSUME NEW i \in new PROVE SlotBeats(i)'
      <3>1. CASE i \in leftover
        BY <2>4, <3>1 DEF SlotBeats
      <3>2. CASE i \in fresh
        <4> DEFINE x == [op |-> "create", issue |-> i, after |-> {j \in fresh : j > i}]
        <4>1. x \in made /\ x.op = "create" /\ x.issue = i
          BY <3>2
        <4> HIDE DEF made, x
        <4>2. Pending({"create", "created"}, i)'
          BY <2>4, <4>1, AddedPending
        <4>3. slots'[i].state = "CreatingWorktree"
          BY <2>2, <2>3, <3>2 DEF FreshSlot, NoSlot
        <4>. QED BY <4>2, <4>3 DEF SlotBeats, Continues
      <3>. QED BY <3>1, <3>2
    <2>6. ASSUME NEW i \in Issues \ new
          PROVE  /\ slots'[i] = slots[i]
                 /\ i \in dropped \cup resumed => i \in dropped' \cup resumed'
      BY <2>3, <2>4
    <2>7. ASSUME NEW i \in Issues
          PROVE  (LabelsTick(i) => LabelsTick(i)') /\ (PRsTick(i) => PRsTick(i)')
      <3>1. \A d \in Clients : prTicks'[d][i] = prTicks[d][i] \/ prTicks'[d][i] = prTicks[d][i] + 1
        <4> HIDE DEF leftover
        <4>. QED BY <2>4 DEF TypeOK
      <3>2. \A d \in Clients : prTicks[d][i] \in Nat
        BY DEF TypeOK
      <3>3. \A d \in Clients : prTicks[d][i] > 0 => prTicks'[d][i] > 0
        BY <3>1, <3>2
      <3>. QED BY <2>4, <3>3 DEF LabelsTick, PRsTick
    <2> HIDE DEF new, leftover, fresh, made
    <2>8. UNCHANGED <<active, pollLost, pollTicks>>
      BY <1>0, <2>4 DEF HandlerFrame
    <2>. QED BY <1>0, <2>2, <2>4, <2>5, <2>6, <2>7, <2>8, HandlerBeats
  <1>. QED BY <1>1, <1>2

\* So does the answer of the open-PR scan.
LEMMA OpenPRsBeats ==
  ASSUME TypeOK, HeartbeatPreserved, NEW c \in Clients, NEW m \in flight[c],
         HandleOpenPRs(c, m)
  PROVE  HeartbeatPreserved'
  <1>0. HandlerFrame /\ (\A K \in StepClass : m.op \notin K)
    BY DEF HandleOpenPRs, Delivered, StepClass
  <1>1. CASE Ignored(c, m)
    BY <1>0, <1>1, IgnoredBeats
  <1>2. CASE ~Ignored(c, m)
    <2>w. PICK listed \in BOOLEAN : TakeOpenPRs(c, m, listed)
      BY <1>2 DEF HandleOpenPRs
    <2> DEFINE new == {i \in m.prs : ~HasSlot(i)}
               taken(s) == {i \in new : ResumeState(m.labels[i]) = s}
               writes == {IssueCmd("write", i) : i \in taken("WritingAgent")}
               launches == {[op |-> "launch", issue |-> i, role |-> "reviewer",
                             dir |-> PRSlot(i, m.labels[i], listed).wt] : i \in taken("LaunchingReviewer")}
    <2>1. m.prs \subseteq Issues
      BY InFlightItem, ItemFields DEF HandleOpenPRs, Delivered
    <2>2. new \in SUBSET Issues
      BY <2>1
    <2>3. /\ slots' = [i \in Issues |-> IF i \in new THEN PRSlot(i, m.labels[i], listed)
                                              ELSE slots[i]]
          /\ Replace(c, m, writes \cup launches)
          /\ labelTicks' = [labelTicks EXCEPT ![c] =
                 [i \in Issues |-> IF i \in taken("Coding") THEN @[i] + 1 ELSE @[i]]]
          /\ prTicks' = [prTicks EXCEPT ![c] =
                 [i \in Issues |-> IF i \in taken("WaitingPRMerge") THEN @[i] + 1 ELSE @[i]]]
          /\ dropped' = dropped \ new
          /\ resumed' = resumed \ new
          /\ UNCHANGED pollTicks
      BY <2>w DEF TakeOpenPRs
    <2>4. ASSUME NEW i \in Issues, NEW d \in Clients
          PROVE  /\ labelTicks'[d][i] = labelTicks[d][i] +
                        (IF d = c /\ i \in taken("Coding") THEN 1 ELSE 0)
                 /\ prTicks'[d][i] = prTicks[d][i] +
                        (IF d = c /\ i \in taken("WaitingPRMerge") THEN 1 ELSE 0)
                 /\ labelTicks[d][i] \in Nat /\ prTicks[d][i] \in Nat
      <3>1. labelTicks \in [Clients -> [Issues -> Nat]] /\ prTicks \in [Clients -> [Issues -> Nat]]
        BY DEF TypeOK
      <3> HIDE DEF new, taken
      <3>2. labelTicks[d][i] \in Nat /\ prTicks[d][i] \in Nat
        BY <3>1
      <3>3. labelTicks'[d][i] = labelTicks[d][i] + (IF d = c /\ i \in taken("Coding") THEN 1 ELSE 0)
        BY <2>3, <3>1, <3>2
      <3>4. prTicks'[d][i] = prTicks[d][i] + (IF d = c /\ i \in taken("WaitingPRMerge") THEN 1 ELSE 0)
        BY <2>3, <3>1, <3>2
      <3>. QED BY <3>2, <3>3, <3>4
    <2>5. ASSUME NEW i \in new PROVE SlotBeats(i)'
      <3> DEFINE st == ResumeState(m.labels[i])
      <3>0. slots'[i].state = st /\ i \in Issues
        BY <2>2, <2>3 DEF PRSlot
      <3>1. CASE st = "WritingAgent"
        <4>1. IssueCmd("write", i) \in writes \cup launches
          BY <3>1
        <4> HIDE DEF writes, launches
        <4>2. Pending({"write", "written"}, i)'
          BY <2>3, <4>1, AddedPending DEF IssueCmd
        <4>. QED BY <3>0, <3>1, <4>2 DEF SlotBeats, Continues
      <3>2. CASE st = "LaunchingReviewer"
        <4> DEFINE x == [op |-> "launch", issue |-> i, role |-> "reviewer",
                         dir |-> PRSlot(i, m.labels[i], listed).wt]
        <4>1. x \in writes \cup launches /\ x.op = "launch" /\ x.issue = i
          BY <3>2
        <4> HIDE DEF writes, launches, x
        <4>2. Pending({"launch", "launched"}, i)'
          BY <2>3, <4>1, AddedPending
        <4>. QED BY <3>0, <3>2, <4>2 DEF SlotBeats, Continues
      <3>3. CASE st = "Coding"
        <4>1. labelTicks'[c][i] > 0
          BY <2>4, <3>0, <3>3
        <4>. QED BY <3>0, <3>3, <4>1 DEF SlotBeats, Continues
      <3>4. CASE st = "WaitingPRMerge"
        <4>1. prTicks'[c][i] > 0
          BY <2>4, <3>0, <3>4
        <4>. QED BY <3>0, <3>4, <4>1 DEF SlotBeats, Continues
      <3>. QED BY <3>1, <3>2, <3>3, <3>4 DEF ResumeState
    <2>6. ASSUME NEW i \in Issues \ new
          PROVE  /\ slots'[i] = slots[i]
                 /\ i \in dropped \cup resumed => i \in dropped' \cup resumed'
      BY <2>3
    <2>7. ASSUME NEW i \in Issues
          PROVE  (LabelsTick(i) => LabelsTick(i)') /\ (PRsTick(i) => PRsTick(i)')
      <3> HIDE DEF taken
      <3>1. ASSUME NEW d \in Clients
            PROVE  /\ labelTicks[d][i] > 0 => labelTicks'[d][i] > 0
                   /\ prTicks[d][i] > 0 => prTicks'[d][i] > 0
        BY <2>4
      <3>. QED BY <3>1 DEF LabelsTick, PRsTick
    <2> HIDE DEF new, taken, writes, launches
    <2>8. UNCHANGED <<active, pollLost, pollTicks>>
      BY <1>0, <2>3 DEF HandlerFrame
    <2>. QED BY <1>0, <2>2, <2>3, <2>5, <2>6, <2>7, <2>8, HandlerBeats
  <1>. QED BY <1>1, <1>2

\* A slot that no longer waits for anything, and one that waits for a new command.
LEMMA Rests ==
  ASSUME NEW i, slots'[i].state \in {"None", "NeedsHuman", "Error"}
  PROVE  SlotBeats(i)'
  BY DEF SlotBeats, HasSlot, Continues

\* A slot that waits for the command just issued has its continuation.
LEMMA Awaits ==
  ASSUME TypeOK, NEW c \in Clients, NEW m, NEW i, NEW x, Replace(c, m, {x}), x.issue = i,
         \/ slots'[i].state = "WritingAgent" /\ x.op = "write"
         \/ slots'[i].state \in {"LaunchingCoder", "LaunchingReviewer"} /\ x.op = "launch"
         \/ slots'[i].state = "AutoMerging" /\ x.op = "merge"
         \/ slots'[i].state = "CleaningUp" /\ x.op = "cleanup"
  PROVE  SlotBeats(i)'
  <1>1. \A K : x.op \in K => Pending(K, i)'
    BY AddedPending
  <1>2. CASE slots'[i].state = "WritingAgent" /\ x.op = "write"
    BY <1>1, <1>2 DEF SlotBeats, Continues
  <1>3. CASE slots'[i].state \in {"LaunchingCoder", "LaunchingReviewer"} /\ x.op = "launch"
    BY <1>1, <1>3 DEF SlotBeats, Continues
  <1>4. CASE slots'[i].state = "AutoMerging" /\ x.op = "merge"
    BY <1>1, <1>4 DEF SlotBeats, Continues
  <1>5. CASE slots'[i].state = "CleaningUp" /\ x.op = "cleanup"
    BY <1>1, <1>5 DEF SlotBeats, Continues
  <1>. QED BY <1>2, <1>3, <1>4, <1>5

\* What moving one slot does to it and to the others.
LEMMA MovedOne ==
  ASSUME TypeOK, NEW i \in Issues, NEW st, slots' = Moved(i, st)
  PROVE  slots'[i].state = st /\ \A j \in Issues \ {i} : slots'[j] = slots[j]
  BY DEF TypeOK, Moved, Slot

\* An early return on the answer of a step, by a slot that does not wait for it.
LEMMA IgnoredStepBeats ==
  ASSUME TypeOK, HeartbeatPreserved, HandlerFrame, NEW c \in Clients, NEW m \in flight[c],
         m.issue \in Issues, Ignored(c, m),
         ~HasSlot(m.issue) \/ (m.op = "merged" /\ slots[m.issue].state # "AutoMerging")
  PROVE  HeartbeatPreserved'
  <1>1. Replace(c, m, {}) /\ UNCHANGED <<slots, labelTicks, prTicks, pollTicks, dropped, resumed>>
    BY DEF Ignored, timerVars
  <1> SUFFICES ASSUME active PROVE HeartbeatPreserved'
    BY DEF HeartbeatPreserved, HandlerFrame
  <1>2. SlotBeats(m.issue)'
    <2>1. CASE ~HasSlot(m.issue)
      BY <1>1, <2>1 DEF SlotBeats, HasSlot
    <2>2. CASE HasSlot(m.issue) /\ m.issue \in dropped \cup resumed
      BY <1>1, <2>2 DEF SlotBeats
    <2>3. CASE HasSlot(m.issue) /\ m.issue \notin dropped \cup resumed
      <3>1. Continues(m.issue)
        BY <2>3, Halves DEF SlotBeats
      <3>2. m.op = "merged" /\ slots[m.issue].state # "AutoMerging"
        BY <2>3
      <3>3. ASSUME NEW K \in StepClass \ {{"merge", "merged"}}, Pending(K, m.issue)
            PROVE  Pending(K, m.issue)'
        <4>1. m.op \notin K
          BY <3>2, <3>3 DEF StepClass
        <4>. QED BY <1>1, <3>3, <4>1, ReplacePending
      <3>. QED BY <1>1, <3>1, <3>2, <3>3 DEF SlotBeats, Continues, StepClass
    <2>. QED BY <2>1, <2>2, <2>3
  <1>. QED BY <1>1, <1>2, TicksKept, OneSlotBeats

\* The answers of worktree creation and agent writing keep the property.
LEMMA CreatedBeats ==
  ASSUME TypeOK, HeartbeatPreserved, NEW c \in Clients, NEW m \in flight[c],
         HandleCreated(c, m) \/ HandleWritten(c, m)
  PROVE  HeartbeatPreserved'
  <1>h. HandlerFrame /\ m.issue \in Issues
    BY InFlightItem, ItemFields DEF HandleCreated, HandleWritten, Delivered
  <1>1. CASE Ignored(c, m) /\ ~HasSlot(m.issue)
    BY <1>h, <1>1, IgnoredStepBeats
  <1>2. CASE ~(Ignored(c, m) /\ ~HasSlot(m.issue))
    <2>1. UNCHANGED <<pollTicks, labelTicks, prTicks, dropped, resumed>>
      BY <1>2 DEF HandleCreated, HandleWritten, timerVars
    <2>2. CASE slots' = Moved(m.issue, "Error") /\ Replace(c, m, {})
      BY <1>h, <2>1, <2>2, MovedOne, Rests, TicksKept, OneSlotBeats
    <2>3. CASE HandleCreated(c, m) /\ ~(slots' = Moved(m.issue, "Error") /\ Replace(c, m, {}))
      <3>1. /\ slots' = [slots EXCEPT ![m.issue] =
                   [@ EXCEPT !.state = "WritingAgent", !.branch = m.issue, !.wt = m.issue]]
            /\ Replace(c, m, {IssueCmd("write", m.issue)})
        BY <1>2, <2>3 DEF HandleCreated
      <3>2. slots'[m.issue].state = "WritingAgent" /\ \A j \in Issues \ {m.issue} : slots'[j] = slots[j]
        BY <1>h, <3>1 DEF TypeOK, Slot
      <3>3. SlotBeats(m.issue)'
        BY <3>1, <3>2, Awaits DEF IssueCmd
      <3>. QED BY <1>h, <2>1, <3>1, <3>2, <3>3, TicksKept, OneSlotBeats
    <2>4. CASE HandleWritten(c, m) /\ ~(slots' = Moved(m.issue, "Error") /\ Replace(c, m, {}))
      <3>1. /\ slots' = Moved(m.issue, "LaunchingCoder")
            /\ Replace(c, m, {LaunchCmd(m.issue, "coder")})
        BY <1>2, <2>4 DEF HandleWritten
      <3>2. SlotBeats(m.issue)'
        BY <1>h, <3>1, MovedOne, Awaits DEF LaunchCmd
      <3>. QED BY <1>h, <2>1, <3>1, <3>2, MovedOne, TicksKept, OneSlotBeats
    <2>. QED BY <2>2, <2>3, <2>4
  <1>. QED BY <1>1, <1>2

\* So does the answer of a launch.
LEMMA LaunchedBeats ==
  ASSUME TypeOK, HeartbeatPreserved, NEW c \in Clients, NEW m \in flight[c],
         HandleLaunched(c, m)
  PROVE  HeartbeatPreserved'
  <1>h. HandlerFrame /\ m.issue \in Issues
    BY InFlightItem, ItemFields DEF HandleLaunched, Delivered
  <1>1. CASE Ignored(c, m) /\ ~HasSlot(m.issue)
    BY <1>h, <1>1, IgnoredStepBeats
  <1>2. CASE ~(Ignored(c, m) /\ ~HasSlot(m.issue))
    <2>1. UNCHANGED <<pollTicks, prTicks, dropped, resumed>> /\ Replace(c, m, {})
      BY <1>2 DEF HandleLaunched
    <2>2. CASE slots' = Moved(m.issue, "Error") /\ UNCHANGED labelTicks
      BY <1>h, <2>1, <2>2, MovedOne, Rests, TicksKept, OneSlotBeats
    <2>3. CASE ~(slots' = Moved(m.issue, "Error") /\ UNCHANGED labelTicks)
      <3>1. /\ ScheduleLabel(c, m.issue)
            /\ slots' = Moved(m.issue, "Coding") \/ slots' = Moved(m.issue, "Reviewing")
        BY <1>2, <2>3 DEF HandleLaunched
      <3>2. LabelsTick(m.issue)' /\ \A j \in Issues : LabelsTick(j) => LabelsTick(j)'
        BY <1>h, <3>1, LabelScheduled
      <3>3. \A j \in Issues : PRsTick(j) => PRsTick(j)'
        BY <2>1 DEF PRsTick
      <3>4. SlotBeats(m.issue)'
        <4>1. slots'[m.issue].state \in {"Coding", "Reviewing"}
          BY <1>h, <3>1, MovedOne
        <4>. QED BY <3>2, <4>1 DEF SlotBeats, Continues, LabelsTick
      <3>. QED BY <1>h, <2>1, <3>1, <3>2, <3>3, <3>4, MovedOne, OneSlotBeats
    <2>. QED BY <2>2, <2>3
  <1>. QED BY <1>1, <1>2

\* So do the answers of PR poll and auto-merge.
LEMMA MergeBeats ==
  ASSUME TypeOK, HeartbeatPreserved, NEW c \in Clients, NEW m \in flight[c],
         HandlePRStatus(c, m) \/ HandleMerged(c, m)
  PROVE  HeartbeatPreserved'
  <1>h. HandlerFrame /\ m.issue \in Issues
    BY InFlightItem, ItemFields DEF HandlePRStatus, HandleMerged, Delivered
  <1>1. CASE HandlePRStatus(c, m) /\ Ignored(c, m)
    <2>1. \A K \in StepClass : m.op \notin K
      BY <1>1 DEF HandlePRStatus, Delivered, StepClass
    <2>. QED BY <1>h, <1>1, <2>1, IgnoredBeats
  <1>2. CASE HandleMerged(c, m) /\ Ignored(c, m) /\ slots[m.issue].state # "AutoMerging"
    BY <1>h, <1>2, IgnoredStepBeats DEF HandleMerged, Delivered
  <1>3. CASE /\ ~(HandlePRStatus(c, m) /\ Ignored(c, m))
             /\ ~(HandleMerged(c, m) /\ Ignored(c, m) /\ slots[m.issue].state # "AutoMerging")
    <2>1. UNCHANGED <<pollTicks, labelTicks, prTicks, dropped, resumed>>
      BY <1>3 DEF HandlePRStatus, HandleMerged, timerVars
    <2>2. \/ Replace(c, m, {}) /\ \E st \in {"Error", "NeedsHuman"} : slots' = Moved(m.issue, st)
          \/ Replace(c, m, {CleanupCmd(m.issue)}) /\ slots' = Moved(m.issue, "CleaningUp")
      BY <1>3 DEF HandlePRStatus, HandleMerged
    <2>3. ASSUME NEW st \in {"Error", "NeedsHuman"}, slots' = Moved(m.issue, st), Replace(c, m, {})
          PROVE  HeartbeatPreserved'
      BY <1>h, <2>1, <2>3, MovedOne, Rests, TicksKept, OneSlotBeats
    <2>4. CASE Replace(c, m, {CleanupCmd(m.issue)}) /\ slots' = Moved(m.issue, "CleaningUp")
      <3>1. SlotBeats(m.issue)'
        BY <1>h, <2>4, MovedOne, Awaits DEF CleanupCmd
      <3>. QED BY <1>h, <2>1, <2>4, <3>1, MovedOne, TicksKept, OneSlotBeats
    <2>. QED BY <2>2, <2>3, <2>4
  <1>. QED BY <1>1, <1>2, <1>3

\* So does the end of a cleanup.
LEMMA CleanedBeats ==
  ASSUME TypeOK, HeartbeatPreserved, NEW c \in Clients, NEW m \in flight[c],
         HandleCleaned(c, m)
  PROVE  HeartbeatPreserved'
  <1>1. HandlerFrame /\ m.issue \in Issues
    BY InFlightItem, ItemFields DEF HandleCleaned, Delivered
  <1>2. /\ slots'[m.issue].state = "None"
        /\ \A j \in Issues \ {m.issue} :
              /\ slots'[j] = slots[j]
              /\ j \in dropped \cup resumed => j \in dropped' \cup resumed'
    BY <1>1 DEF HandleCleaned, TypeOK, NoSlot
  <1>3. UNCHANGED <<pollTicks, labelTicks, prTicks>> /\ Replace(c, m, {})
    BY DEF HandleCleaned, timerVars
  <1>4. SlotBeats(m.issue)'
    BY <1>2, Rests
  <1>. QED BY <1>1, <1>2, <1>3, <1>4, TicksKept, OneSlotBeats

\* So does the answer of a label poll.
LEMMA LabelsBeats ==
  ASSUME TypeOK, HeartbeatPreserved, NEW c \in Clients, NEW m \in flight[c],
         HandleLabels(c, m)
  PROVE  HeartbeatPreserved'
  <1>h. HandlerFrame /\ m.issue \in Issues
    BY InFlightItem, ItemFields DEF HandleLabels, Delivered
  <1>1. CASE Ignored(c, m)
    <2>1. \A K \in StepClass : m.op \notin K
      BY DEF HandleLabels, Delivered, StepClass
    <2>. QED BY <1>h, <1>1, <2>1, IgnoredBeats
  <1>2. CASE ~Ignored(c, m)
    <2>1. UNCHANGED <<dropped, resumed>>
      BY <1>2 DEF HandleLabels
    <2>2. CASE ReviewRequested(c, m)
      <3>1. SlotBeats(m.issue)'
        BY <1>h, <2>2, MovedOne, Awaits DEF ReviewRequested, LaunchCmd
      <3>. QED BY <1>h, <2>1, <2>2, <3>1, MovedOne, TicksKept, OneSlotBeats
           DEF ReviewRequested, timerVars
    <2>3. CASE ReviewPassed(c, m)
      <3>1. CASE slots' = Moved(m.issue, "AutoMerging") /\ Replace(c, m, {MergeCmd(m.issue)})
                 /\ UNCHANGED timerVars
        <4>1. SlotBeats(m.issue)'
          BY <1>h, <3>1, MovedOne, Awaits DEF MergeCmd
        <4>. QED BY <1>h, <2>1, <3>1, <4>1, MovedOne, TicksKept, OneSlotBeats DEF timerVars
      <3>2. CASE /\ slots' = Moved(m.issue, "WaitingPRMerge") /\ Replace(c, m, {})
                 /\ SchedulePR(c, m.issue) /\ UNCHANGED <<pollTicks, labelTicks>>
        <4>1. PRsTick(m.issue)' /\ \A j \in Issues : PRsTick(j) => PRsTick(j)'
          BY <1>h, <3>2, PRScheduled
        <4>2. \A j \in Issues : LabelsTick(j) => LabelsTick(j)'
          BY <3>2 DEF LabelsTick
        <4>3. slots'[m.issue].state = "WaitingPRMerge"
          BY <1>h, <3>2, MovedOne
        <4>4. SlotBeats(m.issue)'
          BY <4>1, <4>3 DEF SlotBeats, Continues, PRsTick
        <4>. QED BY <1>h, <2>1, <3>2, <4>1, <4>2, <4>4, MovedOne, OneSlotBeats
      <3>. QED BY <2>3, <3>1, <3>2 DEF ReviewPassed
    <2>4. CASE ChangesNeeded(c, m)
      <3>1. CASE slots' = Moved(m.issue, "NeedsHuman") /\ Replace(c, m, {})
        BY <1>h, <2>1, <2>4, <3>1, MovedOne, Rests, TicksKept, OneSlotBeats
        DEF ChangesNeeded, timerVars
      <3>2. CASE /\ slots' = [slots EXCEPT ![m.issue] = NextRound(@)]
                 /\ Replace(c, m, {IssueCmd("write", m.issue)})
        <4>1. /\ slots'[m.issue].state = "WritingAgent"
              /\ \A j \in Issues \ {m.issue} : slots'[j] = slots[j]
          BY <1>h, <3>2, NextRoundType DEF TypeOK
        <4>2. SlotBeats(m.issue)'
          BY <3>2, <4>1, Awaits DEF IssueCmd
        <4>. QED BY <1>h, <2>1, <2>4, <3>2, <4>1, <4>2, TicksKept, OneSlotBeats
             DEF ChangesNeeded, timerVars
      <3>. QED BY <2>4, <3>1, <3>2 DEF ChangesNeeded
    <2>. QED BY <1>2, <2>2, <2>3, <2>4 DEF HandleLabels
  <1>. QED BY <1>1, <1>2

\* Every handler keeps the property.
LEMMA HandleBeats ==
  ASSUME TypeOK, HeartbeatPreserved, NEW c \in Clients, NEW m \in flight[c],
         HandleMessage(c, m)
  PROVE  HeartbeatPreserved'
  BY StartBeats, PolledBeats, OpenPRsBeats, CreatedBeats, LaunchedBeats, LabelsBeats,
     MergeBeats, CleanedBeats DEF HandleMessage

-----------------------------------------------------------------------------
(* The timers, and what a closed gate drops.                                *)

\* A timer ends its chain: for a slot that no longer needs it, or on record.
LEMMA LabelChainEnds ==
  ASSUME TypeOK, HeartbeatPreserved, NEW c \in Clients, NEW i \in Issues,
         labelTicks' = [labelTicks EXCEPT ![c][i] = @ - 1],
         UNCHANGED <<active, slots, flight, pollTicks, prTicks, resumed, pollLost>>,
         dropped \subseteq dropped', LabelTickKeeps(i) => i \in dropped'
  PROVE  HeartbeatPreserved'
  <1> SUFFICES ASSUME active PROVE HeartbeatPreserved'
    BY DEF HeartbeatPreserved
  <1>1. PollBeats'
    BY Halves DEF PollBeats
  <1>2. ASSUME NEW j \in Issues, j \notin dropped' \cup resumed', HasSlot(j)'
        PROVE  Continues(j)'
    <2>1. Continues(j)
      BY <1>2, Halves DEF SlotBeats, HasSlot
    <2>2. \A K \in StepClass : Pending(K, j) => Pending(K, j)'
      BY SamePending
    <2>3. CASE j # i
      <3>1. \A d \in Clients : labelTicks'[d][j] = labelTicks[d][j]
        BY <2>3 DEF TypeOK
      <3>. QED BY <2>1, <2>2, <3>1, ContinuesKept
    <2>4. CASE j = i
      <3>1. slots[j].state \notin {"Coding", "Reviewing"}
        BY <1>2, <2>4 DEF LabelTickKeeps
      <3>. QED BY <2>1, <2>2, <3>1 DEF Continues, StepClass
    <2>. QED BY <2>3, <2>4
  <1>. QED BY <1>1, <1>2 DEF HeartbeatPreserved, PollBeats

\* A PR timer may go when its slot does not need it, or the loss is recorded.
LEMMA PRChainEnds ==
  ASSUME TypeOK, HeartbeatPreserved, NEW c \in Clients, NEW i \in Issues,
         prTicks' = [prTicks EXCEPT ![c][i] = @ - 1],
         UNCHANGED <<active, slots, flight, pollTicks, labelTicks, resumed, pollLost>>,
         dropped \subseteq dropped', PRTickKeeps(i) => i \in dropped'
  PROVE  HeartbeatPreserved'
  <1> SUFFICES ASSUME active PROVE HeartbeatPreserved'
    BY DEF HeartbeatPreserved
  <1>1. PollBeats'
    BY Halves DEF PollBeats
  <1>2. ASSUME NEW j \in Issues, j \notin dropped' \cup resumed', HasSlot(j)'
        PROVE  Continues(j)'
    <2>1. Continues(j)
      BY <1>2, Halves DEF SlotBeats, HasSlot
    <2>2. \A K \in StepClass : Pending(K, j) => Pending(K, j)'
      BY SamePending
    <2>3. CASE j # i
      <3>1. \A d \in Clients : prTicks'[d][j] = prTicks[d][j]
        BY <2>3 DEF TypeOK
      <3>. QED BY <2>1, <2>2, <3>1, ContinuesKept
    <2>4. CASE j = i
      <3>1. slots[j].state # "WaitingPRMerge"
        BY <1>2, <2>4 DEF PRTickKeeps
      <3>. QED BY <2>1, <2>2, <3>1 DEF Continues, StepClass
    <2>. QED BY <2>3, <2>4
  <1>. QED BY <1>1, <1>2 DEF HeartbeatPreserved, PollBeats

\* A timer asks, and sets itself again.
LEMMA RequestBeats ==
  ASSUME TypeOK, HeartbeatPreserved, NEW c \in Clients, NEW cmd, NEW ops,
         Request(c, cmd, ops), UNCHANGED <<loopVars, timerVars, lossVars>>
  PROVE  HeartbeatPreserved'
  <1>1. ASSUME NEW K \in StepClass, NEW i \in Issues, Pending(K, i) PROVE Pending(K, i)'
    BY <1>1, AddPending DEF Request
  <1>. QED BY <1>1, QuietBeats

\* Every timer that fires keeps the property.
LEMMA TickBeats ==
  ASSUME TypeOK, HeartbeatPreserved, NEW c \in Clients,
         \/ PollTick(c) \/ DropPollTick(c)
         \/ \E i \in Issues : \/ LabelTick(c, i) \/ PRTick(c, i)
                              \/ DropLabelTick(c, i) \/ DropPRTick(c, i)
  PROVE  HeartbeatPreserved'
  <1>1. ASSUME PollTick(c) PROVE HeartbeatPreserved'
    <2>1. CASE active
      BY <1>1, <2>1, RequestBeats DEF PollTick, TickFrame, timerVars
    <2>2. CASE ~active
      BY <1>1, <2>2 DEF PollTick, TickFrame, loopVars, HeartbeatPreserved
    <2>. QED BY <2>1, <2>2
  <1>2. ASSUME DropPollTick(c) PROVE HeartbeatPreserved'
    <2>1. active' => pollLost'
      BY <1>2 DEF DropPollTick, DropFrame, loopVars
    <2>2. ASSUME active, NEW i \in Issues PROVE SlotBeats(i)'
      <3>1. \A K \in StepClass : Pending(K, i) => Pending(K, i)'
        BY <1>2, SamePending DEF DropPollTick
      <3>2. UNCHANGED <<slots, labelTicks, prTicks, dropped, resumed>>
        BY <1>2 DEF DropPollTick, DropFrame, loopVars
      <3>. QED BY <2>2, <3>1, <3>2, Halves, ContinuesKept DEF SlotBeats, HasSlot
    <2>3. UNCHANGED active
      BY <1>2 DEF DropPollTick, DropFrame, loopVars
    <2>. QED BY <2>1, <2>2, <2>3 DEF HeartbeatPreserved, SlotBeats
  <1>3. ASSUME NEW i \in Issues, LabelTick(c, i) PROVE HeartbeatPreserved'
    <2>1. CASE LabelTickKeeps(i)
      BY <1>3, <2>1, RequestBeats DEF LabelTick, TickFrame, timerVars
    <2>2. CASE ~LabelTickKeeps(i)
      BY <1>3, <2>2, LabelChainEnds DEF LabelTick, TickFrame, loopVars, lossVars
    <2>. QED BY <2>1, <2>2
  <1>4. ASSUME NEW i \in Issues, PRTick(c, i) PROVE HeartbeatPreserved'
    <2>1. CASE PRTickKeeps(i)
      BY <1>4, <2>1, RequestBeats DEF PRTick, TickFrame, timerVars
    <2>2. CASE ~PRTickKeeps(i)
      BY <1>4, <2>2, PRChainEnds DEF PRTick, TickFrame, loopVars, lossVars
    <2>. QED BY <2>1, <2>2
  <1>5. ASSUME NEW i \in Issues, DropLabelTick(c, i) PROVE HeartbeatPreserved'
    <2>1. dropped \subseteq dropped' /\ (LabelTickKeeps(i) => i \in dropped')
      BY <1>5 DEF DropLabelTick
    <2>. QED BY <1>5, <2>1, LabelChainEnds DEF DropLabelTick, DropFrame, loopVars
  <1>6. ASSUME NEW i \in Issues, DropPRTick(c, i) PROVE HeartbeatPreserved'
    <2>1. dropped \subseteq dropped' /\ (PRTickKeeps(i) => i \in dropped')
      BY <1>6 DEF DropPRTick
    <2>. QED BY <1>6, <2>1, PRChainEnds DEF DropPRTick, DropFrame, loopVars
  <1>. QED BY <1>1, <1>2, <1>3, <1>4, <1>5, <1>6

\* So does what a closed gate swallows.
LEMMA DropBeats ==
  ASSUME TypeOK, HeartbeatPreserved, NEW c \in Clients, NEW m \in flight[c],
         DropMessage(c, m)
  PROVE  HeartbeatPreserved'
  <1>0. /\ UNCHANGED <<active, slots, pollTicks, labelTicks, prTicks, resumed, pollLost>>
        /\ Replace(c, m, {}) /\ m.op \notin CommandOp /\ dropped \subseteq dropped'
    BY DEF DropMessage, DropFrame, loopVars, timerVars
  <1>1. CASE m.op \in StepResult
    <2>1. m.issue \in Issues
      BY <1>1, InFlightItem, ItemFields DEF StepResult
    <2>2. SlotBeats(m.issue)'
      BY <1>0, <1>1 DEF DropMessage, SlotBeats, HasSlot
    <2>3. \A K \in StepClass : m.op \in K => m.issue \in {m.issue}
      OBVIOUS
    <2>4. {m.issue} \in SUBSET Issues
      BY <2>1
    <2>5. active => \A j \in {m.issue} : SlotBeats(j)'
      BY <2>2
    <2>. QED BY <1>0, <2>3, <2>4, <2>5, TicksKept, HandlerBeats
  <1>2. CASE m.op \notin StepResult
    <2>1. \A K \in StepClass : m.op \notin K
      BY <1>0, <1>2 DEF StepClass, StepResult, CommandOp
    <2>2. UNCHANGED dropped
      BY <1>2 DEF DropMessage
    <2>. QED BY <1>0, <2>1, <2>2, AsideBeats DEF loopVars, timerVars, lossVars
  <1>. QED BY <1>1, <1>2

-----------------------------------------------------------------------------
\* Whatever fails, stops, restarts or arrives late: as long as no closed gate
\* swallowed what it needed, the loop's poll and every slot it made go on.
THEOREM HeartbeatSafe == Spec => []HeartbeatPreserved
  <1>1. Init => HeartbeatPreserved
    BY DEF Init, HeartbeatPreserved
  <1>2. TypeOK /\ HeartbeatPreserved /\ [Next]_vars => HeartbeatPreserved'
    <2> SUFFICES ASSUME TypeOK, HeartbeatPreserved, [Next]_vars PROVE HeartbeatPreserved'
      OBVIOUS
    <2>1. CASE UNCHANGED vars
      BY <2>1, SamePending, QuietBeats DEF vars
    <2>2. CASE ProcessRestart
      BY <2>2 DEF ProcessRestart, HeartbeatPreserved
    <2>3. CASE Next /\ ~ProcessRestart
      BY <2>3, UserBeats, CommandBeats, HandleBeats, DropBeats, TickBeats, WorldBeats DEF Next
    <2>. QED BY <2>1, <2>2, <2>3
  <1>. QED BY <1>1, <1>2, TypeCorrect, PTL DEF Spec

-----------------------------------------------------------------------------
(***************************************************************************)
(* Beyond heartbeats.                                                      *)
(*                                                                         *)
(* First: what the loop destroys or closes is merged, and what it starts   *)
(* has its dependencies merged, wherever a branch name contains the ID of  *)
(* its own issue only.  MergeInv carries the evidence of a merge along: an *)
(* item that reports a merge, or that removes or closes because of one, is *)
(* about a pull request that is merged by now, and merged is for ever.     *)
(*                                                                         *)
(* Then, in the first run of a loop, with agents slower than requests and  *)
(* no PRs of another machine: one agent per issue, rounds and escalations  *)
(* that answer verdicts, label heartbeats that launches account for, and   *)
(* no more slots than max_per_project; for any number of clients, issues,  *)
(* polls in flight, rejections and dropped messages.  The heart of it is   *)
(* that the label of an issue, the state of its slot, and the one command, *)
(* message or agent that has the issue in hand always agree, so that a     *)
(* handler that acts on a label it was told acts on the label there is.    *)
(***************************************************************************)

OwnBranches == \A j, i \in Issues : <<j, i>> \in Contains => j = i

\* Slots and items name the branch and the directory of their own issue, or none.
SlotOwn(i) == slots[i].branch \in {i, NoIssue} /\ slots[i].wt \in {i, NoIssue}

ItemOwn(m) ==
    /\ m.op \in {"pollPR", "merge"} => m.branch \in {m.issue, NoIssue}
    /\ m.op = "cleanup" => m.dir \in {m.issue, NoIssue}

\* An item that could not be in flight had its issue's PR not been merged.
TellsMerge(m) ==
    \/ m.op = "prStatus" /\ m.pr = "merged"
    \/ m.op = "merged" /\ m.kind = ""
    \/ m.op \in {"cleanup", "close"}

ItemOK(m) == ItemOwn(m) /\ (TellsMerge(m) => prs[m.issue] = "merged")

MergeInv ==
    /\ \A i \in Issues : SlotOwn(i)
    /\ \A c \in Clients : \A m \in flight[c] : ItemOK(m)
    /\ \A i \in closed : prs[i] = "merged"

\* The step that WorkKeptUntilMerged allows.
WorkKept == \A i \in Issues : i \in (wts \ wts') \cup (closed' \ closed) => prs[i] = "merged"

MergesLast == \A i \in Issues : prs[i] = "merged" => prs'[i] = "merged"

-----------------------------------------------------------------------------
(* What the cases of the proof have in common. *)

\* What is in flight after a replacement was there or is new.
LEMMA StillOrNew ==
  ASSUME TypeOK, NEW c \in Clients, NEW m, NEW new, Replace(c, m, new)
  PROVE  \A d \in Clients : \A o \in flight'[d] : o \in flight[d] \/ o \in new
  BY DEF TypeOK, Replace

\* What a step has to show for the invariant.
LEMMA MergeStep ==
  ASSUME TypeOK, MergeInv, MergesLast,
         \A i \in Issues : SlotOwn(i)',
         \A d \in Clients : \A o \in flight'[d] : o \in flight[d] \/ ItemOK(o)',
         \A i \in closed' \ closed : prs[i] = "merged", closed' \subseteq Issues
  PROVE  MergeInv'
  <1>1. ASSUME NEW d \in Clients, NEW o \in flight[d] PROVE ItemOK(o)'
    <2>1. ItemOK(o) /\ o \in Item
      BY InFlightItem DEF MergeInv
    <2>2. TellsMerge(o) => o.issue \in Issues
      BY <2>1, ItemFields DEF TellsMerge
    <2>. QED BY <2>1, <2>2 DEF ItemOK, MergesLast, ItemOwn, TellsMerge
  <1>2. \A i \in closed' : prs'[i] = "merged"
    BY DEF MergeInv, MergesLast
  <1>. QED BY <1>1, <1>2 DEF MergeInv

\* An item of any other op is about no branch and tells no merge.
PlainOp == (CommandOp \cup {"labelChecked", "labelsEnsured", "polled", "openPRs", "created",
                            "written", "launched", "labels", "cleaned"})
             \ {"pollPR", "merge", "cleanup", "close"}

\* A plain item satisfies any demand on items.
LEMMA PlainOK == \A o : o.op \in PlainOp => ItemOK(o)'
  BY DEF PlainOp, CommandOp, ItemOK, ItemOwn, TellsMerge

\* Unchanged slots keep their own branch and worktree.
LEMMA SlotsSame ==
  ASSUME MergeInv, UNCHANGED slots PROVE \A i \in Issues : SlotOwn(i)'
  BY DEF MergeInv, SlotOwn

\* So does a slot that only moves.
LEMMA MovedOwn ==
  ASSUME TypeOK, MergeInv, NEW k \in Issues, NEW s, slots' = Moved(k, s)
  PROVE  \A i \in Issues : SlotOwn(i)'
  BY DEF TypeOK, Slot, MergeInv, SlotOwn, Moved

\* A step that leaves the tracker, the slots and the repository alone, and puts
\* only plain items in flight.
LEMMA PlainStep ==
  ASSUME TypeOK, MergeInv, UNCHANGED <<slots, closed, prs, wts>>,
         \A d \in Clients : \A o \in flight'[d] : o \in flight[d] \/ o.op \in PlainOp
  PROVE  MergeInv' /\ WorkKept
  <1>1. MergesLast /\ WorkKept
    BY DEF MergesLast, WorkKept
  <1>2. \A d \in Clients : \A o \in flight'[d] : o \in flight[d] \/ ItemOK(o)'
    BY PlainOK
  <1>3. closed' \subseteq Issues
    BY DEF TypeOK
  <1>. QED BY <1>1, <1>2, <1>3, SlotsSame, MergeStep

\* An item is replaced by plain ones.
LEMMA PlainReplace ==
  ASSUME TypeOK, MergeInv, UNCHANGED <<slots, closed, prs, wts>>,
         NEW c \in Clients, NEW m, NEW new, Replace(c, m, new), \A x \in new : x.op \in PlainOp
  PROVE  MergeInv' /\ WorkKept
  BY StillOrNew, PlainStep

\* An item is replaced by a plain one.
LEMMA PlainReplaceOne ==
  ASSUME TypeOK, MergeInv, UNCHANGED <<slots, closed, prs, wts>>,
         NEW c \in Clients, NEW m, NEW x, Replace(c, m, {x}), x.op \in PlainOp
  PROVE  MergeInv' /\ WorkKept
  BY PlainReplace

\* The frame of the commands that read only.
LEMMA AnswersKeep ==
  ASSUME NEW c, NEW m, NEW res, Answers(c, m, res)
  PROVE  UNCHANGED <<slots, closed, prs, wts>> /\ Replace(c, m, {res})
  BY DEF Answers, loopVars, trackerVars

-----------------------------------------------------------------------------
(* The commands. *)

\* The commands that only read keep the invariant.
LEMMA ReadsKeep ==
  ASSUME TypeOK, MergeInv, NEW c \in Clients, NEW m \in flight[c],
         \/ CheckLabels(c, m) \/ EnsureLabels(c, m)
         \/ \E ok \in BOOLEAN, unread \in SUBSET Issues : PollTodo(c, m, ok, unread)
         \/ ScanOpenPRs(c, m) \/ WriteAgent(c, m)
         \/ \E ok \in BOOLEAN : PollLabels(c, m, ok)
  PROVE  MergeInv' /\ WorkKept
  <1>1. PICK res : Answers(c, m, res) /\ res.op \in PlainOp
    <2>1. CASE CheckLabels(c, m)
      <3>1. PICK r : Answers(c, m, [op |-> "labelChecked", issue |-> NoIssue, res |-> r])
        BY <2>1 DEF CheckLabels
      <3> DEFINE x == [op |-> "labelChecked", issue |-> NoIssue, res |-> r]
      <3>2. Answers(c, m, x) /\ x.op \in PlainOp
        BY <3>1 DEF PlainOp
      <3> HIDE DEF x
      <3>. QED BY <3>2
    <2>2. CASE EnsureLabels(c, m)
      <3>1. PICK ok : Answers(c, m, [op |-> "labelsEnsured", issue |-> NoIssue, ok |-> ok])
        BY <2>2 DEF EnsureLabels
      <3> DEFINE x == [op |-> "labelsEnsured", issue |-> NoIssue, ok |-> ok]
      <3>2. Answers(c, m, x) /\ x.op \in PlainOp
        BY <3>1 DEF PlainOp
      <3> HIDE DEF x
      <3>. QED BY <3>2
    <2>3. ASSUME NEW ok \in BOOLEAN, NEW unread \in SUBSET Issues, PollTodo(c, m, ok, unread)
          PROVE  \E res : Answers(c, m, res) /\ res.op \in PlainOp
      <3> DEFINE todo == {i \in Issues : IsTodo(i) /\ DependenciesDone(i)}
                 x == [op |-> "polled", issue |-> NoIssue, ok |-> ok,
                       todo |-> IF ok THEN todo \ unread ELSE {}]
      <3>1. Answers(c, m, x) /\ x.op \in PlainOp
        BY <2>3 DEF PollTodo, PlainOp
      <3> HIDE DEF x
      <3>. QED BY <3>1
    <2>4. CASE ScanOpenPRs(c, m)
      <3>1. PICK ok, open, ls :
              Answers(c, m, [op |-> "openPRs", issue |-> NoIssue, ok |-> ok, prs |-> open,
                             labels |-> ls])
        BY <2>4 DEF ScanOpenPRs
      <3> DEFINE x == [op |-> "openPRs", issue |-> NoIssue, ok |-> ok, prs |-> open,
                       labels |-> ls]
      <3>2. Answers(c, m, x) /\ x.op \in PlainOp
        BY <3>1 DEF PlainOp
      <3> HIDE DEF x
      <3>. QED BY <3>2
    <2>5. CASE WriteAgent(c, m)
      <3>1. PICK ok : Answers(c, m, [op |-> "written", issue |-> m.issue, ok |-> ok])
        BY <2>5 DEF WriteAgent
      <3> DEFINE x == [op |-> "written", issue |-> m.issue, ok |-> ok]
      <3>2. Answers(c, m, x) /\ x.op \in PlainOp
        BY <3>1 DEF PlainOp
      <3> HIDE DEF x
      <3>. QED BY <3>2
    <2>6. ASSUME NEW ok \in BOOLEAN, PollLabels(c, m, ok)
          PROVE  \E res : Answers(c, m, res) /\ res.op \in PlainOp
      <3> DEFINE x == [op |-> "labels", issue |-> m.issue, ok |-> ok,
                       labels |-> IF ok THEN labels[m.issue] ELSE {}]
      <3>1. Answers(c, m, x) /\ x.op \in PlainOp
        BY <2>6 DEF PollLabels, PlainOp
      <3> HIDE DEF x
      <3>. QED BY <3>1
    <2>. QED BY <2>1, <2>2, <2>3, <2>4, <2>5, <2>6
  <1>2. UNCHANGED <<slots, closed, prs, wts>> /\ Replace(c, m, {res})
    BY <1>1, AnswersKeep
  <1>. QED BY <1>1, <1>2, PlainReplaceOne

\* The cleanup at the start removes and closes merged work only.
LEMMA CleanupMergedKeeps ==
  ASSUME TypeOK, MergeInv, NEW c \in Clients, NEW m \in flight[c], CleanupMerged(c, m)
  PROVE  MergeInv' /\ WorkKept
  <1>1. \A i \in (wts \ wts') \cup (closed' \ closed) : prs[i] = "merged"
    BY DEF CleanupMerged, LeftoverWorktrees
  <1>2. UNCHANGED <<slots, prs>> /\ MergesLast /\ closed' \subseteq Issues
    BY DEF CleanupMerged, LeftoverWorktrees, loopVars, MergesLast, TypeOK
  <1>3. \A d \in Clients : \A o \in flight'[d] : o \in flight[d]
    BY StillOrNew DEF CleanupMerged
  <1>. QED BY <1>1, <1>2, <1>3, SlotsSame, MergeStep DEF WorkKept

\* Creating a worktree keeps the invariant.
LEMMA CreateKeeps ==
  ASSUME TypeOK, MergeInv, NEW c \in Clients, NEW m \in flight[c],
         CreateWorktree(c, m) \/ LaunchAgent(c, m)
  PROVE  MergeInv' /\ WorkKept
  <1>1. UNCHANGED <<slots, closed, prs>> /\ wts \subseteq wts'
    BY DEF CreateWorktree, LaunchAgent, loopVars, trackerVars
  <1>2. PICK x : Replace(c, m, {x}) /\ x.op \in PlainOp
    <2>1. CASE CreateWorktree(c, m)
      <3>1. PICK ok : Replace(c, m, {[op |-> "created", issue |-> m.issue, ok |-> ok]})
        BY <2>1 DEF CreateWorktree
      <3> DEFINE x == [op |-> "created", issue |-> m.issue, ok |-> ok]
      <3>2. Replace(c, m, {x}) /\ x.op \in PlainOp
        BY <3>1 DEF PlainOp
      <3> HIDE DEF x
      <3>. QED BY <3>2
    <2>2. CASE LaunchAgent(c, m)
      <3>1. PICK ok : Replace(c, m, {[op |-> "launched", issue |-> m.issue, role |-> m.role,
                                      ok |-> ok]})
        BY <2>2 DEF LaunchAgent
      <3> DEFINE x == [op |-> "launched", issue |-> m.issue, role |-> m.role, ok |-> ok]
      <3>2. Replace(c, m, {x}) /\ x.op \in PlainOp
        BY <3>1 DEF PlainOp
      <3> HIDE DEF x
      <3>. QED BY <3>2
    <2>. QED BY <2>1, <2>2
  <1>3. \A d \in Clients : \A o \in flight'[d] : o \in flight[d] \/ ItemOK(o)'
    BY <1>2, StillOrNew, PlainOK
  <1>. QED BY <1>1, <1>3, SlotsSame, MergeStep DEF WorkKept, MergesLast, TypeOK

\* A PR poll that answers merged speaks of a merged PR.
LEMMA PollPRKeeps ==
  ASSUME TypeOK, MergeInv, NEW c \in Clients, NEW m \in flight[c], NEW ok \in BOOLEAN,
         PollPR(c, m, ok)
  PROVE  MergeInv' /\ WorkKept
  <1>0. PICK x : x = [op |-> "prStatus", issue |-> m.issue, ok |-> ok,
                      pr |-> IF ok THEN PRByBranch(m.branch) ELSE "none"]
    OBVIOUS
  <1>1. UNCHANGED <<slots, closed, prs, wts>> /\ Replace(c, m, {x})
    BY <1>0, AnswersKeep DEF PollPR
  <1>2. m.branch \in {m.issue, NoIssue}
    BY DEF MergeInv, ItemOK, ItemOwn, PollPR, Running
  <1>3. x.op = "prStatus" /\ x.issue = m.issue /\ (x.pr = "merged" => prs[m.issue] = "merged")
    BY <1>0, <1>2 DEF PRByBranch
  <1>4. ItemOK(x)'
    BY <1>1, <1>3 DEF ItemOK, ItemOwn, TellsMerge
  <1>5. \A d \in Clients : \A o \in flight'[d] : o \in flight[d] \/ ItemOK(o)'
    BY <1>1, <1>4, StillOrNew
  <1>. QED BY <1>1, <1>5, SlotsSame, MergeStep DEF WorkKept, MergesLast, TypeOK

\* An auto-merge that answers success has merged the PR.
LEMMA MergeKeeps ==
  ASSUME TypeOK, MergeInv, NEW c \in Clients, NEW m \in flight[c],
         LookUpPR(c, m) \/ TryMerge(c, m)
  PROVE  MergeInv' /\ WorkKept
  <1>m. /\ m \in Item /\ m.op = "merge" /\ m.issue \in Issues
        /\ m.branch \in {m.issue, NoIssue}
    BY InFlightItem, ItemFields DEF LookUpPR, TryMerge, Running, MergeInv, ItemOK, ItemOwn
  <1>u. UNCHANGED <<slots, closed, wts>>
    BY DEF LookUpPR, TryMerge, loopVars, trackerVars
  <1>k. \A k : LET x == [m EXCEPT !.attempt = k] IN
               x.op = "merge" /\ x.issue = m.issue /\ x.branch = m.branch
    BY <1>m DEF Item, Command, Message
  <1>1. PICK x : /\ Replace(c, m, {x}) /\ x.issue = m.issue
                 /\ \/ x.op = "merge" /\ x.branch = m.branch
                    \/ x.op = "merged" /\ (x.kind = "" => prs'[m.issue] = "merged")
    <2> DEFINE Right(x) == /\ Replace(c, m, {x}) /\ x.issue = m.issue
                           /\ \/ x.op = "merge" /\ x.branch = m.branch
                              \/ x.op = "merged" /\ (x.kind = "" => prs'[m.issue] = "merged")
               Again(k) == [m EXCEPT !.attempt = k]
               Done(kind) == [op |-> "merged", issue |-> m.issue, kind |-> kind]
    <2>1. ASSUME NEW k, Replace(c, m, {Again(k)}) PROVE Right(Again(k))
      BY <1>k, <2>1
    <2>2. ASSUME NEW kind, kind # "" \/ prs'[m.issue] = "merged", Replace(c, m, {Done(kind)})
          PROVE  Right(Done(kind))
      BY <2>2
    <2>3. \A kind \in {"permanent", "auth", "transient"} :
            \/ AfterFailure(m, kind) = Again(m.attempt + 1)
            \/ \E k \in {"permanent", "auth", "transient_exhausted"} :
                  AfterFailure(m, kind) = Done(k)
      BY DEF AfterFailure
    <2>4. /\ LookUpPR(c, m) =>
               \/ Replace(c, m, {Again(1)})
               \/ \E kind \in {"permanent", "auth"} : Replace(c, m, {Done(kind)})
          /\ TryMerge(c, m) =>
               \/ /\ PRByBranch(m.branch) = "open"
                  /\ prs' = [prs EXCEPT ![m.branch] = "merged"]
                  /\ \/ Replace(c, m, {Done("")})
                     \/ \E kind \in {"permanent", "transient"} :
                            Replace(c, m, {AfterFailure(m, kind)})
               \/ \E kind \in {"permanent", "auth", "transient"} :
                     Replace(c, m, {AfterFailure(m, kind)})
      BY DEF LookUpPR, TryMerge
    <2> HIDE DEF Right, Again, Done
    <2>5. ASSUME NEW kind \in {"permanent", "auth", "transient"},
                 Replace(c, m, {AfterFailure(m, kind)})
          PROVE  \E x : Right(x)
      BY <2>1, <2>2, <2>3, <2>5
    <2>6. ASSUME PRByBranch(m.branch) = "open", prs' = [prs EXCEPT ![m.branch] = "merged"]
          PROVE  prs'[m.issue] = "merged"
      BY <1>m, <2>6 DEF PRByBranch, TypeOK
    <2>7. \E x : Right(x)
      BY <2>1, <2>2, <2>4, <2>5, <2>6
    <2>. QED BY <2>7 DEF Right
  <1>2. MergesLast
    BY <1>m DEF LookUpPR, TryMerge, MergesLast, TypeOK, trackerVars
  <1>3. ItemOK(x)'
    BY <1>m, <1>1 DEF ItemOK, ItemOwn, TellsMerge
  <1>5. \A d \in Clients : \A o \in flight'[d] : o \in flight[d] \/ o \in {x}
    BY <1>1, StillOrNew
  <1>4. \A d \in Clients : \A o \in flight'[d] : o \in flight[d] \/ ItemOK(o)'
    BY <1>3, <1>5
  <1>. QED BY <1>u, <1>2, <1>4, SlotsSame, MergeStep DEF WorkKept, TypeOK

\* The cleanup of a slot removes and closes merged work only.
LEMMA CleanupKeeps ==
  ASSUME TypeOK, MergeInv, NEW c \in Clients, NEW m \in flight[c],
         RemoveWorktree(c, m) \/ CloseIssue(c, m)
  PROVE  MergeInv' /\ WorkKept
  <1>1. /\ m.issue \in Issues /\ prs[m.issue] = "merged"
        /\ m.op = "cleanup" => m.dir \in {m.issue, NoIssue}
    BY InFlightItem, ItemFields
    DEF RemoveWorktree, CloseIssue, Running, MergeInv, ItemOK, ItemOwn, TellsMerge
  <1>2. /\ UNCHANGED <<slots, prs>> /\ MergesLast /\ closed' \subseteq Issues
        /\ closed' \ closed \subseteq {m.issue}
    BY <1>1 DEF RemoveWorktree, CloseIssue, loopVars, trackerVars, MergesLast, TypeOK
  <1>3. \A i \in wts \ wts' : prs[i] = "merged"
    BY <1>1, LoopAssumption DEF RemoveWorktree, CloseIssue, Running, NoIssue, TypeOK
  <1>4. PICK x : Replace(c, m, {x}) /\ x.issue = m.issue /\ x.op \in {"close", "cleaned"}
    <2>1. CASE RemoveWorktree(c, m)
      <3> DEFINE x == [op |-> "close", issue |-> m.issue]
      <3>1. Replace(c, m, {x}) /\ x.issue = m.issue /\ x.op = "close"
        BY <2>1 DEF RemoveWorktree, IssueCmd
      <3> HIDE DEF x
      <3>. QED BY <3>1
    <2>2. CASE CloseIssue(c, m)
      <3> DEFINE x == [op |-> "cleaned", issue |-> m.issue]
      <3>1. Replace(c, m, {x}) /\ x.issue = m.issue /\ x.op = "cleaned"
        BY <2>2 DEF CloseIssue
      <3> HIDE DEF x
      <3>. QED BY <3>1
    <2>. QED BY <2>1, <2>2
  <1>5. ItemOK(x)'
    BY <1>1, <1>2, <1>4 DEF ItemOK, ItemOwn, TellsMerge
  <1>6. \A d \in Clients : \A o \in flight'[d] : o \in flight[d] \/ ItemOK(o)'
    BY <1>4, <1>5, StillOrNew
  <1>. QED BY <1>1, <1>2, <1>3, <1>6, SlotsSame, MergeStep DEF WorkKept

\* Every command keeps the invariant and the work.
LEMMA CommandKeeps ==
  ASSUME TypeOK, MergeInv, NEW c \in Clients, NEW m \in flight[c], RunCommand(c, m)
  PROVE  MergeInv' /\ WorkKept
  BY ReadsKeep, CleanupMergedKeeps, CreateKeeps, PollPRKeeps, MergeKeeps, CleanupKeeps
  DEF RunCommand

-----------------------------------------------------------------------------
(* The handlers change neither the tracker nor the repository.              *)

\* What a handler has to show.
LEMMA HandlerStep ==
  ASSUME TypeOK, MergeInv, UNCHANGED <<closed, prs, wts>>,
         \A i \in Issues : SlotOwn(i)',
         NEW c \in Clients, NEW m, NEW new, Replace(c, m, new), \A x \in new : ItemOK(x)'
  PROVE  MergeInv' /\ WorkKept
  <1>1. \A d \in Clients : \A o \in flight'[d] : o \in flight[d] \/ ItemOK(o)'
    BY StillOrNew
  <1>. QED BY <1>1, MergeStep DEF WorkKept, MergesLast, TypeOK

\* A handler that moves one slot from state to state.
LEMMA MoveStep ==
  ASSUME TypeOK, MergeInv, HandlerFrame, NEW i \in Issues, NEW st, slots' = Moved(i, st),
         NEW c \in Clients, NEW m, NEW new, Replace(c, m, new), \A x \in new : ItemOK(x)'
  PROVE  MergeInv' /\ WorkKept
  BY MovedOwn, HandlerStep DEF HandlerFrame, trackerVars

\* An early return keeps the invariant.
LEMMA IgnoredKeeps ==
  ASSUME TypeOK, MergeInv, HandlerFrame, NEW c \in Clients, NEW m, Ignored(c, m)
  PROVE  MergeInv' /\ WorkKept
  BY SlotsSame, HandlerStep DEF Ignored, HandlerFrame, trackerVars

\* So do the answers to the label check.
LEMMA StartKeeps ==
  ASSUME TypeOK, MergeInv, NEW c \in Clients, NEW m \in flight[c],
         HandleLabelCheck(c, m) \/ HandleLabelsEnsured(c, m)
  PROVE  MergeInv' /\ WorkKept
  <1> USE DEF loopVars, trackerVars
  <1>1. UNCHANGED <<closed, prs, wts>>
    BY DEF HandleLabelCheck, HandleLabelsEnsured, ExecutePendingOp
  <1>2. \A i \in Issues : SlotOwn(i)'
    BY SlotsSame DEF HandleLabelCheck, HandleLabelsEnsured, ExecutePendingOp, SlotOwn, NoSlot
  <1>3. PICK new : Replace(c, m, new) /\ \A x \in new : x.op \in PlainOp
    <2>1. \A x \in {Cmd("cleanupMerged"), Cmd("scanPRs"), Cmd("poll")} : x.op \in PlainOp
      BY DEF Cmd, PlainOp, CommandOp
    <2>2. \/ Replace(c, m, {})
          \/ Replace(c, m, {Cmd("cleanupMerged"), Cmd("scanPRs"), Cmd("poll")})
      BY DEF HandleLabelCheck, HandleLabelsEnsured, ExecutePendingOp
    <2>. QED BY <2>1, <2>2
  <1>4. \A x \in new : ItemOK(x)'
    BY <1>3, PlainOK
  <1>. QED BY <1>1, <1>2, <1>3, <1>4, HandlerStep

\* So does the answer of the todo poll.
LEMMA PolledKeeps ==
  ASSUME OwnBranches, TypeOK, MergeInv, NEW c \in Clients, NEW m \in flight[c],
         HandlePolled(c, m)
  PROVE  MergeInv' /\ WorkKept
  <1>0. HandlerFrame
    BY DEF HandlePolled
  <1>1. CASE Ignored(c, m)
    BY <1>0, <1>1, IgnoredKeeps
  <1>2. CASE ~Ignored(c, m)
    <2>w. PICK listed \in BOOLEAN : TakeTodo(c, m, listed)
      BY <1>2 DEF HandlePolled
    <2> DEFINE new      == Admitted(m.todo)
               leftover == {i \in new : listed /\ MatchingWorktrees(i) # {}}
               fresh    == new \ leftover
               made     == {[op |-> "create", issue |-> i,
                             after |-> {j \in fresh : j > i}] : i \in fresh}
    <2>1. PICK found \in [leftover -> wts] :
            /\ \A i \in leftover : found[i] \in MatchingWorktrees(i)
            /\ slots' = [i \in Issues |-> IF i \in leftover THEN ResumedSlot(found[i])
                                          ELSE IF i \in fresh THEN FreshSlot
                                          ELSE slots[i]]
      BY <2>w DEF TakeTodo
    <2>2. Replace(c, m, made)
      BY <2>w DEF TakeTodo
    <2>3. \A x \in made : x.op \in PlainOp
      BY DEF PlainOp, CommandOp
    <2>4. ASSUME NEW i \in Issues PROVE SlotOwn(i)'
      <3>1. CASE i \in leftover
        <4>1. <<found[i], i>> \in Contains /\ found[i] \in Issues
          BY <2>1, <3>1 DEF MatchingWorktrees, TypeOK
        <4>2. found[i] = i
          BY <4>1 DEF OwnBranches
        <4>3. slots'[i] = ResumedSlot(i)
          BY <2>1, <3>1, <4>2
        <4>. QED BY <4>3 DEF SlotOwn, ResumedSlot
      <3>2. CASE i \in fresh
        <4>1. slots'[i] = FreshSlot
          BY <2>1, <3>2
        <4>. QED BY <4>1 DEF SlotOwn, FreshSlot, NoSlot
      <3>3. CASE i \notin leftover /\ i \notin fresh
        <4>1. slots'[i] = slots[i]
          BY <2>1, <3>3
        <4>. QED BY <4>1 DEF SlotOwn, MergeInv
      <3>. QED BY <3>1, <3>2, <3>3
    <2> HIDE DEF made
    <2>. QED BY <1>0, <2>2, <2>3, <2>4, PlainOK, HandlerStep DEF HandlerFrame, trackerVars
  <1>. QED BY <1>1, <1>2

\* So does the answer of the open-PR scan.
LEMMA OpenPRsKeeps ==
  ASSUME TypeOK, MergeInv, NEW c \in Clients, NEW m \in flight[c], HandleOpenPRs(c, m)
  PROVE  MergeInv' /\ WorkKept
  <1>0. HandlerFrame
    BY DEF HandleOpenPRs
  <1>1. CASE Ignored(c, m)
    BY <1>0, <1>1, IgnoredKeeps
  <1>2. CASE ~Ignored(c, m)
    <2>w. PICK listed \in BOOLEAN : TakeOpenPRs(c, m, listed)
      BY <1>2 DEF HandleOpenPRs
    <2> DEFINE new == {i \in m.prs : ~HasSlot(i)}
               taken(s) == {i \in new : ResumeState(m.labels[i]) = s}
               cmds == {IssueCmd("write", i) : i \in taken("WritingAgent")} \cup
                       {[op |-> "launch", issue |-> i, role |-> "reviewer",
                         dir |-> PRSlot(i, m.labels[i], listed).wt] : i \in taken("LaunchingReviewer")}
    <2>1. slots' = [i \in Issues |-> IF i \in new THEN PRSlot(i, m.labels[i], listed)
                                              ELSE slots[i]]
      BY <2>w DEF TakeOpenPRs
    <2>2. Replace(c, m, cmds)
      BY <2>w DEF TakeOpenPRs
    <2>3. \A x \in cmds : x.op \in PlainOp
      BY DEF IssueCmd, PlainOp, CommandOp
    <2>4. ASSUME NEW i \in Issues PROVE SlotOwn(i)'
      <3> HIDE DEF new
      <3>1. slots'[i] = slots[i] \/ slots'[i] = PRSlot(i, m.labels[i], listed)
        BY <2>1
      <3>. QED BY <3>1 DEF SlotOwn, PRSlot, MergeInv
    <2> HIDE DEF cmds
    <2>. QED BY <1>0, <2>2, <2>3, <2>4, PlainOK, HandlerStep DEF HandlerFrame, trackerVars
  <1>. QED BY <1>1, <1>2

\* So do the handlers that work on one issue's slot.
LEMMA SlotHandlerKeeps ==
  ASSUME TypeOK, MergeInv, NEW c \in Clients, NEW m \in flight[c],
         \/ HandleCreated(c, m) \/ HandleWritten(c, m) \/ HandleLaunched(c, m)
         \/ HandlePRStatus(c, m) \/ HandleMerged(c, m) \/ HandleCleaned(c, m)
  PROVE  MergeInv' /\ WorkKept
  <1>h. HandlerFrame /\ m.issue \in Issues
    BY InFlightItem, ItemFields DEF HandleCreated, HandleWritten, HandleLaunched,
       HandlePRStatus, HandleMerged, HandleCleaned, Delivered
  <1>i. CASE Ignored(c, m)
    BY <1>h, <1>i, IgnoredKeeps
  <1>n. ASSUME ~Ignored(c, m) PROVE MergeInv' /\ WorkKept
    <2>p. ItemOK(IssueCmd("write", m.issue))'
      BY PlainOK DEF IssueCmd, PlainOp, CommandOp
    <2>1. CASE HandleCreated(c, m)
      <3>1. CASE slots' = Moved(m.issue, "Error") /\ Replace(c, m, {})
        BY <1>h, <3>1, MoveStep
      <3>2. CASE /\ slots' = [slots EXCEPT ![m.issue] =
                        [@ EXCEPT !.state = "WritingAgent", !.branch = m.issue, !.wt = m.issue]]
                 /\ Replace(c, m, {IssueCmd("write", m.issue)})
        <4>1. \A i \in Issues : SlotOwn(i)'
          BY <1>h, <3>2 DEF SlotOwn, MergeInv, TypeOK, Slot
        <4>. QED BY <1>h, <2>p, <3>2, <4>1, HandlerStep DEF HandlerFrame, trackerVars
      <3>. QED BY <1>n, <2>1, <3>1, <3>2 DEF HandleCreated
    <2>2. CASE HandleWritten(c, m)
      <3>1. ItemOK(LaunchCmd(m.issue, "coder")) /\ LaunchCmd(m.issue, "coder").op = "launch"
        BY DEF LaunchCmd, ItemOK, ItemOwn, TellsMerge
      <3>2. PICK x : x = LaunchCmd(m.issue, "coder")
        OBVIOUS
      <3>3. ItemOK(x)'
        BY <3>1, <3>2, PlainOK DEF PlainOp, CommandOp
      <3>. QED BY <1>h, <1>n, <2>2, <3>2, <3>3, MoveStep DEF HandleWritten
    <2>3. CASE HandleLaunched(c, m)
      BY <1>h, <1>n, <2>3, MoveStep DEF HandleLaunched
    <2>4. CASE HandlePRStatus(c, m) \/ HandleMerged(c, m)
      <3>1. CASE \E st : slots' = Moved(m.issue, st) /\ Replace(c, m, {})
        BY <1>h, <3>1, MoveStep
      <3>2. CASE /\ slots' = Moved(m.issue, "CleaningUp") /\ Replace(c, m, {CleanupCmd(m.issue)})
                 /\ TellsMerge(m)
        <4>1. PICK x : x = CleanupCmd(m.issue)
          OBVIOUS
        <4>2. prs[m.issue] = "merged"
          BY <3>2 DEF MergeInv, ItemOK
        <4>3. /\ x.op = "cleanup" /\ x.issue = m.issue /\ x.dir \in {m.issue, NoIssue}
          BY <1>h, <4>1 DEF CleanupCmd, MergeInv, SlotOwn
        <4>4. ItemOK(x)'
          BY <1>h, <4>2, <4>3 DEF ItemOK, ItemOwn, TellsMerge, HandlerFrame, trackerVars
        <4>. QED BY <1>h, <3>2, <4>1, <4>4, MoveStep
      <3>. QED BY <1>n, <2>4, <3>1, <3>2 DEF HandlePRStatus, HandleMerged, TellsMerge, Delivered
    <2>5. CASE HandleCleaned(c, m)
      <3>1. \A i \in Issues : SlotOwn(i)'
        BY <1>h, <2>5 DEF HandleCleaned, SlotOwn, MergeInv, TypeOK, NoSlot
      <3>. QED BY <1>h, <2>5, <3>1, HandlerStep DEF HandleCleaned, HandlerFrame, trackerVars
    <2>. QED BY <2>1, <2>2, <2>3, <2>4, <2>5
  <1>. QED BY <1>i, <1>n

\* So does the answer of a label poll.
LEMMA LabelsKeeps ==
  ASSUME TypeOK, MergeInv, NEW c \in Clients, NEW m \in flight[c], HandleLabels(c, m)
  PROVE  MergeInv' /\ WorkKept
  <1>h. HandlerFrame /\ m.issue \in Issues
    BY InFlightItem, ItemFields DEF HandleLabels, Delivered
  <1>i. CASE Ignored(c, m)
    BY <1>h, <1>i, IgnoredKeeps
  <1>1. CASE ReviewRequested(c, m)
    <2>1. PICK x : x = LaunchCmd(m.issue, "reviewer")
      OBVIOUS
    <2>2. x.op = "launch"
      BY <2>1 DEF LaunchCmd
    <2>3. ItemOK(x)'
      BY <2>2, PlainOK DEF PlainOp, CommandOp
    <2>. QED BY <1>h, <1>1, <2>1, <2>3, MoveStep DEF ReviewRequested
  <1>2. CASE ReviewPassed(c, m)
    <2>0. PICK x : x = MergeCmd(m.issue)
      OBVIOUS
    <2>1. x = MergeCmd(m.issue) /\ x.op = "merge" /\ x.issue = m.issue
          /\ x.branch = slots[m.issue].branch
      BY <2>0 DEF MergeCmd
    <2>2. ItemOK(x)'
      BY <1>h, <2>1 DEF ItemOK, ItemOwn, TellsMerge, MergeInv, SlotOwn
    <2>3. \/ slots' = Moved(m.issue, "AutoMerging") /\ Replace(c, m, {x})
          \/ slots' = Moved(m.issue, "WaitingPRMerge") /\ Replace(c, m, {})
      BY <1>2, <2>1 DEF ReviewPassed
    <2>. QED BY <1>h, <2>2, <2>3, MoveStep
  <1>3. CASE ChangesNeeded(c, m)
    <2>1. CASE slots' = Moved(m.issue, "NeedsHuman") /\ Replace(c, m, {})
      BY <1>h, <2>1, MoveStep
    <2>2. CASE /\ slots' = [slots EXCEPT ![m.issue] = NextRound(@)]
               /\ Replace(c, m, {IssueCmd("write", m.issue)})
      <3>1. \A i \in Issues : SlotOwn(i)'
        BY <1>h, <2>2 DEF SlotOwn, MergeInv, TypeOK, Slot, NextRound
      <3>2. ItemOK(IssueCmd("write", m.issue))'
        BY PlainOK DEF IssueCmd, PlainOp, CommandOp
      <3>. QED BY <1>h, <2>2, <3>1, <3>2, HandlerStep DEF HandlerFrame, trackerVars
    <2>. QED BY <1>3, <2>1, <2>2 DEF ChangesNeeded
  <1>. QED BY <1>i, <1>1, <1>2, <1>3 DEF HandleLabels

\* Every handler keeps the invariant and the work.
LEMMA HandleKeeps ==
  ASSUME OwnBranches, TypeOK, MergeInv, NEW c \in Clients, NEW m \in flight[c],
         HandleMessage(c, m)
  PROVE  MergeInv' /\ WorkKept
  BY StartKeeps, PolledKeeps, OpenPRsKeeps, SlotHandlerKeeps, LabelsKeeps DEF HandleMessage

-----------------------------------------------------------------------------
(* The rest: nobody else closes, removes, or changes a slot's names.        *)

\* A step that may add pollPR requests of its slot, and drops what it likes.
LEMMA TickKeeps ==
  ASSUME TypeOK, MergeInv, NEW c \in Clients,
         \/ PollTick(c) \/ DropPollTick(c)
         \/ \E i \in Issues : \/ LabelTick(c, i) \/ PRTick(c, i)
                              \/ DropLabelTick(c, i) \/ DropPRTick(c, i)
  PROVE  MergeInv' /\ WorkKept
  <1>1. UNCHANGED <<slots, closed, prs, wts>>
    BY DEF PollTick, LabelTick, PRTick, TickFrame, DropPollTick, DropLabelTick, DropPRTick,
       DropFrame, loopVars, trackerVars
  <1>2. ASSUME NEW x, ItemOK(x)', flight' = [flight EXCEPT ![c] = @ \cup {x}]
        PROVE  MergeInv' /\ WorkKept
    <2>1. \A d \in Clients : \A o \in flight'[d] : o \in flight[d] \/ ItemOK(o)'
      BY <1>2 DEF TypeOK
    <2>. QED BY <1>1, <2>1, SlotsSame, MergeStep DEF WorkKept, MergesLast, TypeOK
  <1>3. CASE UNCHANGED flight
    BY <1>1, <1>3, SlotsSame, MergeStep DEF WorkKept, MergesLast, TypeOK
  <1>4. CASE PollTick(c) /\ ~UNCHANGED flight
    <2>1. ItemOK(Cmd("poll"))'
      BY PlainOK DEF Cmd, PlainOp, CommandOp
    <2>. QED BY <1>2, <1>4, <2>1 DEF PollTick, Request
  <1>5. ASSUME NEW i \in Issues, LabelTick(c, i), ~UNCHANGED flight PROVE MergeInv' /\ WorkKept
    <2>1. ItemOK(IssueCmd("pollLabels", i))'
      BY PlainOK DEF IssueCmd, PlainOp, CommandOp
    <2>. QED BY <1>2, <1>5, <2>1 DEF LabelTick, Request
  <1>6. ASSUME NEW i \in Issues, PRTick(c, i), ~UNCHANGED flight PROVE MergeInv' /\ WorkKept
    <2>1. PICK x : x = PollPRCmd(i)
      OBVIOUS
    <2>2. x.op = "pollPR" /\ x.issue = i /\ x.branch \in {i, NoIssue}
      BY <2>1 DEF PollPRCmd, MergeInv, SlotOwn
    <2>3. ItemOK(x)'
      BY <2>2 DEF ItemOK, ItemOwn, TellsMerge
    <2>. QED BY <1>2, <1>6, <2>1, <2>3 DEF PRTick, Request
  <1>. QED BY <1>3, <1>4, <1>5, <1>6 DEF DropPollTick, DropLabelTick, DropPRTick

\* So do the user's keys and dialogs.
LEMMA UserKeeps ==
  ASSUME TypeOK, MergeInv, NEW c \in Clients, UserActs(c)
  PROVE  MergeInv' /\ WorkKept
  <1> USE DEF loopVars, trackerVars
  <1>1. UNCHANGED <<closed, prs, wts>>
    BY DEF UserActs, StopLoop, PressStart, ConfirmLabels, ShowOverlay, DismissOverlay,
       RemoteQuit
  <1>2. \A i \in Issues : SlotOwn(i)'
    BY SlotsSame DEF UserActs, StopLoop, PressStart, ConfirmLabels, ShowOverlay,
       DismissOverlay, RemoteQuit, SlotOwn, NoSlot
  <1>3. \A d \in Clients : \A o \in flight'[d] :
          o \in flight[d] \/ o \in {Cmd("labelCheck"), Cmd("ensureLabels")}
    BY DEF UserActs, StopLoop, PressStart, ConfirmLabels, ShowOverlay, DismissOverlay,
       RemoteQuit, TypeOK
  <1>4. ItemOK(Cmd("labelCheck"))' /\ ItemOK(Cmd("ensureLabels"))'
    BY PlainOK DEF Cmd, PlainOp, CommandOp
  <1>5. \A d \in Clients : \A o \in flight'[d] : o \in flight[d] \/ ItemOK(o)'
    BY <1>3, <1>4
  <1>. QED BY <1>1, <1>2, <1>5, MergeStep DEF WorkKept, MergesLast, TypeOK

\* So do the restart, the agents and the people.
LEMMA WorldKeeps ==
  ASSUME TypeOK, MergeInv,
         \/ ProcessRestart
         \/ \E c \in Clients : \E m \in flight[c] : DropMessage(c, m)
         \/ \E a \in agents : AgentActs(a)
         \/ \E i \in Issues : HumanActs(i)
  PROVE  MergeInv' /\ WorkKept
  <1>1. UNCHANGED <<closed, wts>>
    BY DEF ProcessRestart, DropMessage, DropFrame, AgentActs, CoderBegins, CoderOpensPR,
       CoderFinishes, ReviewerPasses, ReviewerRejects, AgentDies, AgentFrame, HumanActs,
       HumanConfirms, HumanMerges, HumanClosesPR, trackerVars
  <1>2. MergesLast
    BY DEF MergesLast, ProcessRestart, DropMessage, DropFrame, AgentActs, CoderBegins,
       CoderOpensPR, CoderFinishes, ReviewerPasses, ReviewerRejects, AgentDies, HumanActs,
       HumanConfirms, HumanMerges, HumanClosesPR, trackerVars, TypeOK
  <1>3. \A i \in Issues : SlotOwn(i)'
    BY SlotsSame DEF ProcessRestart, SlotOwn, NoSlot, DropMessage, DropFrame, AgentActs,
       CoderBegins, CoderOpensPR, CoderFinishes, ReviewerPasses, ReviewerRejects, AgentDies,
       AgentFrame, HumanActs, HumanConfirms, HumanMerges, HumanClosesPR, loopVars
  <1>4. \A d \in Clients : \A o \in flight'[d] : o \in flight[d]
    BY StillOrNew DEF ProcessRestart, DropMessage, AgentActs, CoderBegins, CoderOpensPR,
       CoderFinishes, ReviewerPasses, ReviewerRejects, AgentDies, AgentFrame, HumanActs,
       HumanConfirms, HumanMerges, HumanClosesPR
  <1>. QED BY <1>1, <1>2, <1>3, <1>4, MergeStep DEF WorkKept, TypeOK

-----------------------------------------------------------------------------
\* Every step keeps the invariant and the work.
LEMMA MergeInductive ==
  ASSUME OwnBranches, TypeOK, MergeInv, [Next]_vars
  PROVE  MergeInv' /\ WorkKept
  <1>1. CASE UNCHANGED vars
    BY <1>1, SlotsSame, MergeStep DEF vars, loopVars, trackerVars, WorkKept, MergesLast, TypeOK
  <1>2. CASE Next
    BY <1>2, CommandKeeps, HandleKeeps, TickKeeps, UserKeeps, WorldKeeps DEF Next
  <1>. QED BY <1>1, <1>2

\* A branch and its worktree are removed, and an issue is closed, only once the
\* issue's pull request is merged.
THEOREM WorkSafe == OwnBranches => (Spec => WorkKeptUntilMerged)
  <1> SUFFICES ASSUME OwnBranches PROVE Spec => WorkKeptUntilMerged
    OBVIOUS
  <1>1. Init => MergeInv
    BY DEF Init, MergeInv, SlotOwn, NoSlot
  <1>2. TypeOK /\ MergeInv /\ [Next]_vars => MergeInv' /\ WorkKept
    BY MergeInductive
  <1>3. TypeOK /\ MergeInv /\ [Next]_vars =>
          [\A i \in Issues : i \in (wts \ wts') \cup (closed' \ closed) => prs[i] = "merged"]_vars
    BY <1>2 DEF WorkKept
  <1>. QED BY <1>1, <1>2, <1>3, TypeCorrect, PTL DEF Spec, WorkKeptUntilMerged

-----------------------------------------------------------------------------
(***************************************************************************)
(* DependenciesMerged, wherever every pull request of the project is opened *)
(* by an agent this loop started.  ReadyInv follows the evidence that the   *)
(* dependencies of an issue are closed from the poll that found them so to  *)
(* the slot, the launch, the agent and its pull request; MergeInv adds that *)
(* what is closed is merged.                                                *)
(***************************************************************************)

Ready(i) == Deps[i] \subseteq closed

ItemReady(m) ==
    /\ m.op = "polled"  => \A i \in m.todo : Ready(i)
    /\ m.op = "openPRs" => \A i \in m.prs : Ready(i)
    /\ m.op = "launch"  => Ready(m.issue)

ReadyInv ==
    /\ \A i \in Issues : HasSlot(i) => Ready(i)
    /\ \A i \in Issues : prs[i] # "none" => Ready(i)
    /\ \A a \in agents : Ready(a.issue)
    /\ \A c \in Clients : \A m \in flight[c] : ItemReady(m)

-----------------------------------------------------------------------------
\* What a step has to show: new slots, PRs, agents and items only for ready issues.
LEMMA ReadyStep ==
  ASSUME ReadyInv, closed \subseteq closed',
         \A i \in Issues : HasSlot(i)' => HasSlot(i) \/ Ready(i),
         \A i \in Issues : prs'[i] # "none" => Ready(i),
         \A a \in agents' : Ready(a.issue),
         \A d \in Clients : \A o \in flight'[d] : o \in flight[d] \/ ItemReady(o)
  PROVE  ReadyInv'
  <1>1. \A i : Ready(i) => Ready(i)'
    BY DEF Ready
  <1>2. ASSUME NEW o, ItemReady(o) PROVE ItemReady(o)'
    BY <1>1, <1>2 DEF ItemReady
  <1>3. \A d \in Clients : \A o \in flight'[d] : ItemReady(o)'
    BY <1>2 DEF ReadyInv
  <1>4. \A i \in Issues : HasSlot(i)' => Ready(i)'
    BY <1>1 DEF ReadyInv
  <1>. QED BY <1>1, <1>3, <1>4 DEF ReadyInv

\* A step of the loop: no agent starts and no pull request opens.
LEMMA LoopReady ==
  ASSUME TypeOK, ReadyInv, closed \subseteq closed', UNCHANGED <<prs, agents>>,
         \A i \in Issues : HasSlot(i)' => HasSlot(i) \/ Ready(i),
         \A d \in Clients : \A o \in flight'[d] : o \in flight[d] \/ ItemReady(o)
  PROVE  ReadyInv'
  BY ReadyStep DEF ReadyInv

OtherOp == (CommandOp \cup {"labelChecked", "labelsEnsured", "created", "written", "launched",
                            "labels", "prStatus", "merged", "cleaned"}) \ {"launch"}

\* An item of another kind carries no issue on its way.
LEMMA OtherReady == \A o : o.op \in OtherOp => ItemReady(o)
  BY DEF OtherOp, CommandOp, ItemReady

-----------------------------------------------------------------------------
(* The commands. *)

\* Every command keeps the invariant.
LEMMA CommandReady ==
  ASSUME TypeOK, ReadyInv, NEW c \in Clients, NEW m \in flight[c], RunCommand(c, m)
  PROVE  ReadyInv'
  <1> USE DEF loopVars, trackerVars, agentVars
  <1>u. /\ UNCHANGED slots /\ closed \subseteq closed'
        /\ UNCHANGED agents \/ LaunchAgent(c, m)
        /\ UNCHANGED prs \/ TryMerge(c, m)
    BY DEF RunCommand, CheckLabels, EnsureLabels, PollTodo, ScanOpenPRs, CleanupMerged,
       CreateWorktree, WriteAgent, PollLabels, PollPR, LookUpPR, TryMerge, RemoveWorktree,
       CloseIssue, LaunchAgent, Answers
  <1>s. \A i \in Issues : HasSlot(i)' => HasSlot(i)
    BY <1>u DEF HasSlot
  <1>x. ASSUME NEW x, Replace(c, m, {x}), ItemReady(x)
        PROVE  \A d \in Clients : \A o \in flight'[d] : o \in flight[d] \/ ItemReady(o)
    BY <1>x, StillOrNew
  <1>0. CASE Replace(c, m, {}) /\ UNCHANGED <<agents, prs>>
    BY <1>0, <1>u, <1>s, StillOrNew, LoopReady
  <1>1. ASSUME NEW ok \in BOOLEAN, NEW unread \in SUBSET Issues, PollTodo(c, m, ok, unread)
        PROVE  ReadyInv'
    <2>1. PICK x : x = [op |-> "polled", issue |-> NoIssue, ok |-> ok,
                        todo |-> IF ok THEN {i \in Issues : IsTodo(i) /\ DependenciesDone(i)} \ unread
                                       ELSE {}]
      OBVIOUS
    <2>2. Replace(c, m, {x}) /\ UNCHANGED <<agents, prs>>
      BY <1>1, <2>1 DEF PollTodo, Answers
    <2>3. ItemReady(x)
      BY <2>1 DEF ItemReady, Ready, DependenciesDone
    <2>. QED BY <1>u, <1>s, <1>x, <2>2, <2>3, LoopReady
  <1>2. CASE ScanOpenPRs(c, m)
    <2>1. PICK ok, ls :
            Answers(c, m, [op |-> "openPRs", issue |-> NoIssue, ok |-> ok,
                           prs |-> {i \in Issues : ok /\ prs[i] = "open"}, labels |-> ls])
      BY <1>2 DEF ScanOpenPRs
    <2>2. PICK x : x = [op |-> "openPRs", issue |-> NoIssue, ok |-> ok,
                        prs |-> {i \in Issues : ok /\ prs[i] = "open"}, labels |-> ls]
      OBVIOUS
    <2>3. Replace(c, m, {x}) /\ UNCHANGED <<agents, prs>>
      BY <2>1, <2>2 DEF Answers
    <2>4. ItemReady(x)
      BY <2>2 DEF ItemReady, ReadyInv
    <2>. QED BY <1>u, <1>s, <1>x, <2>3, <2>4, LoopReady
  <1>3. CASE LaunchAgent(c, m)
    <2>1. Ready(m.issue)
      BY <1>3 DEF LaunchAgent, Running, ReadyInv, ItemReady
    <2>2. \A a \in agents' : Ready(a.issue)
      BY <1>3, <2>1 DEF LaunchAgent, ReadyInv
    <2>3. PICK ok : Replace(c, m, {[op |-> "launched", issue |-> m.issue, role |-> m.role,
                                    ok |-> ok]})
      BY <1>3 DEF LaunchAgent
    <2>4. ItemReady([op |-> "launched", issue |-> m.issue, role |-> m.role, ok |-> ok])
      BY DEF ItemReady
    <2>5. UNCHANGED prs
      BY <1>3 DEF LaunchAgent
    <2>. QED BY <1>u, <1>s, <1>x, <2>2, <2>3, <2>4, <2>5, ReadyStep DEF ReadyInv
  <1>4. CASE TryMerge(c, m) \/ LookUpPR(c, m)
    <2>1. m \in Item /\ m.op = "merge"
      BY <1>4, InFlightItem DEF TryMerge, LookUpPR, Running
    <2>2. \A k : [m EXCEPT !.attempt = k].op = "merge"
      BY <2>1 DEF Item, Command, Message
    <2>3. ASSUME NEW kind PROVE ItemReady(AfterFailure(m, kind))
      BY <2>2 DEF AfterFailure, ItemReady
    <2>4. /\ \A kind : ItemReady([op |-> "merged", issue |-> m.issue, kind |-> kind])
          /\ \A k : ItemReady([m EXCEPT !.attempt = k])
      BY <2>2 DEF ItemReady
    <2>5. \A d \in Clients : \A o \in flight'[d] : o \in flight[d] \/ ItemReady(o)
      BY <1>4, <1>x, <2>3, <2>4 DEF TryMerge, LookUpPR
    <2>6. \A i \in Issues : prs'[i] # "none" => prs[i] # "none"
      BY <1>4 DEF TryMerge, LookUpPR, PRByBranch, TypeOK
    <2>7. UNCHANGED agents
      BY <1>4 DEF TryMerge, LookUpPR
    <2>. QED BY <1>u, <1>s, <2>5, <2>6, <2>7, ReadyStep DEF ReadyInv
  <1>5. CASE \/ CheckLabels(c, m) \/ EnsureLabels(c, m) \/ CreateWorktree(c, m)
             \/ WriteAgent(c, m) \/ RemoveWorktree(c, m) \/ CloseIssue(c, m)
             \/ \E ok \in BOOLEAN : PollLabels(c, m, ok) \/ PollPR(c, m, ok)
    <2>1. UNCHANGED <<agents, prs>>
      BY <1>5 DEF CheckLabels, EnsureLabels, CreateWorktree, WriteAgent, RemoveWorktree,
         CloseIssue, PollLabels, PollPR, Answers
    <2>2. \A d \in Clients : \A o \in flight'[d] : o \in flight[d] \/ o.op \in OtherOp
      <3>x. ASSUME NEW x, Replace(c, m, {x}), x.op \in OtherOp
            PROVE  \A d \in Clients : \A o \in flight'[d] : o \in flight[d] \/ o.op \in OtherOp
        BY <3>x, StillOrNew
      <3>1. CASE CheckLabels(c, m)
        <4>1. PICK r : Replace(c, m, {[op |-> "labelChecked", issue |-> NoIssue, res |-> r]})
          BY <3>1 DEF CheckLabels, Answers
        <4>2. [op |-> "labelChecked", issue |-> NoIssue, res |-> r].op \in OtherOp
          BY DEF OtherOp, CommandOp
        <4>. QED BY <3>x, <4>1, <4>2
      <3>2. CASE EnsureLabels(c, m)
        <4>1. PICK r : Replace(c, m, {[op |-> "labelsEnsured", issue |-> NoIssue, ok |-> r]})
          BY <3>2 DEF EnsureLabels, Answers
        <4>2. [op |-> "labelsEnsured", issue |-> NoIssue, ok |-> r].op \in OtherOp
          BY DEF OtherOp, CommandOp
        <4>. QED BY <3>x, <4>1, <4>2
      <3>3. CASE CreateWorktree(c, m)
        <4>1. PICK r : Replace(c, m, {[op |-> "created", issue |-> m.issue, ok |-> r]})
          BY <3>3 DEF CreateWorktree
        <4>2. [op |-> "created", issue |-> m.issue, ok |-> r].op \in OtherOp
          BY DEF OtherOp, CommandOp
        <4>. QED BY <3>x, <4>1, <4>2
      <3>4. CASE WriteAgent(c, m)
        <4>1. PICK r : Replace(c, m, {[op |-> "written", issue |-> m.issue, ok |-> r]})
          BY <3>4 DEF WriteAgent, Answers
        <4>2. [op |-> "written", issue |-> m.issue, ok |-> r].op \in OtherOp
          BY DEF OtherOp, CommandOp
        <4>. QED BY <3>x, <4>1, <4>2
      <3>5. CASE RemoveWorktree(c, m)
        <4>1. Replace(c, m, {[op |-> "close", issue |-> m.issue]})
          BY <3>5 DEF RemoveWorktree, IssueCmd
        <4>2. [op |-> "close", issue |-> m.issue].op \in OtherOp
          BY DEF OtherOp, CommandOp
        <4>. QED BY <3>x, <4>1, <4>2
      <3>6. CASE CloseIssue(c, m)
        <4>1. Replace(c, m, {[op |-> "cleaned", issue |-> m.issue]})
          BY <3>6 DEF CloseIssue
        <4>2. [op |-> "cleaned", issue |-> m.issue].op \in OtherOp
          BY DEF OtherOp, CommandOp
        <4>. QED BY <3>x, <4>1, <4>2
      <3>7. ASSUME NEW ok, PollLabels(c, m, ok) \/ PollPR(c, m, ok)
            PROVE  \A d \in Clients : \A o \in flight'[d] : o \in flight[d] \/ o.op \in OtherOp
        <4>1. \E l : \/ Replace(c, m, {[op |-> "labels", issue |-> m.issue, ok |-> ok, labels |-> l]})
                     \/ Replace(c, m, {[op |-> "prStatus", issue |-> m.issue, ok |-> ok, pr |-> l]})
          BY <3>7 DEF PollLabels, PollPR, Answers
        <4>2. \A l : /\ [op |-> "labels", issue |-> m.issue, ok |-> ok, labels |-> l].op \in OtherOp
                     /\ [op |-> "prStatus", issue |-> m.issue, ok |-> ok, pr |-> l].op \in OtherOp
          BY DEF OtherOp, CommandOp
        <4>. QED BY <3>x, <4>1, <4>2
      <3>. QED BY <1>5, <3>1, <3>2, <3>3, <3>4, <3>5, <3>6, <3>7
    <2>3. \A d \in Clients : \A o \in flight'[d] : o \in flight[d] \/ ItemReady(o)
      BY <2>2, OtherReady
    <2>. QED BY <1>u, <1>s, <2>1, <2>3, LoopReady
  <1>6. CASE CleanupMerged(c, m)
    BY <1>0, <1>6 DEF CleanupMerged
  <1>. QED BY <1>1, <1>2, <1>3, <1>4, <1>5, <1>6 DEF RunCommand

-----------------------------------------------------------------------------
(* The handlers. *)

\* A handler that gives no new issue a slot.
LEMMA HandlerReady ==
  ASSUME TypeOK, ReadyInv, UNCHANGED <<closed, prs, agents>>,
         \A i \in Issues : HasSlot(i)' => HasSlot(i) \/ Ready(i),
         NEW c \in Clients, NEW m, NEW new, Replace(c, m, new), \A x \in new : ItemReady(x)
  PROVE  ReadyInv'
  BY StillOrNew, LoopReady

\* So does a handler that moves the slot of one issue.
LEMMA MovedReady ==
  ASSUME TypeOK, ReadyInv, HandlerFrame, NEW k \in Issues, HasSlot(k),
         \A i \in Issues \ {k} : slots'[i] = slots[i],
         NEW c \in Clients, NEW m, NEW new, Replace(c, m, new), \A x \in new : ItemReady(x)
  PROVE  ReadyInv'
  <1>1. \A i \in Issues : HasSlot(i)' => HasSlot(i)
    BY DEF HasSlot
  <1>. QED BY <1>1, HandlerReady DEF HandlerFrame, trackerVars, agentVars

\* Moving one slot leaves the others alone.
LEMMA MovedOthers ==
  ASSUME TypeOK, NEW k \in Issues, NEW s, slots' = Moved(k, s)
  PROVE  \A i \in Issues \ {k} : slots'[i] = slots[i]
  BY DEF TypeOK, Moved

\* So does an early return.
LEMMA IgnoredReady ==
  ASSUME TypeOK, ReadyInv, HandlerFrame, NEW c \in Clients, NEW m, Ignored(c, m)
  PROVE  ReadyInv'
  <1>1. \A i \in Issues : HasSlot(i)' => HasSlot(i)
    BY DEF HasSlot, Ignored
  <1>. QED BY <1>1, HandlerReady DEF Ignored, HandlerFrame, trackerVars, agentVars

\* So do the answers to the label check, the start of a loop included.
LEMMA StartReady ==
  ASSUME TypeOK, ReadyInv, NEW c \in Clients, NEW m \in flight[c],
         HandleLabelCheck(c, m) \/ HandleLabelsEnsured(c, m)
  PROVE  ReadyInv'
  <1> USE DEF loopVars, trackerVars, agentVars
  <1>1. UNCHANGED <<closed, prs, agents>>
    BY DEF HandleLabelCheck, HandleLabelsEnsured, ExecutePendingOp
  <1>2. \A i \in Issues : HasSlot(i)' => HasSlot(i)
    BY DEF HandleLabelCheck, HandleLabelsEnsured, ExecutePendingOp, HasSlot, NoSlot
  <1>3. PICK new : Replace(c, m, new) /\ \A x \in new : x.op \in OtherOp
    <2>1. \A x \in {Cmd("cleanupMerged"), Cmd("scanPRs"), Cmd("poll")} : x.op \in OtherOp
      BY DEF Cmd, OtherOp, CommandOp
    <2>2. \/ Replace(c, m, {})
          \/ Replace(c, m, {Cmd("cleanupMerged"), Cmd("scanPRs"), Cmd("poll")})
      BY DEF HandleLabelCheck, HandleLabelsEnsured, ExecutePendingOp
    <2>. QED BY <2>1, <2>2
  <1>. QED BY <1>1, <1>2, <1>3, OtherReady, HandlerReady

\* So do the answers of the todo poll and of the open-PR scan.
LEMMA PolledReady ==
  ASSUME TypeOK, ReadyInv, NEW c \in Clients, NEW m \in flight[c],
         HandlePolled(c, m) \/ HandleOpenPRs(c, m)
  PROVE  ReadyInv'
  <1>0. HandlerFrame
    BY DEF HandlePolled, HandleOpenPRs
  <1>1. CASE Ignored(c, m)
    BY <1>0, <1>1, IgnoredReady
  <1>2. CASE HandlePolled(c, m) /\ ~Ignored(c, m)
    <2>w. PICK listed \in BOOLEAN : TakeTodo(c, m, listed)
      BY <1>2 DEF HandlePolled
    <2> DEFINE new == Admitted(m.todo)
    <2>1. \A i \in m.todo : Ready(i)
      BY <1>2 DEF HandlePolled, Delivered, ReadyInv, ItemReady
    <2>2. \A i \in Issues : HasSlot(i)' => HasSlot(i) \/ i \in new
      <3>1. \A i \in Issues \ new : slots'[i] = slots[i]
        BY <2>w DEF TakeTodo
      <3>. QED BY <3>1 DEF HasSlot
    <2>3. \A i \in new : Ready(i)
      BY <2>1 DEF Admitted
    <2>4. PICK made : Replace(c, m, made) /\ \A x \in made : x.op = "create"
      BY <2>w DEF TakeTodo
    <2>5. \A x \in made : ItemReady(x)
      BY <2>4 DEF ItemReady
    <2> HIDE DEF new
    <2>. QED BY <1>0, <2>2, <2>3, <2>4, <2>5, HandlerReady
         DEF HandlerFrame, trackerVars, agentVars
  <1>3. CASE HandleOpenPRs(c, m) /\ ~Ignored(c, m)
    <2>w. PICK listed \in BOOLEAN : TakeOpenPRs(c, m, listed)
      BY <1>3 DEF HandleOpenPRs
    <2> DEFINE new == {i \in m.prs : ~HasSlot(i)}
               taken(s) == {i \in new : ResumeState(m.labels[i]) = s}
               cmds == {IssueCmd("write", i) : i \in taken("WritingAgent")} \cup
                       {[op |-> "launch", issue |-> i, role |-> "reviewer",
                         dir |-> PRSlot(i, m.labels[i], listed).wt] : i \in taken("LaunchingReviewer")}
    <2>1. \A i \in m.prs : Ready(i)
      BY <1>3 DEF HandleOpenPRs, Delivered, ReadyInv, ItemReady
    <2>2. \A i \in Issues : HasSlot(i)' => HasSlot(i) \/ i \in m.prs
      <3>1. \A i \in Issues \ new : slots'[i] = slots[i]
        BY <2>w DEF TakeOpenPRs
      <3>. QED BY <3>1 DEF HasSlot
    <2>3. Replace(c, m, cmds)
      BY <2>w DEF TakeOpenPRs
    <2>4. \A x \in cmds : x.op = "write" \/ (x.op = "launch" /\ x.issue \in m.prs)
      BY DEF IssueCmd
    <2>5. \A x \in cmds : ItemReady(x)
      BY <2>1, <2>4 DEF ItemReady
    <2> HIDE DEF cmds
    <2>. QED BY <1>0, <2>1, <2>2, <2>3, <2>5, HandlerReady
         DEF HandlerFrame, trackerVars, agentVars
  <1>. QED BY <1>1, <1>2, <1>3

\* So do the handlers that work on one issue's slot.
LEMMA SlotHandlerReady ==
  ASSUME TypeOK, ReadyInv, NEW c \in Clients, NEW m \in flight[c],
         \/ HandleCreated(c, m) \/ HandleWritten(c, m) \/ HandleLaunched(c, m)
         \/ HandleLabels(c, m) \/ HandlePRStatus(c, m) \/ HandleMerged(c, m)
         \/ HandleCleaned(c, m)
  PROVE  ReadyInv'
  <1>h. HandlerFrame /\ m.issue \in Issues
    BY InFlightItem, ItemFields DEF HandleCreated, HandleWritten, HandleLaunched, HandleLabels,
       HandlePRStatus, HandleMerged, HandleCleaned, Delivered
  <1>i. CASE Ignored(c, m)
    BY <1>h, <1>i, IgnoredReady
  <1>c. CASE HandleCleaned(c, m)
    <2>1. \A i \in Issues : HasSlot(i)' => HasSlot(i)
      BY <1>h, <1>c DEF HandleCleaned, HasSlot, NoSlot, TypeOK
    <2>. QED BY <1>h, <1>c, <2>1, HandlerReady
         DEF HandleCleaned, HandlerFrame, trackerVars, agentVars
  <1>n. ASSUME ~Ignored(c, m), ~HandleCleaned(c, m) PROVE ReadyInv'
    <2>1. HasSlot(m.issue)
      BY <1>n DEF HandleCreated, HandleWritten, HandleLaunched, HandleLabels, HandlePRStatus,
         HandleMerged, ReviewRequested, ReviewPassed, ChangesNeeded, HasSlot
    <2>2. Ready(m.issue)
      BY <1>h, <2>1 DEF ReadyInv
    <2>3. \A i \in Issues \ {m.issue} : slots'[i] = slots[i]
      <3>1. CASE \E s : slots' = Moved(m.issue, s)
        BY <1>h, <3>1, MovedOthers
      <3>2. CASE \E s : slots' = [slots EXCEPT ![m.issue] = s]
        BY <1>h, <3>2 DEF TypeOK
      <3>. QED BY <1>n, <3>1, <3>2 DEF HandleCreated, HandleWritten, HandleLaunched,
           HandleLabels, HandlePRStatus, HandleMerged, ReviewRequested, ReviewPassed,
           ChangesNeeded
    <2>4. /\ ItemReady(IssueCmd("write", m.issue))
          /\ \A role : ItemReady(LaunchCmd(m.issue, role))
          /\ ItemReady(MergeCmd(m.issue)) /\ ItemReady(CleanupCmd(m.issue))
      BY <2>2 DEF ItemReady, IssueCmd, LaunchCmd, MergeCmd, CleanupCmd
    <2>5. \/ Replace(c, m, {})
          \/ Replace(c, m, {IssueCmd("write", m.issue)})
          \/ \E role : Replace(c, m, {LaunchCmd(m.issue, role)})
          \/ Replace(c, m, {MergeCmd(m.issue)})
          \/ Replace(c, m, {CleanupCmd(m.issue)})
      BY <1>n DEF HandleCreated, HandleWritten, HandleLaunched, HandleLabels, HandlePRStatus,
         HandleMerged, ReviewRequested, ReviewPassed, ChangesNeeded
    <2>6. ASSUME NEW x, Replace(c, m, {x}), ItemReady(x)
          PROVE  \E new : Replace(c, m, new) /\ \A y \in new : ItemReady(y)
      <3>1. \A y \in {x} : ItemReady(y)
        BY <2>6
      <3>. QED BY <2>6, <3>1
    <2>7. \E new : Replace(c, m, new) /\ \A x \in new : ItemReady(x)
      <3>1. CASE Replace(c, m, {})
        <4>1. \A x \in {} : ItemReady(x)
          OBVIOUS
        <4>. QED BY <3>1, <4>1
      <3>2. CASE Replace(c, m, {IssueCmd("write", m.issue)})
        BY <3>2, <2>4, <2>6
      <3>3. CASE \E role : Replace(c, m, {LaunchCmd(m.issue, role)})
        <4>1. PICK role : Replace(c, m, {LaunchCmd(m.issue, role)})
          BY <3>3
        <4>. QED BY <4>1, <2>4, <2>6
      <3>4. CASE Replace(c, m, {MergeCmd(m.issue)})
        BY <3>4, <2>4, <2>6
      <3>5. CASE Replace(c, m, {CleanupCmd(m.issue)})
        BY <3>5, <2>4, <2>6
      <3>. QED BY <2>5, <3>1, <3>2, <3>3, <3>4, <3>5
    <2>8. PICK new : Replace(c, m, new) /\ \A x \in new : ItemReady(x)
      BY <2>7
    <2>. QED BY <1>h, <2>1, <2>3, <2>8, MovedReady
  <1>. QED BY <1>i, <1>c, <1>n

-----------------------------------------------------------------------------
(* Everyone else. *)

\* So do the user of a client, its timers and its closed gate.
LEMMA ClientReady ==
  ASSUME TypeOK, ReadyInv, NEW c \in Clients,
         \/ UserActs(c) \/ PollTick(c) \/ DropPollTick(c)
         \/ \E m \in flight[c] : DropMessage(c, m)
         \/ \E i \in Issues : \/ LabelTick(c, i) \/ PRTick(c, i)
                              \/ DropLabelTick(c, i) \/ DropPRTick(c, i)
  PROVE  ReadyInv'
  <1> USE DEF loopVars, trackerVars, agentVars
  <1>1. /\ UNCHANGED <<closed, prs, agents>>
        /\ UNCHANGED slots \/ slots' = [i \in Issues |-> NoSlot]
    BY DEF UserActs, StopLoop, PressStart, ConfirmLabels, ShowOverlay, DismissOverlay,
       RemoteQuit, PollTick, LabelTick, PRTick, TickFrame, DropMessage, DropPollTick,
       DropLabelTick, DropPRTick, DropFrame
  <1>2. \A i \in Issues : HasSlot(i)' => HasSlot(i)
    BY <1>1 DEF HasSlot, NoSlot
  <1>3. \A d \in Clients : \A o \in flight'[d] :
          \/ o \in flight[d]
          \/ o \in {Cmd("labelCheck"), Cmd("ensureLabels"), Cmd("poll")}
          \/ \E i \in Issues : o \in {IssueCmd("pollLabels", i), PollPRCmd(i)}
    <2>1. CASE UserActs(c)
      BY <2>1 DEF UserActs, StopLoop, PressStart, ConfirmLabels, ShowOverlay, DismissOverlay,
         RemoteQuit, TypeOK
    <2>2. ASSUME NEW m \in flight[c], DropMessage(c, m)
          PROVE  \A d \in Clients : \A o \in flight'[d] : o \in flight[d]
      BY <2>2, StillOrNew DEF DropMessage
    <2>3. ASSUME NEW x, flight' = [flight EXCEPT ![c] = @ \cup {x}]
          PROVE  \A d \in Clients : \A o \in flight'[d] : o \in flight[d] \/ o = x
      BY <2>3 DEF TypeOK
    <2>4. CASE PollTick(c)
      BY <2>4, <2>3 DEF PollTick, Request
    <2>5. ASSUME NEW i \in Issues, LabelTick(c, i)
          PROVE  \A d \in Clients : \A o \in flight'[d] :
                   o \in flight[d] \/ o = IssueCmd("pollLabels", i)
      BY <2>5, <2>3 DEF LabelTick, Request
    <2>6. ASSUME NEW i \in Issues, PRTick(c, i)
          PROVE  \A d \in Clients : \A o \in flight'[d] :
                   o \in flight[d] \/ o = PollPRCmd(i)
      BY <2>6, <2>3 DEF PRTick, Request
    <2>7. CASE DropPollTick(c) \/ \E i \in Issues : DropLabelTick(c, i) \/ DropPRTick(c, i)
      BY <2>7 DEF DropPollTick, DropLabelTick, DropPRTick
    <2>. QED BY <2>1, <2>2, <2>4, <2>5, <2>6, <2>7
  <1>4. \A i : ItemReady(IssueCmd("pollLabels", i)) /\ ItemReady(PollPRCmd(i))
    BY DEF ItemReady, IssueCmd, PollPRCmd
  <1>5. ItemReady(Cmd("labelCheck")) /\ ItemReady(Cmd("ensureLabels")) /\ ItemReady(Cmd("poll"))
    BY DEF ItemReady, Cmd
  <1>6. \A d \in Clients : \A o \in flight'[d] : o \in flight[d] \/ ItemReady(o)
    BY <1>3, <1>4, <1>5
  <1>. QED BY <1>1, <1>2, <1>6, LoopReady

\* So do a restart of the process, the agents and the people at the tracker.
LEMMA WorldReady ==
  ASSUME TypeOK, ReadyInv,
         \/ ProcessRestart
         \/ \E a \in agents : AgentActs(a)
         \/ \E i \in Issues : HumanActs(i)
  PROVE  ReadyInv'
  <1> USE DEF loopVars, trackerVars, agentVars
  <1>1. UNCHANGED closed
    BY DEF ProcessRestart, AgentActs, CoderBegins, CoderOpensPR, CoderFinishes,
       ReviewerPasses, ReviewerRejects, AgentDies, HumanActs, HumanConfirms, HumanMerges,
       HumanClosesPR
  <1>2. \A i \in Issues : HasSlot(i)' => HasSlot(i)
    BY DEF HasSlot, NoSlot, ProcessRestart, AgentActs, CoderBegins, CoderOpensPR,
       CoderFinishes, ReviewerPasses, ReviewerRejects, AgentDies, AgentFrame, HumanActs,
       HumanConfirms, HumanMerges, HumanClosesPR
  <1>3. \A d \in Clients : \A o \in flight'[d] : o \in flight[d]
    BY DEF ProcessRestart, AgentActs, CoderBegins, CoderOpensPR, CoderFinishes,
       ReviewerPasses, ReviewerRejects, AgentDies, AgentFrame, HumanActs, HumanConfirms,
       HumanMerges, HumanClosesPR
  <1>4. \A a \in agents' : Ready(a.issue)
    <2>1. ASSUME NEW a \in agents, CoderBegins(a) PROVE \A b \in agents' : Ready(b.issue)
      <3>1. [a EXCEPT !.began = TRUE].issue = a.issue
        BY DEF TypeOK, Agent
      <3>. QED BY <2>1, <3>1 DEF CoderBegins, ReadyInv
    <2>2. CASE agents' \subseteq agents
      BY <2>2 DEF ReadyInv
    <2>. QED BY <2>1, <2>2 DEF ProcessRestart, AgentActs, CoderOpensPR, CoderFinishes,
         ReviewerPasses, ReviewerRejects, AgentDies, HumanActs, HumanConfirms, HumanMerges,
         HumanClosesPR
  <1>5. \A i \in Issues : prs'[i] # "none" => Ready(i)
    <2>1. ASSUME NEW a \in agents, CoderOpensPR(a)
          PROVE  \A i \in Issues : prs'[i] # "none" => Ready(i)
      BY <2>1 DEF CoderOpensPR, ReadyInv, TypeOK
    <2>2. CASE \A i \in Issues : prs'[i] # "none" => prs[i] # "none"
      BY <2>2 DEF ReadyInv
    <2>3. ASSUME NEW i \in Issues, HumanActs(i)
          PROVE  \A j \in Issues : prs'[j] # "none" => prs[j] # "none"
      BY <2>3 DEF HumanActs, HumanConfirms, HumanMerges, HumanClosesPR, TypeOK
    <2>. QED BY <2>1, <2>2, <2>3 DEF ProcessRestart, AgentActs, CoderBegins, CoderFinishes,
         ReviewerPasses, ReviewerRejects, AgentDies
  <1>. QED BY <1>1, <1>2, <1>3, <1>4, <1>5, ReadyStep

-----------------------------------------------------------------------------
\* A slot, or an agent at work, only where every dependency is closed and merged,
\* provided no pull request comes from outside.
THEOREM DependencySafe ==
  OwnBranches /\ ForeignPRs = {} => (Spec => []DependenciesMerged)
  <1> SUFFICES ASSUME OwnBranches, ForeignPRs = {} PROVE Spec => []DependenciesMerged
    OBVIOUS
  <1>1. Init => MergeInv /\ ReadyInv
    BY DEF Init, MergeInv, SlotOwn, NoSlot, ReadyInv, HasSlot
  <1>2. TypeOK /\ MergeInv /\ [Next]_vars => MergeInv'
    BY MergeInductive
  <1>3. TypeOK /\ ReadyInv /\ [Next]_vars => ReadyInv'
    <2> SUFFICES ASSUME TypeOK, ReadyInv, [Next]_vars PROVE ReadyInv'
      OBVIOUS
    <2>1. CASE UNCHANGED vars
      BY <2>1 DEF vars, loopVars, trackerVars, agentVars, ReadyInv, Ready, ItemReady, HasSlot
    <2>2. CASE Next
      BY <2>2, CommandReady, StartReady, PolledReady, SlotHandlerReady, ClientReady, WorldReady
      DEF Next, HandleMessage
    <2>. QED BY <2>1, <2>2
  <1>4. TypeOK /\ MergeInv /\ ReadyInv => DependenciesMerged
    BY LoopAssumption DEF TypeOK, MergeInv, ReadyInv, Ready, DependenciesMerged
  <1>. QED BY <1>1, <1>2, <1>3, <1>4, TypeCorrect, PTL DEF Spec

-----------------------------------------------------------------------------
(* Labels, slots and hands *)

\* The issue has one label, of these.
Is(i, ls) == \E l \in ls : labels[i] = {l}

AgentsOf(i) == {a \in agents : a.issue = i}

\* The commands and messages that have an issue in hand: at most one at a time.
HandOp == {"create", "created", "write", "written", "launch", "launched"}
InHand(m, i) == m.op \in HandOp /\ m.issue = i
OneHand(i) ==
    \A c, d \in Clients : \A m \in flight[c], o \in flight[d] :
        InHand(m, i) /\ InHand(o, i) => c = d /\ m = o

\* What an item in hand says of the label, ...
HandLabel(m, i) ==
    /\ m.op \in {"create", "created"} => Is(i, {"todo"})
    /\ m.op \in {"write", "written"} => Is(i, {"todo", "needs-changes"})
    /\ m.op = "launch" /\ m.role = "coder" => Is(i, {"todo", "needs-changes"})
    /\ m.op = "launch" /\ m.role = "reviewer" => Is(i, {"review"})
    /\ m.op # "launched" => AgentsOf(i) = {}

\* ... and of the slot.
HandSlot(m, i) ==
    slots[i].state =
        (IF m.op \in {"create", "created"} THEN "CreatingWorktree"
         ELSE IF m.op \in {"write", "written"} THEN "WritingAgent"
         ELSE IF m.role = "coder" THEN "LaunchingCoder" ELSE "LaunchingReviewer")

\* A slot that is cleaned up, or was.
CleanupOp == {"cleanup", "close", "cleaned"}
Finishing(i) == slots[i].state \in {"None", "CleaningUp"} /\ Is(i, {"ai-review"})

\* What the label poll may have read that a handler acts on.
Verdict == {"review", "ai-review", "needs-changes"}

\* An item about issue i tells what is still so.
ItemInv(m, i) ==
    /\ m.op \in HandOp => HandLabel(m, i) /\ (active => HandSlot(m, i))
    /\ m.op = "labels" => m.labels \cap Verdict \subseteq labels[i]
    /\ active /\ m.op \in CleanupOp => Finishing(i)

\* What an agent says of the label.
AgentLabel(a) ==
    /\ a.role = "reviewer" => Is(a.issue, {"review"})
    /\ a.role = "coder" /\ a.began => Is(a.issue, {"wip"})
    /\ a.role = "coder" /\ ~a.began => Is(a.issue, {"todo", "needs-changes"})

\* What the state of a slot says of the label, ...
SlotLabel(i) ==
    LET s == slots[i].state IN
    /\ s = "None" => Is(i, {"pending", "todo", "ai-review"})
    /\ s = "CreatingWorktree" => Is(i, {"todo"})
    /\ s = "WritingAgent" => Is(i, {"todo", "needs-changes"})
    /\ s \in {"LaunchingCoder", "Coding"} => Is(i, {"todo", "needs-changes", "wip", "review"})
    /\ s \in {"LaunchingReviewer", "Reviewing"} => Is(i, {"review", "ai-review", "needs-changes"})
    /\ s \in {"AutoMerging", "WaitingPRMerge", "CleaningUp"} => Is(i, {"ai-review"})

\* ... of the agents, ...
SlotAgents(i) ==
    \A a \in AgentsOf(i) :
        /\ slots[i].state \notin {"None", "CreatingWorktree", "WritingAgent"}
        /\ slots[i].state \in {"LaunchingCoder", "Coding"} => a.role = "coder"
        /\ slots[i].state \in {"LaunchingReviewer", "Reviewing"} => a.role = "reviewer"

\* ... of the verdicts, ...
SlotRounds(i) ==
    LET s == slots[i].state IN
    /\ slots[i].round <= rejected[i]
    /\ s = "None" /\ ~Is(i, {"ai-review"}) => rejected[i] = 0
    /\ s \in {"CreatingWorktree", "WritingAgent", "LaunchingCoder", "Coding"} =>
          rejected[i] = slots[i].round
    /\ s \in {"LaunchingReviewer", "Reviewing"} =>
          rejected[i] = slots[i].round + (IF Is(i, {"needs-changes"}) THEN 1 ELSE 0)
    /\ s = "NeedsHuman" => Is(i, {"ai-review"}) \/ rejected[i] > MaxReviewRounds

\* ... and of the timers of label heartbeats.
Chains(i) == {h \in Clients \X (Nat \ {0}) : h[2] <= labelTicks[h[1]][i]}
ChainsOf(i) ==
    LET s == slots[i].state
        r == slots[i].round
    IN  IF s = "None" /\ ~Is(i, {"ai-review"}) THEN 0
        ELSE IF s \in {"CreatingWorktree", "WritingAgent", "LaunchingCoder"} THEN 2 * r
        ELSE IF s \in {"Coding", "LaunchingReviewer"} THEN 2 * r + 1
        ELSE IF s = "None" THEN 2 * rejected[i] + 2 ELSE 2 * r + 2

\* The slot of an issue, while the loop runs.
SlotInv(i) ==
    SlotLabel(i) /\ SlotAgents(i) /\ SlotRounds(i) /\ Cardinality(Chains(i)) <= ChainsOf(i)

\* An issue, also when the loop was stopped.
IssueInv(i) ==
    /\ Is(i, Label)
    /\ OneHand(i)
    /\ \A c \in Clients : \A m \in flight[c] : m.issue = i => ItemInv(m, i)
    /\ \A a, b \in AgentsOf(i) : a = b
    /\ \A a \in AgentsOf(i) : AgentLabel(a)
    /\ IsFiniteSet(Chains(i))
    /\ Cardinality(Chains(i)) <= 2 * (rejected[i] + 1)
    /\ active => SlotInv(i)

\* The issues a todo poll read are todo until it is handled.
TodoInv ==
    \A c \in Clients : \A m \in flight[c] :
        m.op = "polled" => \A i \in m.todo : Is(i, {"todo"})

\* There is no PR and no coder that could open one, ...
NoPRs ==
    /\ \A i \in Issues : prs[i] = "none"
    /\ \A a \in agents : a.role = "coder" => ~a.began

\* ... when the scan for open PRs runs.
ScanInv ==
    \A c \in Clients : \A m \in flight[c] :
        m.op \in {"scanPRs", "openPRs"} => NoPRs /\ (m.op = "openPRs" => m.prs = {})

\* Nothing has been started yet.
StartOp == {"labelCheck", "labelChecked", "ensureLabels", "labelsEnsured"}
Untouched ==
    /\ ~active /\ agents = {}
    /\ \A c \in Clients : \A m \in flight[c] : m.op \in StartOp
    /\ \A i \in Issues : /\ Is(i, {"pending", "todo"}) /\ prs[i] = "none"
                         /\ rejected[i] = 0 /\ Chains(i) = {}

\* The loop key has been pressed to start the loop once at most.
FirstRun == budget.starts + 1 >= MaxStarts

StartInv ==
    /\ budget.starts <= MaxStarts
    /\ budget.starts = MaxStarts \/ (\E c \in Clients : pendingOp[c]) => Untouched
    /\ budget.starts = MaxStarts => \A c \in Clients : ~pendingOp[c]
    /\ \A c, d \in Clients : pendingOp[c] /\ pendingOp[d] => c = d

\* A loop that is off has no slots.
OffInv == ~active => \A i \in Issues : slots[i] = NoSlot

VerdictInv ==
    /\ StartInv
    /\ TodoInv /\ ScanInv
    /\ \A i \in Issues : IssueInv(i)
    /\ SlotCount <= MaxPerProject

-----------------------------------------------------------------------------
(* Capacity. *)

\* One element more is at most one more to count.
LEMMA OneMore ==
  ASSUME NEW S, IsFiniteSet(S), NEW x
  PROVE  /\ IsFiniteSet(S \cup {x})
         /\ Cardinality(S \cup {x}) <= Cardinality(S) + 1
         /\ Cardinality(S) \in Nat /\ Cardinality(S \cup {x}) \in Nat
  <1>1. Cardinality(S) \in Nat
    BY FS_CardinalityType
  <1>2. IsFiniteSet(S \cup {x})
    BY FS_AddElement
  <1>3. Cardinality(S \cup {x}) = IF x \in S THEN Cardinality(S) ELSE Cardinality(S) + 1
    BY FS_AddElement
  <1>. QED BY <1>1, <1>2, <1>3

\* Of the issues todo at once the lowest that is admitted bounds them all.
LEMMA AdmittedFit ==
  ASSUME TypeOK, NEW todo, todo \subseteq Issues, Admitted(todo) # {}
  PROVE  SlotCount + Cardinality(Admitted(todo)) <= MaxPerProject
  <1> DEFINE new == {i \in todo : ~HasSlot(i)}
             above(i) == {j \in new : j > i}
             adm == {i \in new : SlotCount + Cardinality(above(i)) < MaxPerProject}
  <1>1. Admitted(todo) = adm
    BY DEF Admitted
  <1>2. new \subseteq Issues /\ Issues \subseteq Nat /\ IsFiniteSet(Issues) /\ MaxPerProject \in Nat
    BY LoopAssumption
  <1>3. adm \subseteq Nat /\ adm # {}
    BY <1>1, <1>2
  <1>4. PICK k \in adm : \A y \in adm : <<y, k>> \notin OpToRel(<, Nat)
    <2> HIDE DEF adm
    <2>. QED BY <1>3, WFMin, NatLessThanWellFounded, Zenon
  <1>5. \A y \in adm : ~(y < k)
    BY <1>3, <1>4 DEF OpToRel
  <1>6. k \in new /\ SlotCount + Cardinality(above(k)) < MaxPerProject
    BY <1>4
  <1>7. adm \subseteq above(k) \cup {k}
    <2>1. \A y \in adm : y \in new
      OBVIOUS
    <2>2. \A y \in adm : y \in Nat /\ k \in Nat
      BY <1>3
    <2>3. ASSUME NEW y \in adm, y # k PROVE y > k
      <3> HIDE DEF adm
      <3>. QED BY <1>5, <2>2, <2>3
    <2>. QED BY <2>1, <2>3
  <1>8. IsFiniteSet(above(k)) /\ IsFiniteSet({i \in Issues : HasSlot(i)})
    BY <1>2, FS_Subset
  <1> HIDE DEF above, new, adm
  <1>9. /\ IsFiniteSet(above(k) \cup {k})
        /\ Cardinality(above(k) \cup {k}) <= Cardinality(above(k)) + 1
    BY <1>8, OneMore
  <1>10. /\ Cardinality(adm) <= Cardinality(above(k) \cup {k})
         /\ IsFiniteSet(adm)
    BY <1>7, <1>9, FS_Subset
  <1>11. /\ SlotCount \in Nat /\ Cardinality(above(k)) \in Nat
         /\ Cardinality(above(k) \cup {k}) \in Nat /\ Cardinality(adm) \in Nat
    BY <1>8, <1>9, <1>10, FS_CardinalityType DEF SlotCount
  <1>. QED BY <1>1, <1>2, <1>6, <1>9, <1>10, <1>11

\* Slots only for issues that had one and for some of the admitted ones.
LEMMA AdmittedCount ==
  ASSUME TypeOK, NEW todo, todo \subseteq Issues,
         \A i \in Issues : HasSlot(i)' => HasSlot(i) \/ i \in Admitted(todo)
  PROVE  SlotCount' <= SlotCount \/ SlotCount' <= MaxPerProject
  <1> DEFINE S == {i \in Issues : HasSlot(i)}
             T == {i \in Issues : HasSlot(i)'}
             A == Admitted(todo)
  <1>1. A \subseteq Issues /\ IsFiniteSet(Issues)
    BY LoopAssumption DEF Admitted
  <1>2. T \subseteq S \cup A /\ S \subseteq Issues
    OBVIOUS
  <1>3. SlotCount = Cardinality(S) /\ SlotCount' = Cardinality(T)
    BY DEF SlotCount
  <1>4. A # {} => SlotCount + Cardinality(A) <= MaxPerProject
    BY AdmittedFit
  <1> HIDE DEF S, T, A
  <1>5. IsFiniteSet(S) /\ IsFiniteSet(A)
    BY <1>1, <1>2, FS_Subset
  <1>6. CASE A = {}
    <2>1. T \subseteq S
      BY <1>2, <1>6
    <2>. QED BY <2>1, <1>3, <1>5, FS_Subset
  <1>7. CASE A # {}
    <2>1. /\ IsFiniteSet(S \cup A)
          /\ Cardinality(S \cup A) = Cardinality(S) + Cardinality(A) - Cardinality(S \cap A)
      BY <1>5, FS_Union
    <2>2. IsFiniteSet(S \cap A)
      BY <1>5, FS_Subset
    <2>3. IsFiniteSet(T) /\ Cardinality(T) <= Cardinality(S \cup A)
      BY <1>2, <2>1, FS_Subset
    <2>4. /\ Cardinality(S) \in Nat /\ Cardinality(A) \in Nat /\ Cardinality(S \cap A) \in Nat
          /\ Cardinality(S \cup A) \in Nat /\ Cardinality(T) \in Nat /\ MaxPerProject \in Nat
      BY <1>5, <2>1, <2>2, <2>3, FS_CardinalityType, LoopAssumption
    <2>. QED BY <1>3, <1>4, <1>7, <2>1, <2>3, <2>4
  <1>. QED BY <1>6, <1>7

\* Every step but the scan for open PRs takes slots from free ones only, or none.
LEMMA SlotsTaken ==
  ASSUME TypeOK, Next,
         \A c \in Clients : \A m \in flight[c] : HandleOpenPRs(c, m) => m.prs = {}
  PROVE  \/ \A i \in Issues : HasSlot(i)' => HasSlot(i)
         \/ \E c \in Clients : \E m \in flight[c] :
               /\ m.op = "polled" /\ m.todo \subseteq Issues
               /\ \A i \in Issues : HasSlot(i)' => HasSlot(i) \/ i \in Admitted(m.todo)
  <1> DEFINE Fewer == \A i \in Issues : HasSlot(i)' => HasSlot(i)
  <1> SUFFICES ASSUME ~Fewer
               PROVE  \E c \in Clients : \E m \in flight[c] :
                         /\ m.op = "polled" /\ m.todo \subseteq Issues
                         /\ \A i \in Issues : HasSlot(i)' => HasSlot(i) \/ i \in Admitted(m.todo)
    OBVIOUS
  <1> USE DEF loopVars
  <1>1. UNCHANGED slots \/ slots' = [i \in Issues |-> NoSlot] => Fewer
    BY DEF HasSlot, NoSlot
  <1>2. ASSUME NEW k \in Issues, HasSlot(k), \A i \in Issues \ {k} : slots'[i] = slots[i]
        PROVE  Fewer
    BY <1>2 DEF HasSlot
  <1>3. ASSUME NEW c \in Clients, UserActs(c) PROVE Fewer
    BY <1>1, <1>3 DEF UserActs, StopLoop, PressStart, ConfirmLabels, ShowOverlay,
       DismissOverlay, RemoteQuit
  <1>4. ASSUME NEW c \in Clients, NEW m \in flight[c], RunCommand(c, m) PROVE Fewer
    BY <1>1, <1>4 DEF RunCommand, Answers, CheckLabels, EnsureLabels, PollTodo, ScanOpenPRs,
       CleanupMerged, CreateWorktree, WriteAgent, LaunchAgent, PollLabels, PollPR, LookUpPR,
       TryMerge, RemoveWorktree, CloseIssue
  <1>5. ASSUME NEW c \in Clients, NEW m \in flight[c], HandleMessage(c, m)
        PROVE  HandlePolled(c, m)
    <2>i. m \in Item
      BY InFlightItem
    <2>1. CASE HandleLabelCheck(c, m) \/ HandleLabelsEnsured(c, m)
      BY <1>1, <2>1 DEF HandleLabelCheck, HandleLabelsEnsured, ExecutePendingOp
    <2>2. CASE HandleOpenPRs(c, m)
      <3>1. m.prs = {}
        BY <2>2
      <3>2. UNCHANGED slots \/ slots' = [i \in Issues |-> slots[i]]
        BY <2>2, <3>1 DEF HandleOpenPRs, TakeOpenPRs, Ignored
      <3>3. Fewer
        BY <3>2 DEF HasSlot
      <3>. QED BY <3>3
    <2>3. CASE Ignored(c, m)
      BY <1>1, <2>3 DEF Ignored
    <2>4. CASE HandleCreated(c, m) \/ HandleWritten(c, m) \/ HandleLaunched(c, m)
      <3>1. m.issue \in Issues
        BY <2>4, <2>i, ItemFields DEF HandleCreated, HandleWritten, HandleLaunched, Delivered
      <3>2. CASE HasSlot(m.issue)
        <4>1. \A i \in Issues \ {m.issue} : slots'[i] = slots[i]
          BY <2>4, <3>2, <2>3, <3>1 DEF HandleCreated, HandleWritten, HandleLaunched, Moved, TypeOK
        <4>. QED BY <3>1, <3>2, <4>1, <1>2
      <3>3. CASE ~HasSlot(m.issue)
        BY <2>3, <2>4, <3>3 DEF HandleCreated, HandleWritten, HandleLaunched
      <3>. QED BY <3>2, <3>3
    <2>5. CASE HandleLabels(c, m)
      <3>1. m.issue \in Issues
        BY <2>5, <2>i, ItemFields DEF HandleLabels, Delivered
      <3>2. CASE ReviewRequested(c, m) \/ ReviewPassed(c, m) \/ ChangesNeeded(c, m)
        <4>1. HasSlot(m.issue) /\ \A i \in Issues \ {m.issue} : slots'[i] = slots[i]
          BY <3>1, <3>2 DEF ReviewRequested, ReviewPassed, ChangesNeeded, Moved, HasSlot, TypeOK
        <4>. QED BY <3>1, <4>1, <1>2
      <3>. QED BY <2>3, <2>5, <3>2 DEF HandleLabels
    <2>6. CASE HandlePRStatus(c, m) \/ HandleMerged(c, m)
      <3>1. m.issue \in Issues
        BY <2>6, <2>i, ItemFields DEF HandlePRStatus, HandleMerged, Delivered
      <3>2. CASE ~Ignored(c, m)
        <4>1. HasSlot(m.issue) /\ \A i \in Issues \ {m.issue} : slots'[i] = slots[i]
          BY <3>1, <3>2, <2>6 DEF HandlePRStatus, HandleMerged, Moved, HasSlot, TypeOK
        <4>. QED BY <3>1, <4>1, <1>2
      <3>. QED BY <2>3, <3>2
    <2>7. CASE HandleCleaned(c, m)
      <3>1. \A i \in Issues : slots'[i] = slots[i] \/ slots'[i] = NoSlot
        BY <2>7 DEF HandleCleaned, TypeOK
      <3>2. Fewer
        BY <3>1 DEF HasSlot, NoSlot
      <3>. QED BY <3>2
    <2>. QED BY <1>5, <2>1, <2>2, <2>4, <2>5, <2>6, <2>7 DEF HandleMessage
  <1>6. ASSUME NEW c \in Clients, NEW m \in flight[c], HandlePolled(c, m)
        PROVE  /\ m.op = "polled" /\ m.todo \subseteq Issues
               /\ \A i \in Issues : HasSlot(i)' => HasSlot(i) \/ i \in Admitted(m.todo)
    <2>1. m.op = "polled" /\ m.todo \subseteq Issues
      BY <1>6, InFlightItem, ItemFields DEF HandlePolled, Delivered
    <2>2. CASE Ignored(c, m)
      BY <1>1, <2>2 DEF Ignored
    <2>3. CASE ~Ignored(c, m)
      <3>1. \A i \in Issues : slots'[i] = slots[i] \/ i \in Admitted(m.todo)
        BY <1>6, <2>3 DEF HandlePolled, TakeTodo
      <3>. QED BY <2>1, <3>1 DEF HasSlot
    <2>. QED BY <2>2, <2>3
  <1>7. ASSUME NEW c \in Clients,
               \/ \E m \in flight[c] : DropMessage(c, m)
               \/ PollTick(c) \/ DropPollTick(c)
               \/ \E i \in Issues : \/ LabelTick(c, i) \/ PRTick(c, i)
                                    \/ DropLabelTick(c, i) \/ DropPRTick(c, i)
        PROVE  Fewer
    BY <1>1, <1>7 DEF DropMessage, PollTick, DropPollTick, LabelTick, PRTick, DropLabelTick,
       DropPRTick, TickFrame, DropFrame
  <1>8. CASE ProcessRestart
    BY <1>1, <1>8 DEF ProcessRestart
  <1>9. CASE (\E a \in agents : AgentActs(a)) \/ (\E i \in Issues : HumanActs(i))
    BY <1>1, <1>9 DEF AgentActs, CoderBegins, CoderOpensPR, CoderFinishes, ReviewerPasses,
       ReviewerRejects, AgentDies, HumanActs, HumanConfirms, HumanMerges, HumanClosesPR,
       AgentFrame
  <1>. QED BY <1>3, <1>4, <1>5, <1>6, <1>7, <1>8, <1>9 DEF Next

\* A step takes no slot beyond max_per_project, unless it takes up PRs found open.
LEMMA SlotsBounded ==
  ASSUME TypeOK, [Next]_vars,
         \A c \in Clients : \A m \in flight[c] : HandleOpenPRs(c, m) => m.prs = {}
  PROVE  SlotCount' <= MaxPerProject \/ SlotCount' <= SlotCount
  <1>1. CASE UNCHANGED vars
    <2>1. SlotCount' = SlotCount
      BY <1>1 DEF vars, loopVars, SlotCount, HasSlot
    <2>2. \A i \in Issues : HasSlot(i)' => HasSlot(i)
      BY <1>1 DEF vars, loopVars, HasSlot
    <2>. QED BY <2>2, AdmittedCount
  <1>2. CASE \A i \in Issues : HasSlot(i)' => HasSlot(i)
    BY <1>2, AdmittedCount
  <1>3. CASE \E c \in Clients : \E m \in flight[c] :
               /\ m.op = "polled" /\ m.todo \subseteq Issues
               /\ \A i \in Issues : HasSlot(i)' => HasSlot(i) \/ i \in Admitted(m.todo)
    BY <1>3, AdmittedCount
  <1>. QED BY <1>1, <1>2, <1>3, SlotsTaken

-----------------------------------------------------------------------------
(* Off, and not yet started. *)

\* Whoever stops the loop forgets its slots, and a handler makes none while it is off.
LEMMA OffStep ==
  ASSUME TypeOK, OffInv, [Next]_vars
  PROVE  OffInv'
  <1> SUFFICES ASSUME ~active', NEW i \in Issues PROVE slots'[i] = NoSlot
    BY DEF OffInv
  <1> USE DEF loopVars
  <1>1. CASE slots' = [k \in Issues |-> NoSlot]
    BY <1>1
  <1>2. CASE UNCHANGED <<active, slots>>
    BY <1>2 DEF OffInv
  <1>3. ASSUME NEW c \in Clients, NEW m \in flight[c], HandleMessage(c, m)
        PROVE  slots'[i] = NoSlot
    <2>i. m \in Item
      BY InFlightItem
    <2>1. CASE HandleLabelCheck(c, m) \/ HandleLabelsEnsured(c, m)
      BY <1>1, <1>2, <2>1 DEF HandleLabelCheck, HandleLabelsEnsured, ExecutePendingOp
    <2>2. CASE ~HandleLabelCheck(c, m) /\ ~HandleLabelsEnsured(c, m)
      <3>1. HandlerFrame
        BY <1>3, <2>2 DEF HandleMessage, HandlePolled, HandleOpenPRs, HandleCreated,
           HandleWritten, HandleLaunched, HandleLabels, HandlePRStatus, HandleMerged,
           HandleCleaned
      <3>2. UNCHANGED active /\ ~active
        BY <3>1 DEF HandlerFrame
      <3>3. \A k \in Issues : slots[k].state = "None" /\ ~HasSlot(k)
        BY <3>2 DEF OffInv, NoSlot, HasSlot
      <3>4. CASE HandleCleaned(c, m)
        BY <3>2, <3>4 DEF HandleCleaned, OffInv, TypeOK
      <3>5. CASE ~HandleCleaned(c, m)
        <4>1. CASE HandlePolled(c, m) \/ HandleOpenPRs(c, m)
          BY <3>2, <4>1 DEF HandlePolled, HandleOpenPRs, Ignored, OffInv
        <4>2. CASE \/ HandleCreated(c, m) \/ HandleWritten(c, m) \/ HandleLaunched(c, m)
                   \/ HandleLabels(c, m) \/ HandlePRStatus(c, m) \/ HandleMerged(c, m)
          <5>1. m.issue \in Issues
            BY <4>2, <2>i, ItemFields DEF HandleCreated, HandleWritten, HandleLaunched,
               HandleLabels, HandlePRStatus, HandleMerged, Delivered
          <5>2. Ignored(c, m)
            BY <3>3, <4>2, <5>1 DEF HandleCreated, HandleWritten, HandleLaunched,
               HandleLabels, ReviewRequested, ReviewPassed, ChangesNeeded, HandlePRStatus,
               HandleMerged
          <5>. QED BY <3>2, <5>2, <1>2 DEF Ignored
        <4>. QED BY <1>3, <2>2, <3>5, <4>1, <4>2 DEF HandleMessage
      <3>. QED BY <3>4, <3>5
    <2>. QED BY <2>1, <2>2
  <1>4. ASSUME NEW c \in Clients,
               \/ UserActs(c)
               \/ \E m \in flight[c] : RunCommand(c, m) \/ DropMessage(c, m)
               \/ PollTick(c) \/ DropPollTick(c)
               \/ \E k \in Issues : \/ LabelTick(c, k) \/ PRTick(c, k)
                                    \/ DropLabelTick(c, k) \/ DropPRTick(c, k)
        PROVE  slots'[i] = NoSlot
    <2>1. ASSUME UserActs(c) PROVE slots'[i] = NoSlot
      BY <1>1, <1>2, <2>1 DEF UserActs, StopLoop, PressStart, ConfirmLabels, ShowOverlay,
         DismissOverlay, RemoteQuit
    <2>2. ASSUME NEW m \in flight[c], RunCommand(c, m) PROVE slots'[i] = NoSlot
      BY <1>2, <2>2 DEF RunCommand, Answers, CheckLabels, EnsureLabels, PollTodo,
         ScanOpenPRs, CleanupMerged, CreateWorktree, WriteAgent, LaunchAgent, PollLabels,
         PollPR, LookUpPR, TryMerge, RemoveWorktree, CloseIssue
    <2>3. ASSUME \/ \E m \in flight[c] : DropMessage(c, m)
                 \/ PollTick(c) \/ DropPollTick(c)
                 \/ \E k \in Issues : \/ LabelTick(c, k) \/ PRTick(c, k)
                                      \/ DropLabelTick(c, k) \/ DropPRTick(c, k)
          PROVE  slots'[i] = NoSlot
      BY <1>2, <2>3 DEF DropMessage, PollTick, DropPollTick, LabelTick, PRTick,
         DropLabelTick, DropPRTick, TickFrame, DropFrame
    <2>. QED BY <1>4, <2>1, <2>2, <2>3
  <1>5. CASE ProcessRestart
    BY <1>1, <1>5 DEF ProcessRestart
  <1>6. CASE (\E a \in agents : AgentActs(a)) \/ (\E k \in Issues : HumanActs(k))
    BY <1>2, <1>6 DEF AgentActs, CoderBegins, CoderOpensPR, CoderFinishes, ReviewerPasses,
       ReviewerRejects, AgentDies, HumanActs, HumanConfirms, HumanMerges, HumanClosesPR,
       AgentFrame
  <1>7. CASE UNCHANGED vars
    BY <1>2, <1>7 DEF vars
  <1>. QED BY <1>3, <1>4, <1>5, <1>6, <1>7 DEF Next

\* Starts are spent one by one, each for one operation to be confirmed.
LEMMA StartsSpent ==
  ASSUME TypeOK, [Next]_vars
  PROVE  \/ /\ budget'.starts = budget.starts
            /\ \A c \in Clients : pendingOp'[c] => pendingOp[c]
         \/ \E c \in Clients :
               /\ budget'.starts = budget.starts - 1
               /\ pendingOp' = [pendingOp EXCEPT ![c] = TRUE]
  <1> DEFINE Kept == /\ budget'.starts = budget.starts
                     /\ \A c \in Clients : pendingOp'[c] => pendingOp[c]
  <1> USE DEF clientVars
  <1>t. budget \in [starts : Nat, overlays : Nat, ends : Nat] /\ pendingOp \in [Clients -> BOOLEAN]
    BY DEF TypeOK
  <1>b. budget' = [budget EXCEPT !.ends = @ - 1] \/ budget' = [budget EXCEPT !.overlays = @ - 1]
          => budget'.starts = budget.starts
    BY <1>t
  <1>p. ASSUME NEW c \in Clients, pendingOp' = [pendingOp EXCEPT ![c] = FALSE]
        PROVE  \A d \in Clients : pendingOp'[d] => pendingOp[d]
    BY <1>t, <1>p
  <1>1. CASE UNCHANGED <<budget, pendingOp>>
    BY <1>1
  <1>2. ASSUME NEW c \in Clients, UserActs(c), ~PressStart(c) PROVE Kept
    BY <1>b, <1>p, <1>2 DEF UserActs, StopLoop, ConfirmLabels, ShowOverlay, DismissOverlay,
       RemoteQuit
  <1>3. ASSUME NEW c \in Clients, PressStart(c)
        PROVE  \E d \in Clients : /\ budget'.starts = budget.starts - 1
                                  /\ pendingOp' = [pendingOp EXCEPT ![d] = TRUE]
    BY <1>t, <1>3 DEF PressStart
  <1>4. ASSUME NEW c \in Clients, NEW m \in flight[c], RunCommand(c, m) PROVE Kept
    BY <1>1, <1>4 DEF RunCommand, Answers, CheckLabels, EnsureLabels, PollTodo, ScanOpenPRs,
       CleanupMerged, CreateWorktree, WriteAgent, LaunchAgent, PollLabels, PollPR, LookUpPR,
       TryMerge, RemoveWorktree, CloseIssue
  <1>5. ASSUME NEW c \in Clients, NEW m \in flight[c], HandleMessage(c, m) PROVE Kept
    <2>1. CASE HandleLabelCheck(c, m) \/ HandleLabelsEnsured(c, m)
      BY <1>1, <1>p, <2>1 DEF HandleLabelCheck, HandleLabelsEnsured, ExecutePendingOp
    <2>2. CASE ~HandleLabelCheck(c, m) /\ ~HandleLabelsEnsured(c, m)
      <3>1. HandlerFrame
        BY <1>5, <2>2 DEF HandleMessage, HandlePolled, HandleOpenPRs, HandleCreated,
           HandleWritten, HandleLaunched, HandleLabels, HandlePRStatus, HandleMerged,
           HandleCleaned
      <3>. QED BY <3>1, <1>1 DEF HandlerFrame
    <2>. QED BY <2>1, <2>2
  <1>6. ASSUME NEW c \in Clients,
               \/ \E m \in flight[c] : DropMessage(c, m)
               \/ PollTick(c) \/ DropPollTick(c)
               \/ \E k \in Issues : \/ LabelTick(c, k) \/ PRTick(c, k)
                                    \/ DropLabelTick(c, k) \/ DropPRTick(c, k)
        PROVE  Kept
    BY <1>1, <1>6 DEF DropMessage, PollTick, DropPollTick, LabelTick, PRTick, DropLabelTick,
       DropPRTick, TickFrame, DropFrame
  <1>7. CASE ProcessRestart
    BY <1>b, <1>7 DEF ProcessRestart
  <1>8. CASE (\E a \in agents : AgentActs(a)) \/ (\E k \in Issues : HumanActs(k))
    BY <1>1, <1>8 DEF AgentActs, CoderBegins, CoderOpensPR, CoderFinishes, ReviewerPasses,
       ReviewerRejects, AgentDies, HumanActs, HumanConfirms, HumanMerges, HumanClosesPR,
       AgentFrame
  <1>9. CASE UNCHANGED vars
    BY <1>1, <1>9 DEF vars
  <1>. QED BY <1>2, <1>3, <1>4, <1>5, <1>6, <1>7, <1>8, <1>9 DEF Next

\* What is in flight after a replacement is new or was there beside what was replaced.
LEMMA FromReplace ==
  ASSUME TypeOK, NEW c \in Clients, NEW m, NEW new, Replace(c, m, new)
  PROVE  \A d \in Clients : \A o \in flight'[d] :
            \/ o \in flight[d] /\ ~(d = c /\ o = m)
            \/ d = c /\ o \in new
  BY DEF TypeOK, Replace

\* What is in flight after a request is the request or was there.
LEMMA FromRequest ==
  ASSUME TypeOK, NEW c \in Clients, NEW x, flight' = [flight EXCEPT ![c] = @ \cup {x}]
  PROVE  \A d \in Clients : \A o \in flight'[d] : o \in flight[d] \/ (d = c /\ o = x)
  BY DEF TypeOK

\* What a step has to show that starts nothing.
LEMMA StillUntouched ==
  ASSUME TypeOK, Untouched, ~active', agents' = {}, UNCHANGED <<prs, rejected>>,
         \A d \in Clients : \A o \in flight'[d] : o \in flight[d] \/ o.op \in StartOp,
         \A i \in Issues : labels'[i] = labels[i] \/ labels'[i] = {"todo"},
         UNCHANGED labelTicks \/ labelTicks' = [c \in Clients |-> [i \in Issues |-> 0]]
  PROVE  Untouched'
  <1>1. \A i \in Issues : Is(i, {"pending", "todo"})'
    BY DEF Untouched, Is
  <1>2. \A i \in Issues : Chains(i)' = {}
    BY DEF Untouched, Chains
  <1>. QED BY <1>1, <1>2 DEF Untouched

\* Only the confirmed start of the loop ends that nothing was started.
LEMMA UntouchedStep ==
  ASSUME TypeOK, Untouched, [Next]_vars
  PROVE  \/ Untouched'
         \/ \E c \in Clients : /\ pendingOp[c] /\ UNCHANGED budget
                               /\ pendingOp' = [pendingOp EXCEPT ![c] = FALSE]
  <1> DEFINE Started == \E c \in Clients : /\ pendingOp[c] /\ UNCHANGED budget
                                           /\ pendingOp' = [pendingOp EXCEPT ![c] = FALSE]
  <1> USE DEF loopVars, timerVars, trackerVars, agentVars
  <1>u. /\ ~active /\ agents = {}
        /\ \A c \in Clients : \A m \in flight[c] : m.op \in StartOp
        /\ \A i \in Issues : prs[i] = "none" /\ rejected[i] = 0
    BY DEF Untouched
  <1>t. \A c \in Clients, i \in Issues : ~(labelTicks[c][i] > 0)
    <2>1. ASSUME NEW c \in Clients, NEW i \in Issues, labelTicks[c][i] > 0 PROVE FALSE
      <3>1. labelTicks[c][i] \in Nat
        BY DEF TypeOK
      <3>2. <<c, 1>> \in Chains(i)
        BY <2>1, <3>1 DEF Chains
      <3>. QED BY <3>2 DEF Untouched
    <2>. QED BY <2>1
  <1>k. ASSUME UNCHANGED <<active, agents, prs, rejected, labels, labelTicks>>,
               \A d \in Clients : \A o \in flight'[d] : o \in flight[d] \/ o.op \in StartOp
        PROVE  Untouched'
    BY <1>k, <1>u, StillUntouched
  <1>1. ASSUME NEW c \in Clients, UserActs(c) PROVE Untouched'
    <2>1. UNCHANGED <<active, agents, prs, rejected, labels, labelTicks>>
      BY <1>1, <1>u DEF UserActs, StopLoop, PressStart, ConfirmLabels, ShowOverlay,
         DismissOverlay, RemoteQuit
    <2>2. \/ UNCHANGED flight
          \/ \E op \in {"labelCheck", "ensureLabels"} :
                flight' = [flight EXCEPT ![c] = @ \cup {Cmd(op)}]
      BY <1>1, <1>u DEF UserActs, StopLoop, PressStart, ConfirmLabels, ShowOverlay,
         DismissOverlay, RemoteQuit
    <2>3. \A op \in {"labelCheck", "ensureLabels"} : Cmd(op).op \in StartOp
      BY DEF Cmd, StartOp
    <2>. QED BY <1>k, <2>1, <2>2, <2>3, FromRequest
  <1>2. ASSUME NEW c \in Clients, NEW m \in flight[c], RunCommand(c, m) PROVE Untouched'
    <2>1. CheckLabels(c, m) \/ EnsureLabels(c, m)
      BY <1>2, <1>u DEF RunCommand, Running, StartOp, PollTodo, ScanOpenPRs,
         CleanupMerged, CreateWorktree, WriteAgent, LaunchAgent, PollLabels, PollPR, LookUpPR,
         TryMerge, RemoveWorktree, CloseIssue
    <2>2. PICK x : Answers(c, m, x) /\ x.op \in StartOp
      <3>1. CASE CheckLabels(c, m)
        <4>1. PICK r : Answers(c, m, [op |-> "labelChecked", issue |-> NoIssue, res |-> r])
          BY <3>1 DEF CheckLabels
        <4> DEFINE x == [op |-> "labelChecked", issue |-> NoIssue, res |-> r]
        <4>2. Answers(c, m, x) /\ x.op \in StartOp
          BY <4>1 DEF StartOp
        <4> HIDE DEF x
        <4>. QED BY <4>2
      <3>2. CASE EnsureLabels(c, m)
        <4>1. PICK ok : Answers(c, m, [op |-> "labelsEnsured", issue |-> NoIssue, ok |-> ok])
          BY <3>2 DEF EnsureLabels
        <4> DEFINE x == [op |-> "labelsEnsured", issue |-> NoIssue, ok |-> ok]
        <4>2. Answers(c, m, x) /\ x.op \in StartOp
          BY <4>1 DEF StartOp
        <4> HIDE DEF x
        <4>. QED BY <4>2
      <3>. QED BY <2>1, <3>1, <3>2
    <2>3. \A d \in Clients : \A o \in flight'[d] : o \in flight[d] \/ o.op \in StartOp
      BY <2>2, FromReplace DEF Answers
    <2>. QED BY <1>k, <2>2, <2>3 DEF Answers
  <1>3. ASSUME NEW c \in Clients, NEW m \in flight[c], HandleMessage(c, m)
        PROVE  Untouched' \/ Started
    <2>1. HandleLabelCheck(c, m) \/ HandleLabelsEnsured(c, m)
      BY <1>3, <1>u DEF HandleMessage, Delivered, StartOp, HandlePolled, HandleOpenPRs,
         HandleCreated, HandleWritten, HandleLaunched, HandleLabels, HandlePRStatus,
         HandleMerged, HandleCleaned
    <2>2. CASE pendingOp[c] /\ ExecutePendingOp(c, m)
      BY <2>2 DEF ExecutePendingOp
    <2>3. CASE ~(pendingOp[c] /\ ExecutePendingOp(c, m))
      <3>1. /\ UNCHANGED <<active, agents, prs, rejected, labels, labelTicks>>
            /\ Replace(c, m, {})
        BY <2>1, <2>3 DEF HandleLabelCheck, HandleLabelsEnsured, ExecutePendingOp
      <3>. QED BY <1>k, <3>1, FromReplace
    <2>. QED BY <2>2, <2>3
  <1>4. ASSUME NEW c \in Clients, NEW m \in flight[c], DropMessage(c, m) PROVE Untouched'
    BY <1>k, <1>4, FromReplace DEF DropMessage, DropFrame
  <1>5. ASSUME NEW c \in Clients,
               \/ PollTick(c) \/ DropPollTick(c)
               \/ \E i \in Issues : \/ LabelTick(c, i) \/ PRTick(c, i)
                                    \/ DropLabelTick(c, i) \/ DropPRTick(c, i)
        PROVE  Untouched'
    <2>1. \A i \in Issues : ~LabelTick(c, i) /\ ~DropLabelTick(c, i)
      BY <1>t DEF LabelTick, DropLabelTick
    <2>2. UNCHANGED <<active, agents, prs, rejected, labels, labelTicks, flight>>
      BY <1>5, <1>u, <2>1 DEF PollTick, DropPollTick, PRTick, PRTickKeeps, DropPRTick,
         TickFrame, DropFrame
    <2>. QED BY <1>k, <2>2
  <1>6. CASE ProcessRestart
    BY <1>6, <1>u, StillUntouched DEF ProcessRestart
  <1>7. ASSUME NEW i \in Issues, HumanActs(i) PROVE Untouched'
    <2>1. HumanConfirms(i)
      BY <1>7, <1>u DEF HumanActs, HumanMerges, HumanClosesPR
    <2>2. \A k \in Issues : labels'[k] = labels[k] \/ labels'[k] = {"todo"}
      BY <2>1 DEF HumanConfirms, TypeOK
    <2>. QED BY <1>u, <2>1, <2>2, StillUntouched DEF HumanConfirms, AgentFrame
  <1>8. CASE UNCHANGED vars
    BY <1>k, <1>8 DEF vars
  <1>. QED BY <1>u, <1>1, <1>2, <1>3, <1>4, <1>5, <1>6, <1>7, <1>8 DEF Next

\* The loop is started once at most, from where nothing was started.
LEMMA StartStep ==
  ASSUME TypeOK, StartInv, FirstRun', [Next]_vars
  PROVE  StartInv' /\ FirstRun
  <1>t. /\ budget.starts \in Nat /\ budget'.starts \in Int /\ MaxStarts \in Nat
        /\ pendingOp \in [Clients -> BOOLEAN]
    BY LoopAssumption, StartsSpent DEF TypeOK
  <1>1. CASE /\ budget'.starts = budget.starts
             /\ \A c \in Clients : pendingOp'[c] => pendingOp[c]
    <2>1. FirstRun
      BY <1>1 DEF FirstRun
    <2>2. ASSUME budget'.starts = MaxStarts \/ (\E c \in Clients : pendingOp'[c])
          PROVE  Untouched'
      <3>1. Untouched
        BY <1>1, <2>2 DEF StartInv
      <3>2. ASSUME NEW c \in Clients, pendingOp[c], UNCHANGED budget,
                   pendingOp' = [pendingOp EXCEPT ![c] = FALSE]
            PROVE  FALSE
        <4>1. budget.starts # MaxStarts
          BY <3>2 DEF StartInv
        <4>2. PICK d \in Clients : pendingOp'[d]
          BY <1>1, <2>2, <4>1
        <4>3. pendingOp[d] /\ d # c
          BY <1>t, <3>2, <4>2
        <4>. QED BY <3>2, <4>3 DEF StartInv
      <3>. QED BY <3>1, <3>2, UntouchedStep
    <2>. QED BY <1>1, <2>1, <2>2 DEF StartInv
  <1>2. ASSUME NEW c \in Clients, budget'.starts = budget.starts - 1,
               pendingOp' = [pendingOp EXCEPT ![c] = TRUE]
        PROVE  StartInv' /\ FirstRun
    <2>1. budget.starts = MaxStarts
      BY <1>t, <1>2 DEF StartInv, FirstRun
    <2>2. Untouched /\ \A d \in Clients : ~pendingOp[d]
      BY <2>1 DEF StartInv
    <2>3. Untouched'
      BY <2>2, UntouchedStep
    <2>4. budget'.starts < MaxStarts
      BY <1>t, <1>2, <2>1
    <2>5. \A d, e \in Clients : pendingOp'[d] /\ pendingOp'[e] => d = e
      BY <1>t, <1>2, <2>2
    <2>6. FirstRun
      BY <1>t, <2>1 DEF FirstRun
    <2>. QED BY <1>t, <2>3, <2>4, <2>5, <2>6 DEF StartInv
  <1>. QED BY <1>1, <1>2, StartsSpent

-----------------------------------------------------------------------------
(* One issue at a time: what the cases of the proof have in common. *)

\* Heartbeats of label polls that only end.
LEMMA ChainsKept ==
  ASSUME TypeOK, NEW i \in Issues, IsFiniteSet(Chains(i)),
         \A c \in Clients : labelTicks'[c][i] <= labelTicks[c][i],
         \A c \in Clients : labelTicks'[c][i] \in Nat
  PROVE  IsFiniteSet(Chains(i)') /\ Cardinality(Chains(i)') <= Cardinality(Chains(i))
  <1>1. \A c \in Clients : labelTicks[c][i] \in Nat
    BY DEF TypeOK
  <1>2. Chains(i)' \subseteq Chains(i)
    BY <1>1 DEF Chains
  <1>. QED BY <1>2, FS_Subset, Zenon

\* A heartbeat of label polls that begins is one more.
LEMMA ChainsMore ==
  ASSUME TypeOK, NEW i \in Issues, NEW c \in Clients, IsFiniteSet(Chains(i)),
         ScheduleLabel(c, i)
  PROVE  IsFiniteSet(Chains(i)') /\ Cardinality(Chains(i)') <= Cardinality(Chains(i)) + 1
  <1> DEFINE new == <<c, labelTicks[c][i] + 1>>
             C == Chains(i)
  <1>1. \A d \in Clients : labelTicks[d][i] \in Nat
    BY DEF TypeOK
  <1>2. \A d \in Clients : labelTicks'[d][i] =
            IF d = c THEN labelTicks[d][i] + 1 ELSE labelTicks[d][i]
    BY DEF ScheduleLabel, TypeOK
  <1>3. Chains(i)' \subseteq C \cup {new}
    BY <1>1, <1>2 DEF Chains
  <1>4. /\ IsFiniteSet(C \cup {new})
        /\ Cardinality(C \cup {new}) <= Cardinality(C) + 1
        /\ Cardinality(C) \in Nat /\ Cardinality(C \cup {new}) \in Nat
    <2> HIDE DEF new, C
    <2>1. IsFiniteSet(C)
      BY DEF C
    <2>. QED BY <2>1, OneMore
  <1>5. IsFiniteSet(Chains(i)') /\ Cardinality(Chains(i)') <= Cardinality(C \cup {new})
    <2> HIDE DEF new, C
    <2>. QED BY <1>3, <1>4, FS_Subset, Zenon
  <1>6. Cardinality(Chains(i)') \in Nat
    BY <1>5, FS_CardinalityType
  <1>. QED BY <1>4, <1>5, <1>6

\* An issue has one hand on it when only one item is left.
LEMMA OneHandLeft ==
  ASSUME TypeOK, NEW i \in Issues, OneHand(i), NEW c \in Clients, NEW m \in flight[c],
         NEW new, Replace(c, m, new),
         InHand(m, i) \/ \A d \in Clients : \A o \in flight[d] : ~InHand(o, i),
         \A x, y \in new : InHand(x, i) /\ InHand(y, i) => x = y
  PROVE  /\ OneHand(i)'
         /\ \A d \in Clients : \A o \in flight'[d] : InHand(o, i) => d = c /\ o \in new
  <1>1. \A d \in Clients : \A o \in flight'[d] :
            \/ o \in flight[d] /\ ~(d = c /\ o = m)
            \/ d = c /\ o \in new
    BY FromReplace
  <1>2. \A d \in Clients : \A o \in flight'[d] : InHand(o, i) => d = c /\ o \in new
    BY <1>1 DEF OneHand
  <1>3. ASSUME NEW d \in Clients, NEW e \in Clients, NEW o \in flight'[d], NEW p \in flight'[e],
               InHand(o, i), InHand(p, i)
        PROVE  d = e /\ o = p
    BY <1>2, <1>3
  <1>4. OneHand(i)'
    BY <1>3 DEF OneHand, InHand
  <1>. QED BY <1>2, <1>4

\* It still has one at most when no other is put on it.
LEMMA OneHandKept ==
  ASSUME NEW i \in Issues, OneHand(i),
         \A d \in Clients : \A o \in flight'[d] : InHand(o, i) => o \in flight[d]
  PROVE  OneHand(i)'
  BY DEF OneHand, InHand

\* What is about the issue, and what nothing is claimed of.
SilentOp == {"pollLabels", "pollPR", "prStatus", "merge", "merged"}

\* The slot, the label and the verdicts of an issue are as before, and at most
\* agents and heartbeats end.
Same(i) ==
    /\ active' => active /\ slots'[i] = slots[i]
    /\ labels'[i] = labels[i] /\ rejected'[i] = rejected[i]
    /\ AgentsOf(i)' \subseteq AgentsOf(i)
    /\ \A c \in Clients : labelTicks'[c][i] <= labelTicks[c][i]
    /\ \A c \in Clients : labelTicks'[c][i] \in Nat

\* What such a step leaves true of an item.
LEMMA ItemSame ==
  ASSUME NEW i \in Issues, Same(i), NEW m, ItemInv(m, i)
  PROVE  ItemInv(m, i)'
  BY DEF Same, ItemInv, HandLabel, HandSlot, Is, Finishing

\* What such a step leaves true of the issue.
LEMMA IssueSame ==
  ASSUME TypeOK, NEW i \in Issues, IssueInv(i), Same(i), OneHand(i)',
         \A d \in Clients : \A o \in flight'[d] : o.issue = i => o \in flight[d] \/ ItemInv(o, i)'
  PROVE  IssueInv(i)'
  <1>1. Is(i, Label)'
    BY DEF IssueInv, Same, Is
  <1>2. \A c \in Clients : \A m \in flight'[c] : m.issue = i => ItemInv(m, i)'
    BY ItemSame DEF IssueInv
  <1>3. /\ \A a, b \in AgentsOf(i)' : a = b
        /\ \A a \in AgentsOf(i)' : AgentLabel(a)'
    <2>1. \A a \in AgentsOf(i)' : a \in AgentsOf(i) /\ a.issue = i
      BY DEF Same, AgentsOf
    <2>. QED BY <2>1 DEF IssueInv, Same, AgentLabel, Is
  <1>4. IsFiniteSet(Chains(i)') /\ Cardinality(Chains(i)') <= Cardinality(Chains(i))
    BY ChainsKept DEF IssueInv, Same
  <1>n. /\ Cardinality(Chains(i)) \in Nat /\ Cardinality(Chains(i)') \in Nat
        /\ rejected[i] \in Nat
    <2>1. rejected[i] \in Nat
      BY DEF TypeOK
    <2>. QED BY <1>4, <2>1, FS_CardinalityType DEF IssueInv
  <1>5. Cardinality(Chains(i)') <= 2 * (rejected'[i] + 1)
    <2>1. Cardinality(Chains(i)) <= 2 * (rejected[i] + 1) /\ rejected'[i] = rejected[i]
      BY DEF IssueInv, Same
    <2>. QED BY <1>n, <1>4, <2>1
  <1>6. ASSUME active' PROVE SlotInv(i)'
    <2>1. SlotInv(i) /\ slots'[i] = slots[i] /\ labels'[i] = labels[i] /\ rejected'[i] = rejected[i]
      BY <1>6 DEF IssueInv, Same
    <2>2. SlotLabel(i)' /\ SlotRounds(i)'
      BY <2>1 DEF SlotInv, SlotLabel, SlotRounds, Is
    <2>3. SlotAgents(i)'
      BY <2>1 DEF SlotInv, SlotAgents, Same
    <2>4. ChainsOf(i)' = ChainsOf(i)
      BY <2>1 DEF ChainsOf, Is
    <2>5. ChainsOf(i) \in Nat
      BY <1>n DEF ChainsOf, TypeOK, Slot
    <2>6. Cardinality(Chains(i)) <= ChainsOf(i)
      BY <2>1 DEF SlotInv
    <2>7. Cardinality(Chains(i)') <= ChainsOf(i)'
      BY <1>n, <1>4, <2>4, <2>5, <2>6
    <2>. QED BY <2>2, <2>3, <2>7 DEF SlotInv
  <1>. QED BY <1>1, <1>2, <1>3, <1>4, <1>5, <1>6 DEF IssueInv

\* In particular where nothing new is claimed of the issue.
LEMMA IssueKept ==
  ASSUME TypeOK, NEW i \in Issues, IssueInv(i), Same(i),
         \A d \in Clients : \A o \in flight'[d] :
             o.issue = i => o \in flight[d] \/ o.op \in SilentOp
  PROVE  IssueInv(i)'
  <1>1. \A o : o.op \in SilentOp => ~InHand(o, i) /\ ItemInv(o, i)'
    BY DEF SilentOp, InHand, HandOp, ItemInv, CleanupOp
  <1>2. OneHand(i)'
    BY <1>1, OneHandKept DEF IssueInv, InHand
  <1>. QED BY <1>1, <1>2, IssueSame

-----------------------------------------------------------------------------
(* The commands. *)

\* What a command's answer tells.
Answer(m, x) ==
    /\ x.issue = m.issue /\ m.op # "cleanupMerged"
    /\ m.op = "create" => x.op = "created"
    /\ m.op = "write" => x.op = "written"
    /\ m.op = "launch" => x.op = "launched" /\ x.role = m.role
    /\ m.op = "pollLabels" => x.op = "labels" /\ x.labels \subseteq labels[m.issue]
    /\ m.op = "cleanup" => x.op = "close"
    /\ m.op = "close" => x.op = "cleaned"
    /\ m.op = "pollPR" => x.op = "prStatus"
    /\ m.op = "merge" => x.op \in {"merge", "merged"}
    /\ m.op = "poll" => x.op = "polled" /\ x.todo \subseteq {i \in Issues : IsTodo(i)}
    /\ m.op = "scanPRs" => x.op = "openPRs" /\ x.prs \subseteq {i \in Issues : prs[i] = "open"}
    /\ m.op \in {"labelCheck", "ensureLabels"} => x.op \in StartOp

\* What a command puts in flight is its answer, or nothing after the first cleanup.
LEMMA CommandAnswers ==
  ASSUME TypeOK, NEW c \in Clients, NEW m \in flight[c], RunCommand(c, m)
  PROVE  /\ m.op \in CommandOp
         /\ Replace(c, m, {}) \/ \E x : Replace(c, m, {x}) /\ Answer(m, x)
  <1> DEFINE Right(x) == Replace(c, m, {x}) /\ Answer(m, x)
  <1>0. m.op \in CommandOp
    BY DEF RunCommand, Running, CommandOp, CheckLabels, EnsureLabels, PollTodo, ScanOpenPRs,
       CleanupMerged, CreateWorktree, WriteAgent, LaunchAgent, PollLabels, PollPR, LookUpPR,
       TryMerge, RemoveWorktree, CloseIssue
  <1>a. \A x : Answers(c, m, x) => Replace(c, m, {x})
    BY DEF Answers
  <1>m. m \in Item
    BY InFlightItem
  <1>1. ASSUME CheckLabels(c, m) PROVE \E x : Right(x)
    <2>1. PICK r : Answers(c, m, [op |-> "labelChecked", issue |-> NoIssue, res |-> r])
      BY <1>1 DEF CheckLabels
    <2> DEFINE x == [op |-> "labelChecked", issue |-> NoIssue, res |-> r]
    <2>2. m.op = "labelCheck" /\ m.issue = NoIssue
      BY <1>1, <1>m, ItemFields DEF CheckLabels, Running
    <2>3. Right(x)
      BY <1>a, <2>1, <2>2 DEF Answer, StartOp
    <2> HIDE DEF x
    <2>. QED BY <2>3
  <1>2. ASSUME EnsureLabels(c, m) PROVE \E x : Right(x)
    <2>1. PICK ok : Answers(c, m, [op |-> "labelsEnsured", issue |-> NoIssue, ok |-> ok])
      BY <1>2 DEF EnsureLabels
    <2> DEFINE x == [op |-> "labelsEnsured", issue |-> NoIssue, ok |-> ok]
    <2>2. m.op = "ensureLabels" /\ m.issue = NoIssue
      BY <1>2, <1>m, ItemFields DEF EnsureLabels, Running
    <2>3. Right(x)
      BY <1>a, <2>1, <2>2 DEF Answer, StartOp
    <2> HIDE DEF x
    <2>. QED BY <2>3
  <1>3. ASSUME NEW ok \in BOOLEAN, NEW unread \in SUBSET Issues, PollTodo(c, m, ok, unread)
        PROVE  \E x : Right(x)
    <2> DEFINE todo == {i \in Issues : IsTodo(i) /\ DependenciesDone(i)}
               x == [op |-> "polled", issue |-> NoIssue, ok |-> ok,
                     todo |-> IF ok THEN todo \ unread ELSE {}]
    <2>2. m.op = "poll" /\ m.issue = NoIssue
      BY <1>3, <1>m, ItemFields DEF PollTodo, Running
    <2>3. Right(x)
      BY <1>a, <1>3, <2>2 DEF Answer, PollTodo
    <2> HIDE DEF x
    <2>. QED BY <2>3
  <1>4. ASSUME ScanOpenPRs(c, m) PROVE \E x : Right(x)
    <2>1. PICK ok, ls :
            Answers(c, m, [op |-> "openPRs", issue |-> NoIssue, ok |-> ok,
                           prs |-> {i \in Issues : ok /\ prs[i] = "open"}, labels |-> ls])
      BY <1>4 DEF ScanOpenPRs
    <2> DEFINE x == [op |-> "openPRs", issue |-> NoIssue, ok |-> ok,
                     prs |-> {i \in Issues : ok /\ prs[i] = "open"}, labels |-> ls]
    <2>2. m.op = "scanPRs" /\ m.issue = NoIssue
      BY <1>4, <1>m, ItemFields DEF ScanOpenPRs, Running
    <2>3. Right(x)
      BY <1>a, <2>1, <2>2 DEF Answer
    <2> HIDE DEF x
    <2>. QED BY <2>3
  <1>5. ASSUME CleanupMerged(c, m) PROVE Replace(c, m, {})
    BY <1>5 DEF CleanupMerged
  <1>6. ASSUME CreateWorktree(c, m) PROVE \E x : Right(x)
    <2>1. PICK ok : Replace(c, m, {[op |-> "created", issue |-> m.issue, ok |-> ok]})
      BY <1>6 DEF CreateWorktree
    <2> DEFINE x == [op |-> "created", issue |-> m.issue, ok |-> ok]
    <2>2. Right(x)
      BY <1>6, <2>1 DEF Answer, CreateWorktree, Running
    <2> HIDE DEF x
    <2>. QED BY <2>2
  <1>7. ASSUME WriteAgent(c, m) PROVE \E x : Right(x)
    <2>1. PICK ok : Answers(c, m, [op |-> "written", issue |-> m.issue, ok |-> ok])
      BY <1>7 DEF WriteAgent
    <2> DEFINE x == [op |-> "written", issue |-> m.issue, ok |-> ok]
    <2>2. Right(x)
      BY <1>a, <1>7, <2>1 DEF Answer, WriteAgent, Running
    <2> HIDE DEF x
    <2>. QED BY <2>2
  <1>8. ASSUME LaunchAgent(c, m) PROVE \E x : Right(x)
    <2>1. PICK ok : Replace(c, m, {[op |-> "launched", issue |-> m.issue, role |-> m.role,
                                    ok |-> ok]})
      BY <1>8 DEF LaunchAgent
    <2> DEFINE x == [op |-> "launched", issue |-> m.issue, role |-> m.role, ok |-> ok]
    <2>2. Right(x)
      BY <1>8, <2>1 DEF Answer, LaunchAgent, Running
    <2> HIDE DEF x
    <2>. QED BY <2>2
  <1>9. ASSUME NEW ok \in BOOLEAN, PollLabels(c, m, ok) PROVE \E x : Right(x)
    <2> DEFINE x == [op |-> "labels", issue |-> m.issue, ok |-> ok,
                     labels |-> IF ok THEN labels[m.issue] ELSE {}]
    <2>1. Right(x)
      BY <1>a, <1>9 DEF Answer, PollLabels, Running
    <2> HIDE DEF x
    <2>. QED BY <2>1
  <1>10. ASSUME NEW ok \in BOOLEAN, PollPR(c, m, ok) PROVE \E x : Right(x)
    <2> DEFINE x == [op |-> "prStatus", issue |-> m.issue, ok |-> ok,
                     pr |-> IF ok THEN PRByBranch(m.branch) ELSE "none"]
    <2>1. Right(x)
      BY <1>a, <1>10 DEF Answer, PollPR, Running
    <2> HIDE DEF x
    <2>. QED BY <2>1
  <1>11. ASSUME LookUpPR(c, m) \/ TryMerge(c, m) PROVE \E x : Right(x)
    <2>m. m.op = "merge"
      BY <1>11 DEF LookUpPR, TryMerge, Running
    <2>k. \A k : LET x == [m EXCEPT !.attempt = k] IN x.op = "merge" /\ x.issue = m.issue
      BY <1>m, <2>m DEF Item, Command, Message
    <2>1. ASSUME NEW k, Replace(c, m, {[m EXCEPT !.attempt = k]}) PROVE \E x : Right(x)
      <3> DEFINE x == [m EXCEPT !.attempt = k]
      <3>1. Right(x)
        BY <2>m, <2>k, <2>1 DEF Answer
      <3> HIDE DEF x
      <3>. QED BY <3>1
    <2>2. ASSUME NEW kind, Replace(c, m, {[op |-> "merged", issue |-> m.issue, kind |-> kind]})
          PROVE  \E x : Right(x)
      <3> DEFINE x == [op |-> "merged", issue |-> m.issue, kind |-> kind]
      <3>1. Right(x)
        BY <2>m, <2>2 DEF Answer
      <3> HIDE DEF x
      <3>. QED BY <3>1
    <2>3. \/ \E k : Replace(c, m, {[m EXCEPT !.attempt = k]})
          \/ \E kind : Replace(c, m, {[op |-> "merged", issue |-> m.issue, kind |-> kind]})
      BY <1>11 DEF LookUpPR, TryMerge, AfterFailure
    <2>4. \E x : Right(x)
      BY <2>1, <2>2, <2>3
    <2>. QED BY <2>4
  <1>12. ASSUME RemoveWorktree(c, m) PROVE \E x : Right(x)
    <2> DEFINE x == [op |-> "close", issue |-> m.issue]
    <2>1. Right(x)
      BY <1>12 DEF Answer, RemoveWorktree, Running, IssueCmd
    <2> HIDE DEF x
    <2>. QED BY <2>1
  <1>13. ASSUME CloseIssue(c, m) PROVE \E x : Right(x)
    <2> DEFINE x == [op |-> "cleaned", issue |-> m.issue]
    <2>1. Right(x)
      BY <1>13 DEF Answer, CloseIssue, Running
    <2> HIDE DEF x
    <2>. QED BY <2>1
  <1> HIDE DEF Right
  <1>14. Replace(c, m, {}) \/ \E x : Right(x)
    <2>1. RunCommand(c, m)
      OBVIOUS
    <2>. QED BY <2>1, <1>1, <1>2, <1>3, <1>4, <1>5, <1>6, <1>7, <1>8, <1>9, <1>10, <1>11,
            <1>12, <1>13 DEF RunCommand
  <1>. QED BY <1>0, <1>14 DEF Right

\* What no command but the launch of an agent changes of an issue.
LEMMA CommandSame ==
  ASSUME TypeOK, NEW i \in Issues, NEW c \in Clients, NEW m \in flight[c], RunCommand(c, m),
         UNCHANGED agents \/ m.issue # i
  PROVE  Same(i)
  <1>1. UNCHANGED <<active, slots, labels, rejected, labelTicks>>
    BY DEF RunCommand, Answers, CheckLabels, EnsureLabels, PollTodo, ScanOpenPRs,
       CleanupMerged, CreateWorktree, WriteAgent, LaunchAgent, PollLabels, PollPR, LookUpPR,
       TryMerge, RemoveWorktree, CloseIssue, loopVars, timerVars, trackerVars, agentVars
  <1>2. AgentsOf(i)' \subseteq AgentsOf(i)
    <2>1. CASE UNCHANGED agents
      BY <2>1 DEF AgentsOf
    <2>2. CASE LaunchAgent(c, m) /\ m.issue # i
      BY <2>2 DEF LaunchAgent, AgentsOf
    <2>3. CASE ~LaunchAgent(c, m)
      <3>1. UNCHANGED agents
        BY <2>3 DEF RunCommand, Answers, CheckLabels, EnsureLabels, PollTodo, ScanOpenPRs,
           CleanupMerged, CreateWorktree, WriteAgent, PollLabels, PollPR, LookUpPR,
           TryMerge, RemoveWorktree, CloseIssue, agentVars
      <3>. QED BY <3>1 DEF AgentsOf
    <2>. QED BY <2>1, <2>2, <2>3
  <1>3. \A d \in Clients : labelTicks'[d][i] <= labelTicks[d][i] /\ labelTicks'[d][i] \in Nat
    BY <1>1 DEF TypeOK
  <1>. QED BY <1>1, <1>2, <1>3 DEF Same

\* A command keeps what is true of an issue, unless it launches an agent.
LEMMA CommandIssue ==
  ASSUME TypeOK, NEW i \in Issues, IssueInv(i), NEW c \in Clients, NEW m \in flight[c],
         RunCommand(c, m), UNCHANGED agents \/ m.issue # i
  PROVE  IssueInv(i)'
  <1>s. Same(i)
    BY CommandSame
  <1>1. CASE Replace(c, m, {})
    <2>1. \A d \in Clients : \A o \in flight'[d] : o \in flight[d]
      BY <1>1, FromReplace
    <2>. QED BY <1>s, <2>1, IssueKept
  <1>2. ASSUME NEW x, Replace(c, m, {x}), Answer(m, x) PROVE IssueInv(i)'
    <2>1. \A d \in Clients : \A o \in flight'[d] : o \in flight[d] \/ o = x
      BY <1>2, FromReplace
    <2>2. CASE m.issue # i
      <3>1. \A d \in Clients : \A o \in flight'[d] : o.issue = i => o \in flight[d]
        BY <1>2, <2>1, <2>2 DEF Answer
      <3>. QED BY <1>s, <3>1, IssueKept
    <2>3. CASE m.issue = i /\ m.op \in {"pollPR", "merge"}
      <3>1. x.op \in SilentOp
        BY <1>2, <2>3 DEF Answer, SilentOp
      <3>. QED BY <1>s, <2>1, <3>1, IssueKept
    <2>4. CASE m.issue = i /\ m.op \notin {"pollPR", "merge"}
      <3>1. m.op \in {"create", "write", "launch", "pollLabels", "cleanup", "close"}
        <4>1. m.op \notin {"labelCheck", "ensureLabels", "poll", "scanPRs", "cleanupMerged"}
          BY <2>4, InFlightItem, ItemFields, LoopAssumption DEF NoIssue
        <4>. QED BY <2>4, <4>1, CommandAnswers DEF CommandOp
      <3>2. ItemInv(m, i)
        BY <2>4 DEF IssueInv
      <3>3. ItemInv(x, i)
        BY <1>2, <2>4, <3>1, <3>2 DEF ItemInv, Answer, HandOp, HandLabel, HandSlot, CleanupOp
      <3>4. ItemInv(x, i)'
        BY <1>s, <3>3, ItemSame
      <3>5. OneHand(i)'
        <4>1. CASE InHand(m, i)
          BY <1>2, <4>1, OneHandLeft DEF IssueInv
        <4>2. CASE ~InHand(m, i)
          <5>1. ~InHand(x, i)
            BY <1>2, <2>4, <3>1, <4>2 DEF InHand, HandOp, Answer
          <5>2. \A d \in Clients : \A o \in flight'[d] : InHand(o, i) => o \in flight[d]
            BY <2>1, <5>1
          <5>. QED BY <5>2, OneHandKept DEF IssueInv
        <4>. QED BY <4>1, <4>2
      <3>. QED BY <1>s, <2>1, <3>4, <3>5, IssueSame
    <2>. QED BY <2>2, <2>3, <2>4
  <1>. QED BY <1>1, <1>2, CommandAnswers

\* The launch of an agent does too: none was at work on the issue.
LEMMA LaunchIssue ==
  ASSUME TypeOK, NEW i \in Issues, IssueInv(i), NEW c \in Clients, NEW m \in flight[c],
         LaunchAgent(c, m), m.issue = i
  PROVE  IssueInv(i)'
  <1>1. UNCHANGED <<active, slots, labels, rejected, labelTicks>> /\ m.op = "launch"
    BY DEF LaunchAgent, Running, loopVars, timerVars, trackerVars
  <1>r. m.role \in Role
    BY <1>1, InFlightItem, ItemFields
  <1>2. CASE UNCHANGED agents
    BY <1>2, CommandIssue DEF RunCommand
  <1>3. ASSUME NEW n \in 1..MaxAgents,
               agents' = agents \cup {[issue |-> m.issue, role |-> m.role, dir |-> m.dir,
                                       n |-> n, began |-> FALSE]}
        PROVE  IssueInv(i)'
    <2> DEFINE a == [issue |-> m.issue, role |-> m.role, dir |-> m.dir, n |-> n, began |-> FALSE]
    <2>a. a.issue = i /\ a.role = m.role /\ a.began = FALSE
      OBVIOUS
    <2>i. InHand(m, i) /\ ItemInv(m, i)
      BY <1>1 DEF InHand, HandOp, IssueInv
    <2>l. HandLabel(m, i) /\ (active => HandSlot(m, i)) /\ AgentsOf(i) = {}
      BY <2>i, <1>1 DEF ItemInv, InHand, HandLabel
    <2>g. agents' = agents \cup {a}
      BY <1>3
    <2> HIDE DEF a
    <2>1. AgentsOf(i)' = {a}
      BY <2>a, <2>g, <2>l DEF AgentsOf
    <2>2. Is(i, Label)' /\ IsFiniteSet(Chains(i))'
          /\ (Cardinality(Chains(i)) <= 2 * (rejected[i] + 1))'
      BY <1>1 DEF IssueInv, Is, Chains
    <2>3. /\ \A b, d \in AgentsOf(i)' : b = d
          /\ \A b \in AgentsOf(i)' : AgentLabel(b)'
      <3>1. AgentLabel(a)'
        BY <1>1, <1>r, <2>a, <2>l DEF HandLabel, AgentLabel, Is, Role
      <3>. QED BY <2>1, <3>1
    <2>4. PICK x : Replace(c, m, {x}) /\ Answer(m, x)
      <3>1. PICK ok : Replace(c, m, {[op |-> "launched", issue |-> m.issue, role |-> m.role,
                                      ok |-> ok]})
        BY DEF LaunchAgent
      <3> DEFINE x == [op |-> "launched", issue |-> m.issue, role |-> m.role, ok |-> ok]
      <3>2. Replace(c, m, {x}) /\ Answer(m, x)
        BY <1>1, <3>1 DEF Answer
      <3> HIDE DEF x
      <3>. QED BY <3>2
    <2>5. x.op = "launched" /\ x.role = m.role /\ x.issue = i
      BY <1>1, <2>4 DEF Answer
    <2>6. /\ OneHand(i)'
          /\ \A d \in Clients : \A o \in flight'[d] : InHand(o, i) => o = x
      <3>1. \A y, z \in {x} : InHand(y, i) /\ InHand(z, i) => y = z
        OBVIOUS
      <3>. QED BY <2>i, <2>4, <3>1, OneHandLeft DEF IssueInv
    <2>7. ItemInv(x, i)'
      BY <1>1, <2>5, <2>l DEF ItemInv, HandLabel, HandSlot, HandOp, CleanupOp
    <2>8. ASSUME NEW d \in Clients, NEW o \in flight'[d], o.issue = i PROVE ItemInv(o, i)'
      <3>1. CASE InHand(o, i)
        BY <2>6, <2>7, <2>8, <3>1
      <3>2. CASE ~InHand(o, i)
        <4>1. o \in flight[d]
          BY <2>4, <2>5, <3>2, FromReplace DEF InHand, HandOp
        <4>2. ItemInv(o, i)
          BY <2>8, <4>1 DEF IssueInv
        <4>. QED BY <1>1, <2>8, <3>2, <4>2 DEF ItemInv, InHand, Finishing, Is
      <3>. QED BY <3>1, <3>2
    <2>9. ASSUME active' PROVE SlotInv(i)'
      <3>1. SlotInv(i)
        BY <1>1, <2>9 DEF IssueInv
      <3>2. SlotLabel(i)' /\ SlotRounds(i)' /\ (Cardinality(Chains(i)) <= ChainsOf(i))'
        BY <1>1, <3>1 DEF SlotInv, SlotLabel, SlotRounds, Is, Chains, ChainsOf
      <3>3. HandSlot(m, i)
        BY <1>1, <2>9, <2>l
      <3>4. SlotAgents(i)'
        BY <1>1, <1>r, <2>1, <2>a, <3>3 DEF SlotAgents, HandSlot, Role
      <3>. QED BY <3>2, <3>4 DEF SlotInv
    <2>. QED BY <2>2, <2>3, <2>6, <2>8, <2>9 DEF IssueInv
  <1>. QED BY <1>2, <1>3 DEF LaunchAgent

-----------------------------------------------------------------------------
(* The handlers of a slot. *)

\* The states in which something is done for the slot, and what is done says which.
LEMMA NoHands ==
  ASSUME NEW i \in Issues, IssueInv(i), active,
         slots[i].state \notin {"CreatingWorktree", "WritingAgent", "LaunchingCoder",
                                "LaunchingReviewer"}
  PROVE  \A d \in Clients : \A o \in flight[d] : ~InHand(o, i)
  BY DEF IssueInv, InHand, ItemInv, HandSlot

\* What a handler has to show for the issue whose slot it moves.
LEMMA SlotStep ==
  ASSUME TypeOK, TypeOK', NEW i \in Issues, IssueInv(i), active,
         UNCHANGED <<active, labels, rejected, agents>>,
         NEW c \in Clients, NEW m \in flight[c], NEW new, Replace(c, m, new),
         InHand(m, i) \/ \A d \in Clients : \A o \in flight[d] : ~InHand(o, i),
         \A x, y \in new : InHand(x, i) /\ InHand(y, i) => x = y,
         \A x \in new : x.issue = i => ItemInv(x, i)',
         Finishing(i) => Finishing(i)',
         IsFiniteSet(Chains(i)'), SlotInv(i)'
  PROVE  IssueInv(i)'
  <1>1. Is(i, Label)'
    BY DEF IssueInv, Is
  <1>2. /\ OneHand(i)'
        /\ \A d \in Clients : \A o \in flight'[d] : InHand(o, i) => d = c /\ o \in new
    BY OneHandLeft DEF IssueInv
  <1>3. ASSUME NEW d \in Clients, NEW o \in flight'[d], o.issue = i PROVE ItemInv(o, i)'
    <2>1. CASE o \in new
      BY <1>3, <2>1
    <2>2. CASE o \notin new
      <3>1. o \in flight[d] /\ o.op \notin HandOp
        BY <1>2, <1>3, <2>2, FromReplace DEF InHand
      <3>2. ItemInv(o, i)
        BY <1>3, <3>1 DEF IssueInv
      <3>. QED BY <3>1, <3>2 DEF ItemInv
    <2>. QED BY <2>1, <2>2
  <1>4. /\ \A a, b \in AgentsOf(i)' : a = b
        /\ \A a \in AgentsOf(i)' : AgentLabel(a)'
    BY DEF IssueInv, AgentsOf, AgentLabel, Is
  <1>5. Cardinality(Chains(i)') <= 2 * (rejected'[i] + 1)
    <2>1. rejected'[i] \in Nat /\ slots'[i].round \in Nat /\ Cardinality(Chains(i)') \in Nat
      BY FS_CardinalityType DEF TypeOK, Slot
    <2>2. slots'[i].round <= rejected'[i] /\ Cardinality(Chains(i)') <= ChainsOf(i)'
      BY DEF SlotInv, SlotRounds
    <2>3. ChainsOf(i)' \in Nat /\ ChainsOf(i)' <= 2 * (rejected'[i] + 1)
      BY <2>1, <2>2 DEF ChainsOf
    <2>. QED BY <2>1, <2>2, <2>3
  <1>. QED BY <1>1, <1>2, <1>3, <1>4, <1>5 DEF IssueInv

\* A handler that returns early keeps what is true of an issue.
LEMMA IgnoredIssue ==
  ASSUME TypeOK, NEW i \in Issues, IssueInv(i), NEW c \in Clients, NEW m \in flight[c],
         Ignored(c, m), UNCHANGED <<active, labels, rejected, agents>>
  PROVE  IssueInv(i)'
  <1>1. Same(i)
    BY DEF Same, Ignored, timerVars, TypeOK, AgentsOf
  <1>2. \A d \in Clients : \A o \in flight'[d] : o \in flight[d]
    BY FromReplace DEF Ignored
  <1>. QED BY <1>1, <1>2, IssueKept

\* So does one that handles a message of another issue.
LEMMA OtherIssue ==
  ASSUME TypeOK, NEW i \in Issues, IssueInv(i), NEW c \in Clients, NEW m \in flight[c],
         NEW new, Replace(c, m, new), \A x \in new : x.issue # i,
         slots'[i] = slots[i], UNCHANGED <<active, labels, rejected, agents>>,
         \A d \in Clients : labelTicks'[d][i] = labelTicks[d][i]
  PROVE  IssueInv(i)'
  <1>1. Same(i)
    BY DEF Same, TypeOK, AgentsOf
  <1>2. \A d \in Clients : \A o \in flight'[d] : o.issue = i => o \in flight[d]
    BY FromReplace
  <1>. QED BY <1>1, <1>2, IssueKept

\* A slot that fails claims nothing any more.
LEMMA ErrorIssue ==
  ASSUME TypeOK, TypeOK', NEW i \in Issues, IssueInv(i), active, HasSlot(i), ~Finishing(i),
         UNCHANGED <<active, labels, rejected, agents, labelTicks>>,
         NEW c \in Clients, NEW m \in flight[c], Replace(c, m, {}), slots' = Moved(i, "Error"),
         InHand(m, i) \/ \A d \in Clients : \A o \in flight[d] : ~InHand(o, i)
  PROVE  IssueInv(i)'
  <1>1. slots'[i].state = "Error" /\ slots'[i].round = slots[i].round
    BY DEF Moved, TypeOK, Slot
  <1>2. Chains(i)' = Chains(i) /\ IsFiniteSet(Chains(i)) /\ SlotInv(i)
    BY DEF Chains, IssueInv
  <1>3. Cardinality(Chains(i)) \in Nat /\ slots[i].round \in Nat /\ rejected[i] \in Nat
    BY <1>2, FS_CardinalityType DEF TypeOK, Slot
  <1>4. Cardinality(Chains(i)) <= 2 * slots[i].round + 2 /\ slots[i].round <= rejected[i]
    BY <1>2, <1>3 DEF SlotInv, ChainsOf, HasSlot, SlotRounds
  <1>5. SlotInv(i)'
    BY <1>1, <1>2, <1>3, <1>4 DEF SlotInv, SlotLabel, SlotAgents, SlotRounds, ChainsOf
  <1>. QED BY <1>2, <1>5, SlotStep

\* The worktree was created, or was not.
LEMMA CreatedIssue ==
  ASSUME TypeOK, TypeOK', NEW i \in Issues, IssueInv(i), active, NEW c \in Clients,
         NEW m \in flight[c], HandleCreated(c, m), m.issue = i, HasSlot(i)
  PROVE  IssueInv(i)'
  <1>u. UNCHANGED <<active, labels, rejected, agents, labelTicks>>
    BY DEF HandleCreated, HandlerFrame, Ignored, timerVars, trackerVars, agentVars
  <1>h. InHand(m, i) /\ ItemInv(m, i) /\ m.op = "created"
    BY DEF HandleCreated, Delivered, InHand, HandOp, IssueInv
  <1>s. /\ slots[i].state = "CreatingWorktree" /\ Is(i, {"todo"}) /\ AgentsOf(i) = {}
        /\ SlotInv(i) /\ IsFiniteSet(Chains(i))
    BY <1>h DEF ItemInv, HandOp, HandSlot, HandLabel, IssueInv
  <1>r. /\ slots[i].round \in Nat /\ rejected[i] \in Nat /\ slots[i].round = rejected[i]
    BY <1>s DEF TypeOK, Slot, SlotInv, SlotRounds
  <1>f. ~Finishing(i) /\ IsFiniteSet(Chains(i)')
    BY <1>s, <1>u DEF Finishing, Chains
  <1>c. Chains(i)' = Chains(i) /\ Cardinality(Chains(i)) <= 2 * slots[i].round
    BY <1>s, <1>u DEF SlotInv, Chains, ChainsOf
  <1>n. Cardinality(Chains(i)) \in Nat
    BY <1>s, FS_CardinalityType
  <1>l. Is(i, {"todo", "needs-changes"})' /\ AgentsOf(i)' = {}
    BY <1>s, <1>u DEF Is, AgentsOf
  <1>1. CASE m.ok
    <2>1. /\ slots' = [slots EXCEPT ![i] = [@ EXCEPT !.state = "WritingAgent", !.branch = m.issue,
                                                     !.wt = m.issue]]
          /\ Replace(c, m, {IssueCmd("write", i)})
      BY <1>1, <1>h DEF HandleCreated, Ignored
    <2>2. slots'[i].state = "WritingAgent" /\ slots'[i].round = slots[i].round
      BY <2>1 DEF TypeOK, Slot
    <2>3. ItemInv(IssueCmd("write", i), i)'
      BY <2>2, <1>l DEF IssueCmd, ItemInv, HandOp, HandLabel, HandSlot, CleanupOp
    <2>4. SlotInv(i)'
      BY <1>u, <1>r, <1>c, <1>l, <1>n, <2>2
      DEF SlotInv, SlotLabel, SlotAgents, SlotRounds, ChainsOf
    <2>. QED BY <1>u, <1>h, <1>f, <2>1, <2>3, <2>4, SlotStep
  <1>2. CASE ~m.ok
    <2>1. slots' = Moved(i, "Error") /\ Replace(c, m, {})
      BY <1>2, <1>h DEF HandleCreated, Ignored
    <2>. QED BY <1>u, <1>h, <1>s, <2>1, ErrorIssue DEF Finishing, HasSlot
  <1>. QED BY <1>1, <1>2

\* The agent's instructions were written, or were not.
LEMMA WrittenIssue ==
  ASSUME TypeOK, TypeOK', NEW i \in Issues, IssueInv(i), active, NEW c \in Clients,
         NEW m \in flight[c], HandleWritten(c, m), m.issue = i, HasSlot(i)
  PROVE  IssueInv(i)'
  <1>u. UNCHANGED <<active, labels, rejected, agents, labelTicks>>
    BY DEF HandleWritten, HandlerFrame, Ignored, timerVars, trackerVars, agentVars
  <1>h. InHand(m, i) /\ ItemInv(m, i) /\ m.op = "written"
    BY DEF HandleWritten, Delivered, InHand, HandOp, IssueInv
  <1>s. /\ slots[i].state = "WritingAgent" /\ Is(i, {"todo", "needs-changes"})
        /\ AgentsOf(i) = {} /\ SlotInv(i) /\ IsFiniteSet(Chains(i))
    BY <1>h DEF ItemInv, HandOp, HandSlot, HandLabel, IssueInv
  <1>r. /\ slots[i].round \in Nat /\ rejected[i] \in Nat /\ slots[i].round = rejected[i]
    BY <1>s DEF TypeOK, Slot, SlotInv, SlotRounds
  <1>f. ~Finishing(i) /\ IsFiniteSet(Chains(i)')
    BY <1>s, <1>u DEF Finishing, Chains
  <1>c. Chains(i)' = Chains(i) /\ Cardinality(Chains(i)) <= 2 * slots[i].round
    BY <1>s, <1>u DEF SlotInv, Chains, ChainsOf
  <1>n. Cardinality(Chains(i)) \in Nat
    BY <1>s, FS_CardinalityType
  <1>l. /\ Is(i, {"todo", "needs-changes"})' /\ AgentsOf(i)' = {}
        /\ Is(i, {"todo", "needs-changes", "wip", "review"})'
    BY <1>s, <1>u DEF Is, AgentsOf
  <1>1. CASE m.ok
    <2>1. slots' = Moved(i, "LaunchingCoder") /\ Replace(c, m, {LaunchCmd(i, "coder")})
      BY <1>1, <1>h DEF HandleWritten, Ignored
    <2>2. slots'[i].state = "LaunchingCoder" /\ slots'[i].round = slots[i].round
      BY <2>1 DEF Moved, TypeOK, Slot
    <2>x. PICK x : x = LaunchCmd(i, "coder")
      OBVIOUS
    <2>3. ItemInv(x, i)'
      BY <2>x, <2>2, <1>l DEF LaunchCmd, ItemInv, HandOp, HandLabel, HandSlot, CleanupOp
    <2>4. SlotInv(i)'
      BY <1>u, <1>r, <1>c, <1>l, <1>n, <2>2
      DEF SlotInv, SlotLabel, SlotAgents, SlotRounds, ChainsOf
    <2>. QED BY <1>u, <1>h, <1>f, <2>x, <2>1, <2>3, <2>4, SlotStep
  <1>2. CASE ~m.ok
    <2>1. slots' = Moved(i, "Error") /\ Replace(c, m, {})
      BY <1>2, <1>h DEF HandleWritten, Ignored
    <2>. QED BY <1>u, <1>h, <1>s, <2>1, ErrorIssue DEF Finishing, HasSlot
  <1>. QED BY <1>1, <1>2

\* The agent was launched, or was not.
LEMMA LaunchedIssue ==
  ASSUME TypeOK, TypeOK', NEW i \in Issues, IssueInv(i), active, NEW c \in Clients,
         NEW m \in flight[c], HandleLaunched(c, m), m.issue = i, HasSlot(i)
  PROVE  IssueInv(i)'
  <1>u. UNCHANGED <<active, labels, rejected, agents>> /\ Replace(c, m, {})
    BY DEF HandleLaunched, HandlerFrame, Ignored, trackerVars, agentVars
  <1>h. InHand(m, i) /\ ItemInv(m, i) /\ m.op = "launched" /\ m.role \in Role
    BY InFlightItem, ItemFields DEF HandleLaunched, Delivered, InHand, HandOp, IssueInv
  <1>s. /\ slots[i].state = IF m.role = "coder" THEN "LaunchingCoder" ELSE "LaunchingReviewer"
        /\ SlotInv(i) /\ IsFiniteSet(Chains(i))
    BY <1>h DEF ItemInv, HandOp, HandSlot, IssueInv
  <1>f. ~Finishing(i)
    BY <1>s DEF Finishing
  <1>n. Cardinality(Chains(i)) \in Nat /\ slots[i].round \in Nat /\ rejected[i] \in Nat
    BY <1>s, FS_CardinalityType DEF TypeOK, Slot
  <1>l. /\ \A ls : Is(i, ls)' <=> Is(i, ls)
        /\ AgentsOf(i)' = AgentsOf(i)
    BY <1>u DEF Is, AgentsOf
  <1>1. CASE m.ok
    <2>1. /\ slots' = Moved(i, IF m.role = "coder" THEN "Coding" ELSE "Reviewing")
          /\ ScheduleLabel(c, i)
      BY <1>1, <1>h DEF HandleLaunched, Ignored
    <2>2. /\ slots'[i].state = IF m.role = "coder" THEN "Coding" ELSE "Reviewing"
          /\ slots'[i].round = slots[i].round
      BY <2>1 DEF Moved, TypeOK, Slot
    <2>3. IsFiniteSet(Chains(i)') /\ Cardinality(Chains(i)') <= Cardinality(Chains(i)) + 1
      BY <1>s, <2>1, ChainsMore
    <2>4. Cardinality(Chains(i)') \in Nat
      BY <2>3, FS_CardinalityType
    <2>5. SlotLabel(i)' /\ SlotAgents(i)' /\ SlotRounds(i)'
      BY <1>u, <1>s, <1>h, <1>l, <1>n, <2>2
      DEF SlotInv, SlotLabel, SlotAgents, SlotRounds, Role
    <2>6. Cardinality(Chains(i)') <= ChainsOf(i)'
      BY <1>s, <1>n, <2>2, <2>3, <2>4 DEF SlotInv, ChainsOf
    <2>7. SlotInv(i)'
      BY <2>5, <2>6 DEF SlotInv
    <2>. QED BY <1>u, <1>h, <1>f, <2>3, <2>7, SlotStep
  <1>2. CASE ~m.ok
    <2>1. slots' = Moved(i, "Error") /\ UNCHANGED labelTicks
      BY <1>2, <1>h DEF HandleLaunched, Ignored
    <2>. QED BY <1>u, <1>h, <1>s, <2>1, ErrorIssue DEF Finishing, HasSlot
  <1>. QED BY <1>1, <1>2

\* The slot waits no more for a merge: the PR is merged, or it goes to a person.
LEMMA ReviewedIssue ==
  ASSUME TypeOK, TypeOK', NEW i \in Issues, IssueInv(i), active,
         slots[i].state \in {"Reviewing", "AutoMerging", "WaitingPRMerge"},
         Is(i, {"ai-review"}), UNCHANGED <<active, labels, rejected, agents, labelTicks>>,
         NEW st \in {"AutoMerging", "WaitingPRMerge", "CleaningUp", "NeedsHuman"},
         slots' = Moved(i, st),
         NEW c \in Clients, NEW m \in flight[c], NEW new, Replace(c, m, new),
         \A x \in new : x.op \in {"merge"} \/ (x.op = "cleanup" /\ st = "CleaningUp")
  PROVE  IssueInv(i)'
  <1>1. slots'[i].state = st /\ slots'[i].round = slots[i].round
    BY DEF Moved, TypeOK, Slot
  <1>2. Chains(i)' = Chains(i) /\ IsFiniteSet(Chains(i)) /\ SlotInv(i)
    BY DEF Chains, IssueInv
  <1>3. Cardinality(Chains(i)) \in Nat /\ slots[i].round \in Nat /\ rejected[i] \in Nat
    BY <1>2, FS_CardinalityType DEF TypeOK, Slot
  <1>4. Cardinality(Chains(i)) <= 2 * slots[i].round + 2 /\ slots[i].round <= rejected[i]
    BY <1>2, <1>3 DEF SlotInv, ChainsOf, SlotRounds
  <1>5. Is(i, {"ai-review"})'
    BY DEF Is
  <1>6. SlotInv(i)'
    BY <1>1, <1>2, <1>3, <1>4, <1>5 DEF SlotInv, SlotLabel, SlotAgents, SlotRounds, ChainsOf
  <1>7. \A x \in new : ~InHand(x, i) /\ ItemInv(x, i)'
    BY <1>1, <1>5 DEF InHand, HandOp, ItemInv, CleanupOp, Finishing
  <1>8. \A d \in Clients : \A o \in flight[d] : ~InHand(o, i)
    BY NoHands
  <1>9. ~Finishing(i)
    BY DEF Finishing
  <1>. QED BY <1>2, <1>6, <1>7, <1>8, <1>9, SlotStep

\* The label poll told of the handover to the reviewer.
LEMMA RequestedIssue ==
  ASSUME TypeOK, TypeOK', NEW i \in Issues, IssueInv(i), active, NEW c \in Clients,
         NEW m \in flight[c], m.op = "labels", ReviewRequested(c, m), m.issue = i,
         UNCHANGED <<active, labels, rejected, agents>>
  PROVE  IssueInv(i)'
  <1>s. /\ slots[i].state = "Coding" /\ "review" \in m.labels
        /\ slots' = Moved(i, "LaunchingReviewer") /\ UNCHANGED labelTicks
        /\ Replace(c, m, {LaunchCmd(i, "reviewer")})
    BY DEF ReviewRequested, timerVars
  <1>v. SlotInv(i) /\ IsFiniteSet(Chains(i)) /\ "review" \in labels[i] /\ ItemInv(m, i)
    BY <1>s DEF IssueInv, ItemInv, Verdict
  <1>l. Is(i, {"review"})
    BY <1>v DEF IssueInv, Is
  <1>a. AgentsOf(i) = {}
    BY <1>s, <1>v, <1>l DEF IssueInv, SlotInv, SlotAgents, AgentLabel, Is, AgentsOf
  <1>n. Cardinality(Chains(i)) \in Nat /\ slots[i].round \in Nat /\ rejected[i] \in Nat
    BY <1>v, FS_CardinalityType DEF TypeOK, Slot
  <1>1. slots'[i].state = "LaunchingReviewer" /\ slots'[i].round = slots[i].round
    BY <1>s DEF Moved, TypeOK, Slot
  <1>2. /\ Is(i, {"review"})' /\ Is(i, {"review", "ai-review", "needs-changes"})'
        /\ ~Is(i, {"needs-changes"})' /\ AgentsOf(i)' = {} /\ Chains(i)' = Chains(i)
    BY <1>s, <1>l, <1>a DEF Is, AgentsOf, Chains
  <1>x. PICK x : x = LaunchCmd(i, "reviewer")
    OBVIOUS
  <1>3. ItemInv(x, i)'
    BY <1>x, <1>1, <1>2 DEF LaunchCmd, ItemInv, HandOp, HandLabel, HandSlot, CleanupOp
  <1>4. SlotInv(i)'
    BY <1>s, <1>v, <1>n, <1>1, <1>2
    DEF SlotInv, SlotLabel, SlotAgents, SlotRounds, ChainsOf
  <1>5. \A d \in Clients : \A o \in flight[d] : ~InHand(o, i)
    BY <1>s, NoHands
  <1>6. ~Finishing(i) /\ IsFiniteSet(Chains(i)')
    BY <1>s, <1>v, <1>2 DEF Finishing
  <1>7. Replace(c, m, {x})
    BY <1>s, <1>x
  <1>. QED BY <1>3, <1>4, <1>5, <1>6, <1>7, SlotStep

\* The label poll told of a verdict against the work.
LEMMA ChangesIssue ==
  ASSUME TypeOK, TypeOK', NEW i \in Issues, IssueInv(i), active, NEW c \in Clients,
         NEW m \in flight[c], m.op = "labels", ChangesNeeded(c, m), m.issue = i,
         UNCHANGED <<active, labels, rejected, agents>>
  PROVE  IssueInv(i)'
  <1>s. /\ slots[i].state = "Reviewing" /\ "needs-changes" \in m.labels /\ UNCHANGED labelTicks
    BY DEF ChangesNeeded, timerVars
  <1>v. SlotInv(i) /\ IsFiniteSet(Chains(i)) /\ "needs-changes" \in labels[i] /\ ItemInv(m, i)
    BY <1>s DEF IssueInv, ItemInv, Verdict
  <1>l. Is(i, {"needs-changes"}) /\ ~Is(i, {"ai-review"})
    BY <1>v DEF IssueInv, Is
  <1>a. AgentsOf(i) = {}
    BY <1>s, <1>v, <1>l DEF IssueInv, SlotInv, SlotAgents, AgentLabel, Is, AgentsOf
  <1>n. /\ Cardinality(Chains(i)) \in Nat /\ slots[i].round \in Nat /\ rejected[i] \in Nat
        /\ MaxReviewRounds \in Nat
    BY <1>v, FS_CardinalityType, LoopAssumption DEF TypeOK, Slot
  <1>r. rejected[i] = slots[i].round + 1 /\ Cardinality(Chains(i)) <= 2 * slots[i].round + 2
    BY <1>s, <1>v, <1>l, <1>n DEF SlotInv, SlotRounds, ChainsOf
  <1>2. /\ Is(i, {"needs-changes"})' /\ Is(i, {"todo", "needs-changes"})'
        /\ ~Is(i, {"ai-review"})' /\ AgentsOf(i)' = {} /\ Chains(i)' = Chains(i)
    BY <1>s, <1>l, <1>a DEF Is, AgentsOf, Chains
  <1>5. \A d \in Clients : \A o \in flight[d] : ~InHand(o, i)
    BY <1>s, NoHands
  <1>6. ~Finishing(i) /\ IsFiniteSet(Chains(i)')
    BY <1>s, <1>v, <1>2 DEF Finishing
  <1>7. CASE RoundsExhausted(i)
    <2>1. slots' = Moved(i, "NeedsHuman") /\ Replace(c, m, {})
      BY <1>7 DEF ChangesNeeded
    <2>2. slots'[i].state = "NeedsHuman" /\ slots'[i].round = slots[i].round
      BY <2>1 DEF Moved, TypeOK, Slot
    <2>3. rejected[i] > MaxReviewRounds
      BY <1>7, <1>n, <1>r DEF RoundsExhausted
    <2>4. SlotInv(i)'
      BY <1>n, <1>r, <1>2, <2>2, <2>3
      DEF SlotInv, SlotLabel, SlotAgents, SlotRounds, ChainsOf
    <2>. QED BY <1>5, <1>6, <2>1, <2>4, SlotStep
  <1>8. CASE ~RoundsExhausted(i)
    <2>x. PICK x : x = IssueCmd("write", i)
      OBVIOUS
    <2>1. slots' = [slots EXCEPT ![i] = NextRound(@)] /\ Replace(c, m, {x})
      BY <1>8, <2>x DEF ChangesNeeded
    <2>2. slots'[i].state = "WritingAgent" /\ slots'[i].round = slots[i].round + 1
      BY <2>1 DEF NextRound, TypeOK, Slot
    <2>3. ItemInv(x, i)'
      BY <2>x, <2>2, <1>2 DEF IssueCmd, ItemInv, HandOp, HandLabel, HandSlot, CleanupOp
    <2>4. SlotInv(i)'
      BY <1>n, <1>r, <1>2, <2>2
      DEF SlotInv, SlotLabel, SlotAgents, SlotRounds, ChainsOf
    <2>. QED BY <1>5, <1>6, <2>1, <2>3, <2>4, SlotStep
  <1>. QED BY <1>7, <1>8

\* The answer of a label poll, whatever it is.
LEMMA LabelsIssue ==
  ASSUME TypeOK, TypeOK', NEW i \in Issues, IssueInv(i), active, NEW c \in Clients,
         NEW m \in flight[c], HandleLabels(c, m), ~Ignored(c, m), m.issue = i
  PROVE  IssueInv(i)'
  <1>1. UNCHANGED <<active, labels, rejected, agents>> /\ m.op = "labels"
    BY DEF HandleLabels, Delivered, HandlerFrame, trackerVars, agentVars
  <1>2. CASE ReviewRequested(c, m)
    BY <1>1, <1>2, RequestedIssue
  <1>3. CASE ChangesNeeded(c, m)
    BY <1>1, <1>3, ChangesIssue
  <1>4. CASE ReviewPassed(c, m)
    <2>1. slots[i].state = "Reviewing" /\ "ai-review" \in m.labels /\ UNCHANGED labelTicks
      BY <1>4 DEF ReviewPassed, timerVars
    <2>2. "ai-review" \in labels[i]
      BY <1>1, <2>1 DEF IssueInv, ItemInv, Verdict
    <2>3. Is(i, {"ai-review"})
      BY <2>2 DEF IssueInv, Is
    <2>4. CASE slots' = Moved(i, "AutoMerging") /\ Replace(c, m, {MergeCmd(i)})
      <3>1. \A x \in {MergeCmd(i)} : x.op \in {"merge"}
        BY DEF MergeCmd
      <3> DEFINE new == {MergeCmd(i)}
      <3>2. Replace(c, m, new) /\ \A x \in new : x.op \in {"merge"}
        BY <2>4, <3>1
      <3> HIDE DEF new
      <3>. QED BY <1>1, <2>1, <2>3, <2>4, <3>2, ReviewedIssue
    <2>5. CASE slots' = Moved(i, "WaitingPRMerge") /\ Replace(c, m, {})
      BY <1>1, <2>1, <2>3, <2>5, ReviewedIssue
    <2>. QED BY <1>4, <2>4, <2>5 DEF ReviewPassed
  <1>. QED BY <1>2, <1>3, <1>4 DEF HandleLabels

\* The answers of the PR poll and of the auto-merge.
LEMMA MergedIssue ==
  ASSUME TypeOK, TypeOK', NEW i \in Issues, IssueInv(i), active, NEW c \in Clients,
         NEW m \in flight[c], HandlePRStatus(c, m) \/ HandleMerged(c, m), ~Ignored(c, m),
         m.issue = i
  PROVE  IssueInv(i)'
  <1>1. UNCHANGED <<active, labels, rejected, agents, labelTicks>>
    BY DEF HandlePRStatus, HandleMerged, HandlerFrame, trackerVars, agentVars, timerVars
  <1>2. slots[i].state \in {"AutoMerging", "WaitingPRMerge"} /\ Is(i, {"ai-review"})
    <2>1. slots[i].state \in {"AutoMerging", "WaitingPRMerge"}
      BY DEF HandlePRStatus, HandleMerged
    <2>. QED BY <2>1 DEF IssueInv, SlotInv, SlotLabel
  <1>3. CASE slots' = Moved(i, "CleaningUp") /\ Replace(c, m, {CleanupCmd(i)})
    <2> DEFINE new == {CleanupCmd(i)}
    <2>1. Replace(c, m, new) /\ \A x \in new : x.op = "cleanup"
      BY <1>3 DEF CleanupCmd
    <2> HIDE DEF new
    <2>. QED BY <1>1, <1>2, <1>3, <2>1, ReviewedIssue
  <1>4. CASE slots' = Moved(i, "NeedsHuman") /\ Replace(c, m, {})
    BY <1>1, <1>2, <1>4, ReviewedIssue
  <1>5. CASE slots' = Moved(i, "Error") /\ Replace(c, m, {})
    <2>1. HasSlot(i) /\ ~Finishing(i)
      BY <1>2 DEF HasSlot, Finishing
    <2>2. \A d \in Clients : \A o \in flight[d] : ~InHand(o, i)
      BY <1>2, NoHands
    <2>. QED BY <1>1, <1>5, <2>1, <2>2, ErrorIssue
  <1>. QED BY <1>3, <1>4, <1>5 DEF HandlePRStatus, HandleMerged

\* The slot is dropped when it was cleaned up.
LEMMA CleanedIssue ==
  ASSUME TypeOK, TypeOK', NEW i \in Issues, IssueInv(i), active, NEW c \in Clients,
         NEW m \in flight[c], HandleCleaned(c, m), m.issue = i
  PROVE  IssueInv(i)'
  <1>1. /\ UNCHANGED <<active, labels, rejected, agents, labelTicks>> /\ m.op = "cleaned"
        /\ Replace(c, m, {}) /\ slots' = [slots EXCEPT ![i] = NoSlot]
    BY DEF HandleCleaned, Delivered, HandlerFrame, trackerVars, agentVars, timerVars
  <1>2. slots'[i].state = "None" /\ slots'[i].round = 0
    BY <1>1 DEF NoSlot, TypeOK
  <1>3. Finishing(i) /\ SlotInv(i) /\ IsFiniteSet(Chains(i))
    BY <1>1 DEF IssueInv, ItemInv, CleanupOp
  <1>4. Finishing(i)' /\ Is(i, {"ai-review"})' /\ Is(i, {"pending", "todo", "ai-review"})'
    BY <1>1, <1>2, <1>3 DEF Finishing, Is
  <1>5. \A d \in Clients : \A o \in flight[d] : ~InHand(o, i)
    BY <1>3, NoHands DEF Finishing
  <1>6. AgentsOf(i)' = {}
    <2>1. ASSUME NEW a \in AgentsOf(i) PROVE FALSE
      <3>1. a.issue = i /\ a.role \in Role /\ AgentLabel(a)
        BY <2>1 DEF AgentsOf, IssueInv, TypeOK, Agent
      <3>2. a.began \in BOOLEAN
        BY <2>1 DEF AgentsOf, TypeOK, Agent
      <3>3. labels[i] = {"ai-review"}
        BY <1>3 DEF Finishing, Is
      <3>. QED BY <3>1, <3>2, <3>3 DEF AgentLabel, Is, Role
    <2>2. AgentsOf(i)' = AgentsOf(i)
      BY <1>1 DEF AgentsOf
    <2>. QED BY <2>1, <2>2
  <1>7. /\ Cardinality(Chains(i)) \in Nat /\ rejected[i] \in Nat /\ Chains(i)' = Chains(i)
        /\ Cardinality(Chains(i)) <= 2 * (rejected[i] + 1)
    BY <1>1, <1>3, FS_CardinalityType DEF TypeOK, Chains, IssueInv
  <1>8. SlotInv(i)'
    BY <1>1, <1>2, <1>4, <1>6, <1>7
    DEF SlotInv, SlotLabel, SlotAgents, SlotRounds, ChainsOf
  <1>. QED BY <1>1, <1>3, <1>4, <1>5, <1>7, <1>8, SlotStep

\* The answers that are about one slot keep what is true of every issue.
LEMMA SlotIssue ==
  ASSUME TypeOK, TypeOK', OffInv, NEW i \in Issues, IssueInv(i), NEW c \in Clients,
         NEW m \in flight[c],
         \/ HandleCreated(c, m) \/ HandleWritten(c, m) \/ HandleLaunched(c, m)
         \/ HandleLabels(c, m) \/ HandlePRStatus(c, m) \/ HandleMerged(c, m)
         \/ HandleCleaned(c, m)
  PROVE  IssueInv(i)'
  <1>u. UNCHANGED <<active, labels, rejected, agents>>
    BY DEF HandleCreated, HandleWritten, HandleLaunched, HandleLabels, HandlePRStatus,
       HandleMerged, HandleCleaned, HandlerFrame, trackerVars, agentVars
  <1>0. CASE Ignored(c, m)
    BY <1>0, <1>u, IgnoredIssue
  <1>i. m.issue \in Issues
    BY InFlightItem, ItemFields DEF HandleCreated, HandleWritten, HandleLaunched,
       HandleLabels, HandlePRStatus, HandleMerged, HandleCleaned, Delivered
  <1>1. CASE ~Ignored(c, m) /\ m.issue = i
    <2>1. CASE ~active
      <3>1. slots[i].state = "None" /\ ~HasSlot(i) /\ slots[i] = NoSlot
        BY <2>1 DEF OffInv, NoSlot, HasSlot
      <3>2. HandleCleaned(c, m)
        BY <1>1, <3>1 DEF HandleCreated, HandleWritten, HandleLaunched, HandleLabels,
           ReviewRequested, ReviewPassed, ChangesNeeded, HandlePRStatus, HandleMerged
      <3>3. /\ Replace(c, m, {}) /\ slots'[i] = slots[i]
            /\ UNCHANGED labelTicks
        BY <1>1, <3>1, <3>2 DEF HandleCleaned, timerVars, TypeOK
      <3>4. \A d \in Clients : labelTicks'[d][i] = labelTicks[d][i]
        BY <3>3
      <3>. QED BY <1>u, <3>3, <3>4, OtherIssue
    <2>2. CASE active
      <3>1. CASE HandleCreated(c, m) \/ HandleWritten(c, m) \/ HandleLaunched(c, m)
        <4>1. HasSlot(i)
          BY <1>1, <3>1 DEF HandleCreated, HandleWritten, HandleLaunched
        <4>. QED BY <1>1, <2>2, <3>1, <4>1, CreatedIssue, WrittenIssue, LaunchedIssue
      <3>2. CASE HandleLabels(c, m)
        BY <1>1, <2>2, <3>2, LabelsIssue
      <3>3. CASE HandlePRStatus(c, m) \/ HandleMerged(c, m)
        BY <1>1, <2>2, <3>3, MergedIssue
      <3>4. CASE HandleCleaned(c, m)
        BY <1>1, <2>2, <3>4, CleanedIssue
      <3>. QED BY <3>1, <3>2, <3>3, <3>4
    <2>. QED BY <2>1, <2>2
  <1>2. CASE ~Ignored(c, m) /\ m.issue # i
    <2>1. slots'[i] = slots[i]
      BY <1>2, <1>i DEF HandleCreated, HandleWritten, HandleLaunched, HandleLabels,
         ReviewRequested, ReviewPassed, ChangesNeeded, HandlePRStatus, HandleMerged,
         HandleCleaned, Moved, TypeOK
    <2>2. \A d \in Clients : labelTicks'[d][i] = labelTicks[d][i]
      <3>1. UNCHANGED labelTicks \/ ScheduleLabel(c, m.issue)
        BY <1>2 DEF HandleCreated, HandleWritten, HandleLaunched, HandleLabels,
           ReviewRequested, ReviewPassed, ChangesNeeded, HandlePRStatus, HandleMerged,
           HandleCleaned, timerVars
      <3>2. ASSUME ScheduleLabel(c, m.issue)
            PROVE  \A d \in Clients : labelTicks'[d][i] = labelTicks[d][i]
        BY <1>2, <1>i, <3>2 DEF ScheduleLabel, TypeOK
      <3>. QED BY <3>1, <3>2
    <2>3. PICK new : Replace(c, m, new) /\ \A x \in new : x.issue = m.issue
      <3> DEFINE Right(n) == Replace(c, m, n) /\ \A x \in n : x.issue = m.issue
      <3>1. Replace(c, m, {}) => Right({})
        OBVIOUS
      <3>2. \A x : Replace(c, m, {x}) /\ x.issue = m.issue => Right({x})
        OBVIOUS
      <3>3. /\ IssueCmd("write", m.issue).issue = m.issue
            /\ LaunchCmd(m.issue, "coder").issue = m.issue
            /\ LaunchCmd(m.issue, "reviewer").issue = m.issue
            /\ MergeCmd(m.issue).issue = m.issue
            /\ CleanupCmd(m.issue).issue = m.issue
        BY DEF IssueCmd, LaunchCmd, MergeCmd, CleanupCmd
      <3>4. \/ Replace(c, m, {})
            \/ Replace(c, m, {IssueCmd("write", m.issue)})
            \/ Replace(c, m, {LaunchCmd(m.issue, "coder")})
            \/ Replace(c, m, {LaunchCmd(m.issue, "reviewer")})
            \/ Replace(c, m, {MergeCmd(m.issue)})
            \/ Replace(c, m, {CleanupCmd(m.issue)})
        BY <1>2 DEF HandleCreated, HandleWritten, HandleLaunched, HandleLabels,
           ReviewRequested, ReviewPassed, ChangesNeeded, HandlePRStatus, HandleMerged,
           HandleCleaned
      <3> HIDE DEF Right
      <3>5. \E n : Right(n)
        BY <3>1, <3>2, <3>3, <3>4, Zenon
      <3>. QED BY <3>5 DEF Right
    <2>4. \A x \in new : x.issue # i
      BY <1>2, <2>3
    <2>. QED BY <1>u, <2>1, <2>2, <2>3, <2>4, OtherIssue
  <1>. QED BY <1>0, <1>1, <1>2

\* The todo poll gives a slot to issues that are todo and have none.
LEMMA PolledIssue ==
  ASSUME TypeOK, TypeOK', NEW i \in Issues, IssueInv(i), NEW c \in Clients,
         NEW m \in flight[c], HandlePolled(c, m), \A k \in m.todo : Is(k, {"todo"})
  PROVE  IssueInv(i)'
  <1>u. /\ UNCHANGED <<active, labels, rejected, agents, labelTicks>> /\ m.op = "polled"
        /\ m.todo \subseteq Issues
    BY InFlightItem, ItemFields
    DEF HandlePolled, TakeTodo, Delivered, HandlerFrame, trackerVars, agentVars, Ignored, timerVars
  <1>0. CASE Ignored(c, m)
    BY <1>0, <1>u, IgnoredIssue
  <1>1. CASE ~Ignored(c, m)
    <2>w. PICK listed \in BOOLEAN : TakeTodo(c, m, listed)
      BY <1>1 DEF HandlePolled
    <2> DEFINE adm      == Admitted(m.todo)
               leftover == {k \in adm : listed /\ MatchingWorktrees(k) # {}}
               fresh    == adm \ leftover
               cmd(k)   == [op |-> "create", issue |-> k, after |-> {j \in fresh : j > k}]
               new      == {cmd(k) : k \in fresh}
    <2>a. active /\ m.ok
      BY <1>1 DEF HandlePolled
    <2>1. PICK found \in [leftover -> wts] :
            slots' = [k \in Issues |-> IF k \in leftover THEN ResumedSlot(found[k])
                                       ELSE IF k \in fresh THEN FreshSlot ELSE slots[k]]
      BY <2>w DEF TakeTodo
    <2>2. Replace(c, m, new)
      BY <2>w DEF TakeTodo
    <2>3. /\ \A x \in new : x.op = "create" /\ x.issue \in fresh
          /\ \A x, y \in new : x.issue = y.issue => x = y
      <3>1. \A k : cmd(k).op = "create" /\ cmd(k).issue = k
        OBVIOUS
      <3> HIDE DEF cmd, fresh
      <3>. QED BY <3>1
    <2>4. adm \subseteq m.todo /\ \A k \in adm : slots[k].state = "None"
      BY DEF Admitted, HasSlot
    <2>5. CASE i \notin adm
      <3>1. slots'[i] = slots[i] /\ \A x \in new : x.issue # i
        BY <2>1, <2>3, <2>5
      <3>. QED BY <1>u, <2>2, <3>1, OtherIssue
    <2>6. CASE i \in adm
      <3>1. Is(i, {"todo"}) /\ ~Is(i, {"ai-review"}) /\ slots[i].state = "None"
        BY <2>4, <2>6 DEF Is
      <3>2. SlotInv(i) /\ IsFiniteSet(Chains(i))
        BY <2>a DEF IssueInv
      <3>3. rejected[i] = 0 /\ AgentsOf(i) = {} /\ Cardinality(Chains(i)) <= 0
        BY <3>1, <3>2 DEF SlotInv, SlotRounds, SlotAgents, ChainsOf
      <3>4. Cardinality(Chains(i)) \in Nat
        BY <3>2, FS_CardinalityType
      <3>5. \A d \in Clients : \A o \in flight[d] : ~InHand(o, i)
        BY <2>a, <3>1, NoHands
      <3>6. ~Finishing(i)
        BY <3>1 DEF Finishing
      <3>7. /\ Is(i, {"todo"})' /\ AgentsOf(i)' = {} /\ Chains(i)' = Chains(i)
            /\ Is(i, {"todo", "needs-changes", "wip", "review"})'
        BY <1>u, <3>1, <3>3 DEF Is, AgentsOf, Chains
      <3>8. /\ slots'[i].round = 0
            /\ i \in leftover => slots'[i].state = "Coding"
            /\ i \in fresh => slots'[i].state = "CreatingWorktree"
        BY <2>1, <2>6 DEF ResumedSlot, FreshSlot, NoSlot
      <3>9. slots'[i].state \in {"Coding", "CreatingWorktree"}
        BY <2>6, <3>8
      <3>10. SlotInv(i)'
        BY <1>u, <3>3, <3>4, <3>7, <3>8, <3>9
        DEF SlotInv, SlotLabel, SlotAgents, SlotRounds, ChainsOf
      <3>11. ASSUME NEW x \in new, x.issue = i PROVE ItemInv(x, i)'
        <4>1. x.op = "create" /\ slots'[i].state = "CreatingWorktree"
          BY <2>3, <3>8, <3>11
        <4>. QED BY <3>7, <4>1 DEF ItemInv, HandOp, HandLabel, HandSlot, CleanupOp
      <3>12. \A x, y \in new : InHand(x, i) /\ InHand(y, i) => x = y
        BY <2>3 DEF InHand
      <3> HIDE DEF new
      <3>. QED BY <1>u, <2>a, <2>2, <3>2, <3>5, <3>6, <3>7, <3>10, <3>11, <3>12, SlotStep
    <2>. QED BY <2>5, <2>6
  <1>. QED BY <1>0, <1>1

\* The scan for open PRs finds none, so nothing follows from it.
LEMMA OpenPRsIssue ==
  ASSUME TypeOK, NEW i \in Issues, IssueInv(i), NEW c \in Clients, NEW m \in flight[c],
         HandleOpenPRs(c, m), m.prs = {}
  PROVE  IssueInv(i)'
  <1>1. UNCHANGED <<active, labels, rejected, agents>>
    BY DEF HandleOpenPRs, HandlerFrame, trackerVars, agentVars
  <1>2. CASE Ignored(c, m)
    BY <1>1, <1>2, IgnoredIssue
  <1>3. CASE ~Ignored(c, m)
    <2>w. PICK listed \in BOOLEAN : TakeOpenPRs(c, m, listed)
      BY <1>3 DEF HandleOpenPRs
    <2>1. /\ slots' = [k \in Issues |-> slots[k]] /\ Replace(c, m, {})
          /\ labelTicks' = [labelTicks EXCEPT ![c] = [k \in Issues |-> @[k]]]
      <3> DEFINE none == {k \in m.prs : ~HasSlot(k)}
                 taken(s) == {k \in none : ResumeState(m.labels[k]) = s}
      <3>1. none = {} /\ \A s : taken(s) = {}
        OBVIOUS
      <3>2. /\ slots' = [k \in Issues |-> IF k \in none THEN PRSlot(k, m.labels[k], listed) ELSE slots[k]]
            /\ Replace(c, m,
                   {IssueCmd("write", k) : k \in taken("WritingAgent")} \cup
                   {[op |-> "launch", issue |-> k, role |-> "reviewer",
                     dir |-> PRSlot(k, m.labels[k], listed).wt] : k \in taken("LaunchingReviewer")})
            /\ labelTicks' = [labelTicks EXCEPT ![c] =
                   [k \in Issues |-> IF k \in taken("Coding") THEN @[k] + 1 ELSE @[k]]]
        BY <2>w DEF TakeOpenPRs
      <3> HIDE DEF none, taken
      <3>3. {IssueCmd("write", k) : k \in taken("WritingAgent")} \cup
            {[op |-> "launch", issue |-> k, role |-> "reviewer",
              dir |-> PRSlot(k, m.labels[k], listed).wt] : k \in taken("LaunchingReviewer")} = {}
        BY <3>1
      <3>. QED BY <3>1, <3>2, <3>3
    <2>2. slots'[i] = slots[i] /\ \A d \in Clients : labelTicks'[d][i] = labelTicks[d][i]
      BY <2>1 DEF TypeOK
    <2>. QED BY <1>1, <2>1, <2>2, OtherIssue
  <1>. QED BY <1>2, <1>3

\* The confirmed start of the loop finds every issue untouched.
LEMMA StartIssue ==
  ASSUME TypeOK, TypeOK', StartInv, NEW i \in Issues, IssueInv(i), NEW c \in Clients,
         NEW m \in flight[c], HandleLabelCheck(c, m) \/ HandleLabelsEnsured(c, m)
  PROVE  IssueInv(i)'
  <1>u. UNCHANGED <<labels, rejected, agents, labelTicks>>
    BY DEF HandleLabelCheck, HandleLabelsEnsured, ExecutePendingOp, timerVars, trackerVars,
       agentVars
  <1>1. CASE UNCHANGED <<active, slots>> /\ Replace(c, m, {})
    <2>1. slots'[i] = slots[i] /\ \A d \in Clients : labelTicks'[d][i] = labelTicks[d][i]
      BY <1>u, <1>1
    <2>. QED BY <1>u, <1>1, <2>1, OtherIssue
  <1>2. CASE pendingOp[c] /\ ExecutePendingOp(c, m)
    <2>1. Untouched
      BY <1>2 DEF StartInv
    <2> DEFINE new == {Cmd("cleanupMerged"), Cmd("scanPRs"), Cmd("poll")}
    <2>2. slots' = [k \in Issues |-> NoSlot] /\ Replace(c, m, new)
      BY <1>2 DEF ExecutePendingOp
    <2>3. \A x \in new : x.issue # i /\ ~InHand(x, i)
      BY LoopAssumption DEF Cmd, NoIssue, InHand
    <2> HIDE DEF new
    <2>4. \A d \in Clients : \A o \in flight[d] : o.issue # i
      <3>1. ASSUME NEW d \in Clients, NEW o \in flight[d] PROVE o.issue = NoIssue
        <4>1. o \in Item /\ o.op \in StartOp
          BY <2>1, InFlightItem DEF Untouched
        <4>. QED BY <4>1, ItemFields DEF StartOp
      <3>. QED BY <3>1, LoopAssumption DEF NoIssue
    <2>5. \A d \in Clients : \A o \in flight'[d] : o.issue # i
      BY <2>2, <2>3, <2>4, FromReplace
    <2>6. slots'[i].state = "None" /\ slots'[i].round = 0
      BY <2>2 DEF NoSlot
    <2>7. /\ AgentsOf(i)' = {} /\ rejected[i] = 0 /\ Chains(i)' = {} /\ Is(i, Label)'
          /\ Is(i, {"pending", "todo", "ai-review"})'
      BY <1>u, <2>1 DEF Untouched, AgentsOf, Chains, Is, Label
    <2>8. IsFiniteSet({}) /\ Cardinality({}) = 0
      BY FS_EmptySet
    <2>9. Is(i, {"ai-review"})' \/ ~Is(i, {"ai-review"})'
      OBVIOUS
    <2>10. SlotInv(i)'
      BY <1>u, <2>6, <2>7, <2>8 DEF SlotInv, SlotLabel, SlotAgents, SlotRounds, ChainsOf
    <2>11. OneHand(i)'
      BY <2>5 DEF OneHand, InHand
    <2>. QED BY <1>u, <2>5, <2>7, <2>8, <2>10, <2>11 DEF IssueInv
  <1>. QED BY <1>1, <1>2 DEF HandleLabelCheck, HandleLabelsEnsured, ExecutePendingOp, loopVars

-----------------------------------------------------------------------------
(* Timers, users, agents and people. *)

\* Timers, and what a closed gate swallows, keep what is true of an issue.
LEMMA TickIssue ==
  ASSUME TypeOK, TypeOK', NEW i \in Issues, IssueInv(i), NEW c \in Clients,
         \/ \E m \in flight[c] : DropMessage(c, m)
         \/ PollTick(c) \/ DropPollTick(c)
         \/ \E k \in Issues : \/ LabelTick(c, k) \/ PRTick(c, k)
                              \/ DropLabelTick(c, k) \/ DropPRTick(c, k)
  PROVE  IssueInv(i)'
  <1>1. UNCHANGED <<active, slots, labels, rejected, agents>>
    BY DEF DropMessage, PollTick, DropPollTick, LabelTick, PRTick, DropLabelTick, DropPRTick,
       TickFrame, DropFrame, loopVars, trackerVars, agentVars
  <1>2. \A d \in Clients : labelTicks[d][i] \in Nat /\ labelTicks'[d][i] \in Nat
    BY DEF TypeOK
  <1>3. \A d \in Clients : labelTicks'[d][i] <= labelTicks[d][i]
    <2>1. CASE UNCHANGED labelTicks
      BY <1>2, <2>1
    <2>2. ASSUME NEW k \in Issues, labelTicks' = [labelTicks EXCEPT ![c][k] = @ - 1]
          PROVE  \A d \in Clients : labelTicks'[d][i] <= labelTicks[d][i]
      BY <1>2, <2>2 DEF TypeOK
    <2>. QED BY <2>1, <2>2 DEF DropMessage, PollTick, DropPollTick, LabelTick, PRTick,
         DropLabelTick, DropPRTick, timerVars
  <1>4. Same(i)
    BY <1>1, <1>2, <1>3 DEF Same, AgentsOf
  <1>5. \A d \in Clients : \A o \in flight'[d] :
            o.issue = i => o \in flight[d] \/ o.op \in SilentOp
    <2>1. ASSUME NEW m \in flight[c], DropMessage(c, m)
          PROVE  \A d \in Clients : \A o \in flight'[d] : o \in flight[d]
      BY <2>1, FromReplace DEF DropMessage
    <2>2. ASSUME NEW x, x.issue # i \/ x.op \in SilentOp,
                 flight' = [flight EXCEPT ![c] = @ \cup {x}]
          PROVE  \A d \in Clients : \A o \in flight'[d] :
                    o.issue = i => o \in flight[d] \/ o.op \in SilentOp
      BY <2>2, FromRequest
    <2>3. /\ Cmd("poll").issue # i
          /\ \A k : IssueCmd("pollLabels", k).op \in SilentOp /\ PollPRCmd(k).op \in SilentOp
      BY LoopAssumption DEF Cmd, NoIssue, IssueCmd, PollPRCmd, SilentOp
    <2>4. CASE PollTick(c)
      BY <2>2, <2>3, <2>4 DEF PollTick, Request
    <2>5. ASSUME NEW k \in Issues, LabelTick(c, k)
          PROVE  \A d \in Clients : \A o \in flight'[d] :
                    o.issue = i => o \in flight[d] \/ o.op \in SilentOp
      BY <2>2, <2>3, <2>5 DEF LabelTick, Request
    <2>6. ASSUME NEW k \in Issues, PRTick(c, k)
          PROVE  \A d \in Clients : \A o \in flight'[d] :
                    o.issue = i => o \in flight[d] \/ o.op \in SilentOp
      BY <2>2, <2>3, <2>6 DEF PRTick, Request
    <2>7. CASE DropPollTick(c) \/ \E k \in Issues : DropLabelTick(c, k) \/ DropPRTick(c, k)
      BY <2>7 DEF DropPollTick, DropLabelTick, DropPRTick
    <2>. QED BY <2>1, <2>4, <2>5, <2>6, <2>7
  <1>. QED BY <1>4, <1>5, IssueKept

\* So do the user of a client and a restart of the process.
LEMMA UserIssue ==
  ASSUME TypeOK, TypeOK', NEW i \in Issues, IssueInv(i),
         ProcessRestart \/ \E c \in Clients : UserActs(c)
  PROVE  IssueInv(i)'
  <1>1. UNCHANGED <<labels, rejected, agents>> /\ (active' => active /\ slots'[i] = slots[i])
    BY DEF UserActs, StopLoop, PressStart, ConfirmLabels, ShowOverlay, DismissOverlay,
       RemoteQuit, ProcessRestart, loopVars, trackerVars, agentVars
  <1>2. \A d \in Clients : labelTicks[d][i] \in Nat /\ labelTicks'[d][i] \in Nat
    BY DEF TypeOK
  <1>3. \A d \in Clients : labelTicks'[d][i] <= labelTicks[d][i]
    <2>1. UNCHANGED labelTicks \/ labelTicks' = [d \in Clients |-> [k \in Issues |-> 0]]
      BY DEF UserActs, StopLoop, PressStart, ConfirmLabels, ShowOverlay, DismissOverlay,
         RemoteQuit, ProcessRestart, timerVars
    <2>. QED BY <1>2, <2>1
  <1>4. Same(i)
    BY <1>1, <1>2, <1>3 DEF Same, AgentsOf
  <1>5. \A d \in Clients : \A o \in flight'[d] : o.issue = i => o \in flight[d]
    <2>1. CASE ProcessRestart
      BY <2>1 DEF ProcessRestart
    <2>2. ASSUME NEW c \in Clients, UserActs(c)
          PROVE  \A d \in Clients : \A o \in flight'[d] : o.issue = i => o \in flight[d]
      <3>1. Cmd("labelCheck").issue # i /\ Cmd("ensureLabels").issue # i
        BY LoopAssumption DEF Cmd, NoIssue
      <3>2. \/ UNCHANGED flight
            \/ flight' = [flight EXCEPT ![c] = @ \cup {Cmd("labelCheck")}]
            \/ flight' = [flight EXCEPT ![c] = @ \cup {Cmd("ensureLabels")}]
        BY <2>2 DEF UserActs, StopLoop, PressStart, ConfirmLabels, ShowOverlay,
           DismissOverlay, RemoteQuit
      <3>. QED BY <3>1, <3>2, FromRequest
    <2>. QED BY <2>1, <2>2
  <1>. QED BY <1>4, <1>5, IssueKept

\* What the act of an agent has to show for the issue it relabels: nobody has read
\* the label it had, and what has the issue in hand was done when the agent began.
LEMMA RelabelIssue ==
  ASSUME TypeOK, TypeOK', ~SlowPolls, NEW i \in Issues, IssueInv(i), AgentsOf(i) # {},
         ~Is(i, {"ai-review"}), Settled(i), UNCHANGED <<active, slots, flight, labelTicks>>,
         NEW l \in Label, labels'[i] = {l}, rejected[i] <= rejected'[i],
         \A a, b \in AgentsOf(i)' : a = b,
         \A a \in AgentsOf(i)' : AgentLabel(a)',
         active => SlotLabel(i)' /\ SlotAgents(i)' /\ SlotRounds(i)'
  PROVE  IssueInv(i)'
  <1>1. Is(i, Label)' /\ OneHand(i)'
    BY DEF Is, IssueInv, OneHand, InHand
  <1>2. ASSUME NEW c \in Clients, NEW m \in flight'[c], m.issue = i PROVE ItemInv(m, i)'
    <2>1. m \in flight[c] /\ ItemInv(m, i)
      BY <1>2 DEF IssueInv
    <2>2. m.op # "labels"
      BY <1>2, <2>1 DEF Settled, TrackerReads
    <2>3. m.op \in HandOp => m.op = "launched"
      BY <2>1 DEF ItemInv, HandLabel
    <2>4. ~(active /\ m.op \in CleanupOp)
      BY <2>1 DEF ItemInv, Finishing
    <2>. QED BY <2>1, <2>2, <2>3, <2>4 DEF ItemInv, HandLabel, HandSlot, CleanupOp
  <1>3. /\ Chains(i)' = Chains(i) /\ IsFiniteSet(Chains(i)) /\ Cardinality(Chains(i)) \in Nat
        /\ Cardinality(Chains(i)) <= 2 * (rejected[i] + 1)
    <2>1. Chains(i)' = Chains(i) /\ IsFiniteSet(Chains(i))
      BY DEF Chains, IssueInv
    <2>. QED BY <2>1, FS_CardinalityType DEF IssueInv
  <1>4. rejected[i] \in Nat /\ rejected'[i] \in Nat
    BY DEF TypeOK
  <1>5. Cardinality(Chains(i)') <= 2 * (rejected'[i] + 1)
    BY <1>3, <1>4
  <1>6. ASSUME active PROVE Cardinality(Chains(i)') <= ChainsOf(i)'
    <2>1. slots[i].state # "None" /\ Cardinality(Chains(i)) <= ChainsOf(i)
      BY <1>6 DEF IssueInv, SlotInv, SlotAgents
    <2>2. ChainsOf(i)' = ChainsOf(i)
      BY <2>1 DEF ChainsOf
    <2>. QED BY <1>3, <2>1, <2>2
  <1>. QED BY <1>1, <1>2, <1>3, <1>5, <1>6 DEF IssueInv, SlotInv

\* An agent's acts keep what is true of every issue.
LEMMA AgentIssue ==
  ASSUME TypeOK, TypeOK', ~SlowPolls, NEW i \in Issues, IssueInv(i), NEW a \in agents,
         AgentActs(a)
  PROVE  IssueInv(i)'
  <1>u. UNCHANGED <<active, slots, flight, labelTicks>>
    BY DEF AgentActs, CoderBegins, CoderOpensPR, CoderFinishes, ReviewerPasses,
       ReviewerRejects, AgentDies, AgentFrame, loopVars, timerVars
  <1>a. a \in Agent /\ a.issue \in Issues /\ a.role \in Role /\ a.began \in BOOLEAN
    BY DEF TypeOK, Agent
  <1>k. ASSUME labels'[i] = labels[i], rejected'[i] = rejected[i], AgentsOf(i)' \subseteq AgentsOf(i)
        PROVE  IssueInv(i)'
    <2>1. Same(i)
      BY <1>u, <1>k DEF Same, TypeOK
    <2>. QED BY <1>u, <2>1, IssueKept
  <1>1. CASE CoderOpensPR(a) \/ AgentDies(a)
    BY <1>1, <1>k DEF CoderOpensPR, AgentDies, AgentsOf, trackerVars
  <1>2. CASE a.issue # i
    <2>1. labels'[i] = labels[i] /\ rejected'[i] = rejected[i]
      BY <1>2, <1>a DEF AgentActs, CoderBegins, CoderOpensPR, CoderFinishes, ReviewerPasses,
         ReviewerRejects, AgentDies, Relabelled, trackerVars, TypeOK
    <2>2. [a EXCEPT !.began = TRUE].issue = a.issue
      BY <1>a DEF Agent
    <2>3. AgentsOf(i)' \subseteq AgentsOf(i)
      BY <1>2, <2>2 DEF AgentActs, CoderBegins, CoderOpensPR, CoderFinishes, ReviewerPasses,
         ReviewerRejects, AgentDies, AgentsOf
    <2>. QED BY <1>k, <2>1, <2>3
  <1>3. CASE a.issue = i /\ ~CoderOpensPR(a) /\ ~AgentDies(a)
    <2>1. a \in AgentsOf(i) /\ AgentsOf(i) = {a} /\ AgentLabel(a)
      BY <1>3 DEF AgentsOf, IssueInv
    <2>2. Settled(i) /\ ~Is(i, {"ai-review"})
      <3>1. Settled(i)
        BY <1>3 DEF AgentActs, CoderBegins, CoderFinishes, ReviewerPasses, ReviewerRejects
      <3>. QED BY <1>3, <1>a, <2>1, <3>1 DEF AgentLabel, Is, Role
    <2>s. active => SlotInv(i)
      BY DEF IssueInv
    <2>n. rejected[i] \in Nat /\ slots[i].round \in Nat
      BY DEF TypeOK, Slot
    <2>3. CASE CoderBegins(a)
      <3> DEFINE b == [a EXCEPT !.began = TRUE]
      <3>1. b.issue = i /\ b.role = "coder" /\ b.began
        BY <1>a, <1>3, <2>3 DEF CoderBegins, Agent
      <3>2. agents' = (agents \ {a}) \cup {b} /\ a.role = "coder"
        BY <2>3 DEF CoderBegins
      <3> HIDE DEF b
      <3>3. AgentsOf(i)' = {b}
        BY <2>1, <3>1, <3>2 DEF AgentsOf
      <3>4. Is(i, {"todo", "needs-changes"})
        BY <1>3, <2>1, <2>3 DEF AgentLabel, CoderBegins
      <3>5. labels'[i] = {"wip"} /\ rejected'[i] = rejected[i]
        BY <1>3, <2>3, <3>4 DEF CoderBegins, Relabelled, Is, TypeOK
      <3>6. \A d \in AgentsOf(i)' : AgentLabel(d)'
        BY <3>1, <3>3, <3>5 DEF AgentLabel, Is
      <3>7. active => SlotLabel(i)' /\ SlotAgents(i)' /\ SlotRounds(i)'
        BY <1>u, <2>1, <2>s, <2>n, <3>1, <3>2, <3>3, <3>4, <3>5
        DEF SlotInv, SlotLabel, SlotAgents, SlotRounds, Is
      <3>. QED BY <1>u, <2>1, <2>2, <2>n, <3>3, <3>5, <3>6, <3>7, RelabelIssue DEF Label
    <2>4. ASSUME agents' = agents \ {a} PROVE AgentsOf(i)' = {}
      BY <2>1, <2>4 DEF AgentsOf
    <2>5. CASE CoderFinishes(a)
      <3>1. AgentsOf(i)' = {} /\ a.role = "coder" /\ Is(i, {"wip"})
        BY <1>3, <2>1, <2>4, <2>5 DEF CoderFinishes, AgentLabel
      <3>2. labels'[i] = {"review"} /\ rejected'[i] = rejected[i]
        BY <1>3, <2>5, <3>1 DEF CoderFinishes, Relabelled, Is, TypeOK
      <3>3. active => SlotLabel(i)' /\ SlotAgents(i)' /\ SlotRounds(i)'
        BY <1>u, <2>1, <2>s, <2>n, <3>1, <3>2
        DEF SlotInv, SlotLabel, SlotAgents, SlotRounds, Is
      <3>. QED BY <1>u, <2>1, <2>2, <2>n, <3>1, <3>2, <3>3, RelabelIssue DEF Label
    <2>6. CASE ReviewerPasses(a)
      <3>1. AgentsOf(i)' = {} /\ a.role = "reviewer" /\ Is(i, {"review"})
        BY <1>3, <2>1, <2>4, <2>6 DEF ReviewerPasses, AgentLabel
      <3>2. labels'[i] = {"ai-review"} /\ rejected'[i] = rejected[i]
        BY <1>3, <2>6, <3>1 DEF ReviewerPasses, Relabelled, Is, TypeOK
      <3>3. active => SlotLabel(i)' /\ SlotAgents(i)' /\ SlotRounds(i)'
        BY <1>u, <2>1, <2>s, <2>n, <3>1, <3>2
        DEF SlotInv, SlotLabel, SlotAgents, SlotRounds, Is
      <3>. QED BY <1>u, <2>1, <2>2, <2>n, <3>1, <3>2, <3>3, RelabelIssue DEF Label
    <2>7. CASE ReviewerRejects(a)
      <3>1. AgentsOf(i)' = {} /\ a.role = "reviewer" /\ Is(i, {"review"})
        BY <1>3, <2>1, <2>4, <2>7 DEF ReviewerRejects, AgentLabel
      <3>2. labels'[i] = {"needs-changes"} /\ rejected'[i] = rejected[i] + 1
        BY <1>3, <2>7, <3>1 DEF ReviewerRejects, Relabelled, Is, TypeOK
      <3>4. MaxReviewRounds \in Nat
        BY LoopAssumption
      <3>3. active => SlotLabel(i)' /\ SlotAgents(i)' /\ SlotRounds(i)'
        BY <1>u, <2>1, <2>s, <2>n, <3>1, <3>2, <3>4
        DEF SlotInv, SlotLabel, SlotAgents, SlotRounds, Is
      <3>5. rejected[i] <= rejected'[i] /\ "needs-changes" \in Label
        BY <2>n, <3>2 DEF Label
      <3>. QED BY <1>u, <2>1, <2>2, <3>1, <3>2, <3>3, <3>5, RelabelIssue
    <2>. QED BY <1>3, <2>3, <2>5, <2>6, <2>7 DEF AgentActs
  <1>. QED BY <1>1, <1>2, <1>3

\* So do the acts of people at the tracker.
LEMMA HumanIssue ==
  ASSUME TypeOK, TypeOK', NEW i \in Issues, IssueInv(i), NEW k \in Issues, HumanActs(k)
  PROVE  IssueInv(i)'
  <1>u. UNCHANGED <<active, slots, flight, labelTicks, agents, rejected>>
    BY DEF HumanActs, HumanConfirms, HumanMerges, HumanClosesPR, AgentFrame, loopVars,
       timerVars
  <1>1. CASE labels'[i] = labels[i]
    <2>1. Same(i)
      BY <1>u, <1>1 DEF Same, TypeOK, AgentsOf
    <2>. QED BY <1>u, <2>1, IssueKept
  <1>2. CASE labels'[i] # labels[i]
    <2>1. labels[i] = {"pending"} /\ labels'[i] = {"todo"}
      BY <1>2 DEF HumanActs, HumanConfirms, HumanMerges, HumanClosesPR, TypeOK
    <2>2. AgentsOf(i) = {} /\ AgentsOf(i)' = {}
      <3>1. ASSUME NEW a \in AgentsOf(i) PROVE FALSE
        <4>1. a.role \in Role /\ a.began \in BOOLEAN /\ AgentLabel(a) /\ a.issue = i
          BY <3>1 DEF AgentsOf, IssueInv, TypeOK, Agent
        <4>. QED BY <2>1, <4>1 DEF AgentLabel, Is, Role
      <3>. QED BY <1>u, <3>1 DEF AgentsOf
    <2>3. /\ \A ls : Is(i, ls) => "pending" \in ls
          /\ \A ls : "todo" \in ls => Is(i, ls)'
      BY <2>1 DEF Is
    <2>4. ASSUME NEW c \in Clients, NEW m \in flight'[c], m.issue = i PROVE ItemInv(m, i)'
      <3>1. m \in flight[c] /\ ItemInv(m, i)
        BY <1>u, <2>4 DEF IssueInv
      <3>2. m \in Item
        BY <3>1, InFlightItem
      <3>3. m.op \in HandOp => m.op = "launched"
        BY <2>3, <3>1, <3>2, ItemFields DEF ItemInv, HandLabel, HandOp, Role
      <3>4. ~(active /\ m.op \in CleanupOp)
        BY <2>3, <3>1 DEF ItemInv, Finishing
      <3>5. m.op = "labels" => m.labels \cap Verdict \subseteq labels'[i]
        BY <2>1, <3>1 DEF ItemInv, Verdict
      <3>. QED BY <1>u, <3>1, <3>3, <3>4, <3>5 DEF ItemInv, HandLabel, HandSlot, CleanupOp
    <2>5. Is(i, Label)' /\ OneHand(i)'
      BY <1>u, <2>3 DEF Label, IssueInv, OneHand, InHand
    <2>6. Chains(i)' = Chains(i)
      BY <1>u DEF Chains
    <2>7. ASSUME active PROVE SlotInv(i)'
      <3>1. SlotInv(i)
        BY <2>7 DEF IssueInv
      <3>2. slots[i].state \in {"None", "NeedsHuman", "Error"}
        <4>1. slots[i].state \in SlotState
          BY DEF TypeOK, Slot
        <4>. QED BY <2>3, <3>1, <4>1 DEF SlotInv, SlotLabel, SlotState
      <3>3. SlotLabel(i)' /\ SlotAgents(i)'
        BY <1>u, <2>2, <2>3, <3>2 DEF SlotLabel, SlotAgents
      <3>4. ~Is(i, {"ai-review"}) /\ ~Is(i, {"ai-review"})'
        BY <2>1 DEF Is
      <3>5. SlotRounds(i)'
        BY <1>u, <3>1, <3>2, <3>4 DEF SlotInv, SlotRounds
      <3>6. ChainsOf(i)' = ChainsOf(i)
        BY <1>u, <3>4 DEF ChainsOf
      <3>. QED BY <2>6, <3>1, <3>3, <3>5, <3>6 DEF SlotInv
    <2>. QED BY <1>u, <2>2, <2>4, <2>5, <2>6, <2>7 DEF IssueInv
  <1>. QED BY <1>1, <1>2

-----------------------------------------------------------------------------
(* What was read of all the issues. *)

\* An answer about all issues tells what the tracker says, and the scan for open PRs
\* is asked for when the loop starts.
ReadOp == {"polled", "scanPRs", "openPRs"}
Told(d, o) ==
    \/ o.op = "polled" /\ o.todo \subseteq {i \in Issues : IsTodo(i)}
    \/ /\ o.op = "openPRs" /\ o.prs \subseteq {i \in Issues : prs[i] = "open"}
       /\ \E m \in flight[d] : m.op = "scanPRs"
    \/ o.op = "scanPRs" /\ pendingOp[d]

LEMMA ReadsTold ==
  ASSUME TypeOK, [Next]_vars, NEW d \in Clients, NEW o \in flight'[d], o \notin flight[d],
         o.op \in ReadOp
  PROVE  Told(d, o) /\ UNCHANGED <<labels, prs, agents>>
  <1> USE DEF timerVars, trackerVars, agentVars
  <1>x. \A op : Cmd(op).op = op /\ \A i : IssueCmd(op, i).op = op
    BY DEF Cmd, IssueCmd
  <1>n. ASSUME NEW c \in Clients, NEW m, NEW new, Replace(c, m, new),
               \A x \in new : x.op \notin ReadOp
        PROVE  FALSE
    BY <1>n, FromReplace
  <1>1. ASSUME NEW c \in Clients, UserActs(c) PROVE FALSE
    <2>1. UNCHANGED flight \/ \E op \in {"labelCheck", "ensureLabels"} :
                                 flight' = [flight EXCEPT ![c] = @ \cup {Cmd(op)}]
      BY <1>1 DEF UserActs, StopLoop, PressStart, ConfirmLabels, ShowOverlay,
         DismissOverlay, RemoteQuit
    <2>. QED BY <1>x, <2>1, FromRequest DEF ReadOp
  <1>2. ASSUME NEW c \in Clients, NEW m \in flight[c], RunCommand(c, m)
        PROVE  Told(d, o) /\ UNCHANGED <<labels, prs, agents>>
    <2>1. m.op \in CommandOp /\ (Replace(c, m, {}) \/ \E x : Replace(c, m, {x}) /\ Answer(m, x))
      BY <1>2, CommandAnswers
    <2>2. c = d /\ Answer(m, o)
      <3>1. ~Replace(c, m, {})
        BY FromReplace
      <3>2. PICK x : Replace(c, m, {x}) /\ Answer(m, x)
        BY <2>1, <3>1
      <3>. QED BY <3>2, FromReplace
    <2>3. m.op \in {"poll", "scanPRs"} /\ Told(d, o)
      BY <2>1, <2>2 DEF Answer, CommandOp, ReadOp, StartOp, Told
    <2>4. UNCHANGED <<labels, prs, agents>>
      BY <1>2, <2>3 DEF RunCommand, Running, Answers, CheckLabels, EnsureLabels, PollTodo,
         ScanOpenPRs, CleanupMerged, CreateWorktree, WriteAgent, LaunchAgent, PollLabels,
         PollPR, LookUpPR, TryMerge, RemoveWorktree, CloseIssue
    <2>. QED BY <2>3, <2>4
  <1>3. ASSUME NEW c \in Clients, NEW m \in flight[c], HandleMessage(c, m)
        PROVE  Told(d, o) /\ UNCHANGED <<labels, prs, agents>>
    <2>1. CASE HandleLabelCheck(c, m) \/ HandleLabelsEnsured(c, m)
      <3>1. \/ Replace(c, m, {})
            \/ /\ pendingOp[c]
               /\ Replace(c, m, {Cmd("cleanupMerged"), Cmd("scanPRs"), Cmd("poll")})
        BY <2>1 DEF HandleLabelCheck, HandleLabelsEnsured, ExecutePendingOp
      <3>2. pendingOp[d] /\ o.op = "scanPRs"
        BY <1>x, <3>1, FromReplace DEF ReadOp
      <3>3. UNCHANGED <<labels, prs, agents>>
        BY <2>1 DEF HandleLabelCheck, HandleLabelsEnsured, ExecutePendingOp
      <3>. QED BY <3>2, <3>3 DEF Told
    <2>2. CASE Ignored(c, m)
      BY <1>n, <2>2 DEF Ignored
    <2>3. CASE HandlePolled(c, m)
      <3>1. CASE ~Ignored(c, m)
        <4>w. PICK listed \in BOOLEAN : TakeTodo(c, m, listed)
          BY <2>3, <3>1 DEF HandlePolled
        <4> DEFINE fresh == Admitted(m.todo) \
                      {i \in Admitted(m.todo) : listed /\ MatchingWorktrees(i) # {}}
                   new == {[op |-> "create", issue |-> i,
                            after |-> {j \in fresh : j > i}] : i \in fresh}
        <4>1. Replace(c, m, new)
          BY <4>w DEF TakeTodo
        <4>2. \A x \in new : x.op \notin ReadOp
          BY DEF ReadOp
        <4> HIDE DEF new
        <4>. QED BY <1>n, <4>1, <4>2
      <3>. QED BY <2>2, <3>1
    <2>4. CASE HandleOpenPRs(c, m)
      <3>1. CASE ~Ignored(c, m)
        <4>w. PICK listed \in BOOLEAN : TakeOpenPRs(c, m, listed)
          BY <2>4, <3>1 DEF HandleOpenPRs
        <4>1. PICK w, l : Replace(c, m,
                 {IssueCmd("write", i) : i \in w} \cup
                 {[op |-> "launch", issue |-> i, role |-> "reviewer",
                   dir |-> PRSlot(i, m.labels[i], listed).wt] : i \in l})
          BY <4>w DEF TakeOpenPRs
        <4>. QED BY <1>n, <1>x, <4>1 DEF ReadOp
      <3>. QED BY <2>2, <3>1
    <2>5. CASE HandleCreated(c, m) \/ HandleWritten(c, m) \/ HandleLaunched(c, m)
      <3>1. \/ Replace(c, m, {}) \/ Replace(c, m, {IssueCmd("write", m.issue)})
            \/ Replace(c, m, {LaunchCmd(m.issue, "coder")})
        BY <2>5 DEF HandleCreated, HandleWritten, HandleLaunched, Ignored
      <3>2. LaunchCmd(m.issue, "coder").op = "launch"
        BY DEF LaunchCmd
      <3>. QED BY <1>n, <1>x, <3>1, <3>2 DEF ReadOp
    <2>6. CASE HandleLabels(c, m)
      <3>1. \/ Replace(c, m, {}) \/ Replace(c, m, {IssueCmd("write", m.issue)})
            \/ Replace(c, m, {LaunchCmd(m.issue, "reviewer")})
            \/ Replace(c, m, {MergeCmd(m.issue)})
        BY <2>6 DEF HandleLabels, ReviewRequested, ReviewPassed, ChangesNeeded, Ignored
      <3>2. LaunchCmd(m.issue, "reviewer").op = "launch" /\ MergeCmd(m.issue).op = "merge"
        BY DEF LaunchCmd, MergeCmd
      <3>. QED BY <1>n, <1>x, <3>1, <3>2 DEF ReadOp
    <2>7. CASE HandlePRStatus(c, m) \/ HandleMerged(c, m) \/ HandleCleaned(c, m)
      <3>1. Replace(c, m, {}) \/ Replace(c, m, {CleanupCmd(m.issue)})
        BY <2>7 DEF HandlePRStatus, HandleMerged, HandleCleaned, Ignored
      <3>2. CleanupCmd(m.issue).op = "cleanup"
        BY DEF CleanupCmd
      <3>. QED BY <1>n, <3>1, <3>2 DEF ReadOp
    <2>. QED BY <1>3, <2>1, <2>3, <2>4, <2>5, <2>6, <2>7 DEF HandleMessage
  <1>4. ASSUME NEW c \in Clients, NEW m \in flight[c], DropMessage(c, m) PROVE FALSE
    BY <1>n, <1>4 DEF DropMessage
  <1>5. ASSUME NEW c \in Clients,
               \/ PollTick(c) \/ DropPollTick(c)
               \/ \E i \in Issues : \/ LabelTick(c, i) \/ PRTick(c, i)
                                    \/ DropLabelTick(c, i) \/ DropPRTick(c, i)
        PROVE  FALSE
    <2>1. \/ UNCHANGED flight
          \/ flight' = [flight EXCEPT ![c] = @ \cup {Cmd("poll")}]
          \/ \E i \in Issues : \/ flight' = [flight EXCEPT ![c] = @ \cup {PollPRCmd(i)}]
                               \/ flight' = [flight EXCEPT ![c] = @ \cup
                                                {IssueCmd("pollLabels", i)}]
      BY <1>5 DEF PollTick, DropPollTick, LabelTick, PRTick, DropLabelTick, DropPRTick, Request
    <2>2. \A i \in Issues : PollPRCmd(i).op = "pollPR"
      BY DEF PollPRCmd
    <2>3. ASSUME NEW x, x.op \notin ReadOp, flight' = [flight EXCEPT ![c] = @ \cup {x}]
          PROVE  FALSE
      BY <2>3, FromRequest
    <2>4. /\ Cmd("poll").op \notin ReadOp
          /\ \A i \in Issues : /\ PollPRCmd(i).op \notin ReadOp
                               /\ IssueCmd("pollLabels", i).op \notin ReadOp
      BY <1>x, <2>2 DEF ReadOp
    <2>. QED BY <2>1, <2>3, <2>4
  <1>6. CASE ProcessRestart
    BY <1>6 DEF ProcessRestart
  <1>7. CASE \/ UNCHANGED vars \/ \E a \in agents : AgentActs(a)
             \/ \E i \in Issues : HumanActs(i)
    BY <1>7 DEF vars, AgentActs, CoderBegins, CoderOpensPR, CoderFinishes, ReviewerPasses,
       ReviewerRejects, AgentDies, HumanActs, HumanConfirms, HumanMerges, HumanClosesPR,
       AgentFrame
  <1>. QED BY <1>1, <1>2, <1>3, <1>4, <1>5, <1>6, <1>7 DEF Next

\* Labels are changed by agents nobody has yet to tell about, and by the confirmation.
LEMMA LabelsChange ==
  ASSUME TypeOK, [Next]_vars, NEW i \in Issues
  PROVE  labels'[i] = labels[i] \/ labels[i] = {"pending"} \/ Settled(i)
  <1> USE DEF trackerVars, agentVars
  <1>1. CASE \E a \in agents : AgentActs(a)
    BY <1>1 DEF AgentActs, CoderBegins, CoderOpensPR, CoderFinishes, ReviewerPasses,
       ReviewerRejects, AgentDies, Relabelled, TypeOK
  <1>2. CASE \E k \in Issues : HumanActs(k)
    BY <1>2 DEF HumanActs, HumanConfirms, HumanMerges, HumanClosesPR, TypeOK
  <1>3. CASE \E c \in Clients : \/ UserActs(c)
                                \/ PollTick(c) \/ DropPollTick(c)
                                \/ \E k \in Issues : \/ LabelTick(c, k) \/ PRTick(c, k)
                                                     \/ DropLabelTick(c, k) \/ DropPRTick(c, k)
    BY <1>3 DEF UserActs, StopLoop, PressStart, ConfirmLabels, ShowOverlay, DismissOverlay,
       RemoteQuit, PollTick, DropPollTick, LabelTick, PRTick, DropLabelTick, DropPRTick,
       TickFrame, DropFrame
  <1>4. ASSUME NEW c \in Clients, NEW m \in flight[c],
               RunCommand(c, m) \/ HandleMessage(c, m) \/ DropMessage(c, m)
        PROVE  UNCHANGED labels
    <2>1. CASE RunCommand(c, m)
      BY <2>1 DEF RunCommand, Answers, CheckLabels, EnsureLabels, PollTodo,
         ScanOpenPRs, CleanupMerged, CreateWorktree, WriteAgent, LaunchAgent, PollLabels,
         PollPR, LookUpPR, TryMerge, RemoveWorktree, CloseIssue
    <2>2. CASE HandleMessage(c, m)
      BY <2>2 DEF HandleMessage, HandlerFrame, HandleLabelCheck, HandleLabelsEnsured,
         ExecutePendingOp, HandlePolled, HandleOpenPRs, HandleCreated, HandleWritten,
         HandleLaunched, HandleLabels, HandlePRStatus, HandleMerged, HandleCleaned
    <2>3. CASE DropMessage(c, m)
      BY <2>3 DEF DropMessage, DropFrame
    <2>. QED BY <1>4, <2>1, <2>2, <2>3
  <1>5. CASE ProcessRestart \/ UNCHANGED vars
    BY <1>5 DEF ProcessRestart, vars
  <1>. QED BY <1>1, <1>2, <1>3, <1>4, <1>5 DEF Next

\* The first PR is opened by a coder that has begun.
LEMMA PRsChange ==
  ASSUME TypeOK, [Next]_vars, NoPRs
  PROVE  NoPRs' \/ \E a \in agents : Settled(a.issue)
  <1> USE DEF trackerVars, agentVars
  <1>k. ASSUME UNCHANGED prs, agents' \subseteq agents PROVE NoPRs'
    BY <1>k DEF NoPRs
  <1>1. CASE \E a \in agents : AgentActs(a)
    BY <1>1, <1>k DEF NoPRs, AgentActs, CoderBegins, CoderOpensPR, CoderFinishes,
       ReviewerPasses, ReviewerRejects, AgentDies
  <1>2. CASE \E k \in Issues : HumanActs(k)
    BY <1>2, <1>k DEF NoPRs, HumanActs, HumanConfirms, HumanMerges, HumanClosesPR
  <1>3. CASE \E c \in Clients : \/ UserActs(c)
                                \/ PollTick(c) \/ DropPollTick(c)
                                \/ \E k \in Issues : \/ LabelTick(c, k) \/ PRTick(c, k)
                                                     \/ DropLabelTick(c, k) \/ DropPRTick(c, k)
    BY <1>3, <1>k DEF UserActs, StopLoop, PressStart, ConfirmLabels, ShowOverlay,
       DismissOverlay, RemoteQuit, PollTick, DropPollTick, LabelTick, PRTick, DropLabelTick,
       DropPRTick, TickFrame, DropFrame
  <1>4. ASSUME NEW c \in Clients, NEW m \in flight[c], RunCommand(c, m) PROVE NoPRs'
    <2>1. CASE LaunchAgent(c, m)
      BY <2>1 DEF LaunchAgent, NoPRs
    <2>2. CASE TryMerge(c, m)
      <3>1. m.op = "merge" /\ m.branch \in Issues \cup {NoIssue}
        BY <2>2, InFlightItem, ItemFields DEF TryMerge, Running
      <3>. QED BY <1>k, <2>2, <3>1 DEF TryMerge, NoPRs, PRByBranch
    <2>3. CASE ~LaunchAgent(c, m) /\ ~TryMerge(c, m)
      BY <1>4, <1>k, <2>3 DEF RunCommand, Answers, CheckLabels, EnsureLabels, PollTodo,
         ScanOpenPRs, CleanupMerged, CreateWorktree, WriteAgent, PollLabels,
         PollPR, LookUpPR, RemoveWorktree, CloseIssue
    <2>. QED BY <2>1, <2>2, <2>3
  <1>5. ASSUME NEW c \in Clients, NEW m \in flight[c], HandleMessage(c, m) PROVE NoPRs'
    BY <1>5, <1>k DEF HandleMessage, HandlerFrame, HandleLabelCheck, HandleLabelsEnsured,
       ExecutePendingOp, HandlePolled, HandleOpenPRs, HandleCreated, HandleWritten,
       HandleLaunched, HandleLabels, HandlePRStatus, HandleMerged, HandleCleaned
  <1>6. ASSUME NEW c \in Clients, NEW m \in flight[c], DropMessage(c, m) PROVE NoPRs'
    BY <1>6, <1>k DEF DropMessage, DropFrame
  <1>7. CASE ProcessRestart \/ UNCHANGED vars
    BY <1>7, <1>k DEF ProcessRestart, vars
  <1>. QED BY <1>1, <1>2, <1>3, <1>4, <1>5, <1>6, <1>7 DEF Next

\* The todo issues a poll read stay todo until it is handled.
LEMMA TodoStep ==
  ASSUME TypeOK, ~SlowPolls, TodoInv, \A i \in Issues : IssueInv(i), [Next]_vars
  PROVE  TodoInv'
  <1> SUFFICES ASSUME NEW c \in Clients, NEW m \in flight'[c], m.op = "polled", NEW i \in m.todo
               PROVE  Is(i, {"todo"})'
    BY DEF TodoInv
  <1>1. CASE m \in flight[c]
    <2>1. i \in Issues /\ m.issue = NoIssue /\ Is(i, {"todo"})
      BY <1>1, InFlightItem, ItemFields DEF TodoInv
    <2>2. labels'[i] = labels[i]
      BY <1>1, <2>1, LabelsChange DEF Settled, TrackerReads, Is
    <2>. QED BY <2>1, <2>2 DEF Is
  <1>2. CASE m \notin flight[c]
    <2>1. Told(c, m) /\ UNCHANGED labels
      BY <1>2, ReadsTold DEF ReadOp
    <2>2. i \in Issues /\ "todo" \in labels[i]
      BY <2>1 DEF Told, IsTodo
    <2>3. Is(i, {"todo"})
      BY <2>2 DEF IssueInv, Is
    <2>. QED BY <2>1, <2>3 DEF Is
  <1>. QED BY <1>1, <1>2

\* There is no PR until the scan for open ones is handled.
LEMMA ScanStep ==
  ASSUME TypeOK, ~SlowPolls, StartInv, ScanInv, [Next]_vars
  PROVE  ScanInv'
  <1> SUFFICES ASSUME NEW c \in Clients, NEW m \in flight'[c], m.op \in {"scanPRs", "openPRs"}
               PROVE  NoPRs' /\ (m.op = "openPRs" => m.prs = {})
    BY DEF ScanInv, NoPRs
  <1>1. CASE m \in flight[c]
    <2>1. m.issue = NoIssue /\ NoPRs /\ (m.op = "openPRs" => m.prs = {})
      BY <1>1, InFlightItem, ItemFields DEF ScanInv, NoPRs
    <2>. QED BY <1>1, <2>1, PRsChange DEF Settled, TrackerReads
  <1>2. CASE m \notin flight[c]
    <2>1. Told(c, m) /\ UNCHANGED <<prs, agents>>
      BY <1>2, ReadsTold DEF ReadOp
    <2>2. NoPRs
      <3>1. CASE m.op = "scanPRs"
        BY <2>1, <3>1 DEF Told, StartInv, Untouched, NoPRs
      <3>2. CASE m.op = "openPRs"
        BY <2>1, <3>2 DEF Told, ScanInv, NoPRs
      <3>. QED BY <3>1, <3>2
    <2>3. m.op = "openPRs" => m.prs = {}
      BY <2>1, <2>2 DEF Told, NoPRs
    <2>. QED BY <2>1, <2>2, <2>3 DEF NoPRs
  <1>. QED BY <1>1, <1>2

-----------------------------------------------------------------------------
(* The theorems. *)

\* When the process starts nothing was started.
LEMMA InitVerdicts ==
  ASSUME Init, ForeignPRs = {}
  PROVE  OffInv /\ VerdictInv
  <1>t. TypeOK
    BY InitTypeOK
  <1>1. OffInv /\ TodoInv /\ ScanInv
    BY DEF Init, OffInv, TodoInv, ScanInv
  <1>2. \A i \in Issues : /\ labels[i] = {"pending"} /\ rejected[i] = 0 /\ prs[i] = "none"
                          /\ \A c \in Clients : labelTicks[c][i] = 0
    BY DEF Init
  <1>3. \A i \in Issues : Chains(i) = {}
    BY <1>2 DEF Chains
  <1>4. ~active /\ agents = {} /\ (\A c \in Clients : flight[c] = {} /\ ~pendingOp[c])
    BY DEF Init
  <1>5. Untouched
    BY <1>2, <1>3, <1>4 DEF Untouched, Is
  <1>6. StartInv
    BY <1>4, <1>5, LoopAssumption DEF Init, StartInv
  <1>7. IsFiniteSet({}) /\ Cardinality({}) = 0
    BY FS_EmptySet
  <1>8. ASSUME NEW i \in Issues PROVE IssueInv(i)
    <2>1. Is(i, Label) /\ AgentsOf(i) = {}
      BY <1>2, <1>4 DEF Is, Label, AgentsOf
    <2>2. Cardinality(Chains(i)) <= 2 * (rejected[i] + 1)
      BY <1>2, <1>3, <1>7
    <2>. QED BY <1>3, <1>4, <1>7, <2>1, <2>2 DEF IssueInv, OneHand
  <1>9. SlotCount <= MaxPerProject
    <2>1. {i \in Issues : HasSlot(i)} = {}
      BY DEF Init, HasSlot, NoSlot
    <2>2. SlotCount = Cardinality({})
      BY <2>1, Zenon DEF SlotCount
    <2>. QED BY <2>2, <1>7, LoopAssumption
  <1>. QED BY <1>1, <1>6, <1>8, <1>9 DEF VerdictInv

\* A handler keeps what is true of an issue.
LEMMA HandlerIssue ==
  ASSUME TypeOK, TypeOK', OffInv, VerdictInv, NEW i \in Issues, NEW c \in Clients,
         NEW m \in flight[c], HandleMessage(c, m)
  PROVE  IssueInv(i)'
  <1>i. IssueInv(i) /\ StartInv
    BY DEF VerdictInv
  <1>1. CASE HandleLabelCheck(c, m) \/ HandleLabelsEnsured(c, m)
    BY <1>i, <1>1, StartIssue
  <1>2. CASE HandlePolled(c, m)
    <2>1. \A k \in m.todo : Is(k, {"todo"})
      BY <1>2 DEF HandlePolled, Delivered, VerdictInv, TodoInv
    <2>. QED BY <1>i, <1>2, <2>1, PolledIssue
  <1>3. CASE HandleOpenPRs(c, m)
    <2>1. m.prs = {}
      BY <1>3 DEF HandleOpenPRs, Delivered, VerdictInv, ScanInv
    <2>. QED BY <1>i, <1>3, <2>1, OpenPRsIssue
  <1>4. CASE \/ HandleCreated(c, m) \/ HandleWritten(c, m) \/ HandleLaunched(c, m)
             \/ HandleLabels(c, m) \/ HandlePRStatus(c, m) \/ HandleMerged(c, m)
             \/ HandleCleaned(c, m)
    BY <1>i, <1>4, SlotIssue
  <1>. QED BY <1>1, <1>2, <1>3, <1>4 DEF HandleMessage

\* Every step does.
LEMMA IssueStep ==
  ASSUME TypeOK, TypeOK', ~SlowPolls, OffInv, VerdictInv, [Next]_vars, NEW i \in Issues
  PROVE  IssueInv(i)'
  <1>i. IssueInv(i)
    BY DEF VerdictInv
  <1>1. ASSUME NEW c \in Clients, NEW m \in flight[c], RunCommand(c, m) PROVE IssueInv(i)'
    <2>1. CASE LaunchAgent(c, m) /\ m.issue = i
      BY <1>i, <2>1, LaunchIssue
    <2>2. CASE ~(LaunchAgent(c, m) /\ m.issue = i)
      <3>1. UNCHANGED agents \/ m.issue # i
        BY <1>1, <2>2 DEF RunCommand, Answers, CheckLabels, EnsureLabels, PollTodo,
           ScanOpenPRs, CleanupMerged, CreateWorktree, WriteAgent, PollLabels,
           PollPR, LookUpPR, TryMerge, RemoveWorktree, CloseIssue, agentVars
      <3>. QED BY <1>i, <1>1, <3>1, CommandIssue
    <2>. QED BY <2>1, <2>2
  <1>2. ASSUME NEW c \in Clients, NEW m \in flight[c], HandleMessage(c, m)
        PROVE  IssueInv(i)'
    BY <1>2, HandlerIssue
  <1>3. ASSUME NEW c \in Clients,
               \/ \E m \in flight[c] : DropMessage(c, m)
               \/ PollTick(c) \/ DropPollTick(c)
               \/ \E k \in Issues : \/ LabelTick(c, k) \/ PRTick(c, k)
                                    \/ DropLabelTick(c, k) \/ DropPRTick(c, k)
        PROVE  IssueInv(i)'
    BY <1>i, <1>3, TickIssue
  <1>4. CASE ProcessRestart \/ \E c \in Clients : UserActs(c)
    BY <1>i, <1>4, UserIssue
  <1>5. ASSUME NEW a \in agents, AgentActs(a) PROVE IssueInv(i)'
    BY <1>i, <1>5, AgentIssue
  <1>6. ASSUME NEW k \in Issues, HumanActs(k) PROVE IssueInv(i)'
    BY <1>i, <1>6, HumanIssue
  <1>7. CASE UNCHANGED vars
    <2>1. Same(i) /\ UNCHANGED flight
      BY <1>7 DEF vars, loopVars, timerVars, trackerVars, agentVars, Same, AgentsOf, TypeOK
    <2>. QED BY <1>i, <2>1, IssueKept
  <1>. QED BY <1>1, <1>2, <1>3, <1>4, <1>5, <1>6, <1>7 DEF Next

\* What holds of the first run is kept while it is the first.
LEMMA VerdictStep ==
  ASSUME TypeOK, TypeOK', ~SlowPolls, OffInv, FirstRun => VerdictInv, [Next]_vars
  PROVE  FirstRun' => VerdictInv'
  <1> SUFFICES ASSUME FirstRun' PROVE VerdictInv'
    OBVIOUS
  <1>1. FirstRun
    BY StartsSpent, LoopAssumption DEF FirstRun, TypeOK
  <1>2. VerdictInv
    BY <1>1
  <1>3. StartInv'
    BY <1>2, StartStep DEF VerdictInv
  <1>4. TodoInv'
    BY <1>2, TodoStep DEF VerdictInv
  <1>5. ScanInv'
    BY <1>2, ScanStep DEF VerdictInv
  <1>6. \A i \in Issues : IssueInv(i)'
    BY <1>2, IssueStep
  <1>7. SlotCount' <= MaxPerProject
    <2>1. \A c \in Clients : \A m \in flight[c] : HandleOpenPRs(c, m) => m.prs = {}
      BY <1>2 DEF HandleOpenPRs, Delivered, VerdictInv, ScanInv
    <2>2. SlotCount' <= MaxPerProject \/ SlotCount' <= SlotCount
      BY <2>1, SlotsBounded
    <2>3. SlotCount <= MaxPerProject /\ MaxPerProject \in Nat
      BY <1>2, LoopAssumption DEF VerdictInv
    <2>4. SlotCount \in Nat /\ SlotCount' \in Nat
      <3>1. IsFiniteSet({i \in Issues : HasSlot(i)}) /\ IsFiniteSet({i \in Issues : HasSlot(i)'})
        BY LoopAssumption, FS_Subset
      <3>. QED BY <3>1, FS_CardinalityType DEF SlotCount
    <2>. QED BY <2>2, <2>3, <2>4
  <1>. QED BY <1>3, <1>4, <1>5, <1>6, <1>7 DEF VerdictInv

\* The inductive invariant of the first run.
LEMMA VerdictsHold ==
  ASSUME ForeignPRs = {}, ~SlowPolls
  PROVE  Spec => [](TypeOK /\ OffInv /\ (FirstRun => VerdictInv))
  <1> DEFINE Inv == TypeOK /\ OffInv /\ (FirstRun => VerdictInv)
  <1>1. Init => Inv
    BY InitTypeOK, InitVerdicts
  <1>2. Inv /\ [Next]_vars => Inv'
    <2> SUFFICES ASSUME Inv, [Next]_vars PROVE Inv'
      OBVIOUS
    <2>1. TypeOK'
      BY TypeStep
    <2>2. OffInv'
      BY OffStep
    <2>3. FirstRun' => VerdictInv'
      BY <2>1, VerdictStep
    <2>. QED BY <2>1, <2>2, <2>3
  <1>. QED BY <1>1, <1>2, PTL DEF Spec

\* handleLoopPoll counts the slots it has and those it adds: with no PRs of another
\* machine, the first run never has more slots than worktree.max_per_project.
THEOREM CapacityHolds ==
  ASSUME ForeignPRs = {}, ~SlowPolls
  PROVE  Spec => [](FirstRun => CapacityRespected)
  <1>1. VerdictInv => CapacityRespected
    BY DEF VerdictInv, CapacityRespected
  <1>. QED BY <1>1, VerdictsHold, PTL

\* handleLoopLabelPoll, handleLoopAgentWritten and handleLoopAgentLaunched launch no
\* agent on an issue another one is at work on, whatever messages are lost or late.
THEOREM AgentsWorkAlone ==
  ASSUME ForeignPRs = {}, ~SlowPolls
  PROVE  Spec => [](FirstRun => OneAgentPerIssue)
  <1>1. TypeOK /\ VerdictInv => OneAgentPerIssue
    <2> SUFFICES ASSUME TypeOK, VerdictInv, NEW a \in agents, NEW b \in agents,
                        a.issue = b.issue
                 PROVE  a = b
      BY DEF OneAgentPerIssue
    <2>1. a.issue \in Issues
      BY DEF TypeOK, Agent
    <2>2. a \in AgentsOf(a.issue) /\ b \in AgentsOf(a.issue)
      BY DEF AgentsOf
    <2>. QED BY <2>1, <2>2 DEF VerdictInv, IssueInv
  <1>. QED BY <1>1, VerdictsHold, PTL

\* handleLoopLabelPoll counts a round for a verdict given and gives an issue up after
\* enough of them only; the label heartbeats that tick were set for launched agents.
THEOREM VerdictsAnswered ==
  ASSUME ForeignPRs = {}, ~SlowPolls
  PROVE  Spec => [](FirstRun => VerdictsAccount)
  <1>1. TypeOK /\ OffInv /\ VerdictInv => VerdictsAccount
    <2> SUFFICES ASSUME TypeOK, OffInv, VerdictInv, NEW i \in Issues
                 PROVE  /\ slots[i].round <= rejected[i]
                        /\ slots[i].state = "NeedsHuman" =>
                              rejected[i] > MaxReviewRounds \/ "ai-review" \in labels[i]
                        /\ LabelChains(i) <= 2 * (rejected[i] + 1)
      BY DEF VerdictsAccount, EscalationEarned, LabelChainsBounded
    <2>1. IssueInv(i) /\ rejected[i] \in Nat
      BY DEF VerdictInv, TypeOK
    <2> DEFINE Earned == /\ slots[i].round <= rejected[i]
                         /\ slots[i].state = "NeedsHuman" =>
                               rejected[i] > MaxReviewRounds \/ "ai-review" \in labels[i]
    <2>2. ASSUME active PROVE Earned
      BY <2>1, <2>2 DEF IssueInv, SlotInv, SlotRounds, Is
    <2>3. ASSUME ~active PROVE Earned
      BY <2>1, <2>3 DEF OffInv, NoSlot
    <2>4. LabelChains(i) = Cardinality(Chains(i))
      <3>1. \A c \in Clients : labelTicks[c][i] \in Nat
        BY DEF TypeOK
      <3>2. UNION {{c} \X (1..labelTicks[c][i]) : c \in Clients} = Chains(i)
        BY <3>1 DEF Chains
      <3>. QED BY <3>2 DEF LabelChains
    <2>5. LabelChains(i) <= 2 * (rejected[i] + 1)
      BY <2>1, <2>4 DEF IssueInv
    <2>. QED BY <2>2, <2>3, <2>5
  <1>. QED BY <1>1, VerdictsHold, PTL

\* In any run, whatever PRs there are and however late an answer: a step takes no slots
\* beyond worktree.max_per_project but that of handleLoopOpenPRs, which takes up every
\* open PR.
THEOREM OnlyOpenPRsOverfill ==
  Spec => [][\/ SlotCount' <= MaxPerProject
             \/ SlotCount' <= SlotCount
             \/ \E c \in Clients : \E m \in flight[c] : HandleOpenPRs(c, m)]_vars
  <1>1. ASSUME TypeOK, [Next]_vars
        PROVE  [\/ SlotCount' <= MaxPerProject
                \/ SlotCount' <= SlotCount
                \/ \E c \in Clients : \E m \in flight[c] : HandleOpenPRs(c, m)]_vars
    BY <1>1, SlotsBounded
  <1>. QED BY <1>1, TypeCorrect, PTL DEF Spec

=============================================================================
