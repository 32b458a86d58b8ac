-------------------------- MODULE PendingOps_proofs --------------------------
(***************************************************************************)
(* Theorems about PendingOps, for any projects, issues, presses, visits,   *)
(* reloads and deletions.                                                  *)
(***************************************************************************)
EXTENDS PendingOps, TLAPS

-----------------------------------------------------------------------------
(* The kinds of the variables. *)

ShownStatus == {"pending", "todo"}
ProjectOps(kinds) == [kind : kinds, asked : Known, index : 1..Len(Order), press : Nat]
IssueOps == [kind : {"confirm"}, asked : Known, index : 1..Issues, press : Nat]
ActsAtOnce == {"clarify", "review", "redeploy", "undeploy"}
Executed == ActsAtOnce \cup {"loop"}

Dialogs ==
    {NoOp} \cup ProjectOps(ActsAtOnce)
    \cup [kind : {"labels"}, asked : Known, index : {0}, press : Nat]
    \cup [kind : {"issue"}, asked : Known, index : 1..Issues, press : Nat,
          project : Known \cup {None}, issue : Nat, status : ShownStatus]

Messages ==
    [op : {"check", "ensure"}, project : Known, press : Nat,
     at : {"asked", "error", "ready", "missing"}]
    \cup [op : {"load"}, project : Known, at : {"asked"}]
    \cup [op : {"load"}, project : Known, at : {"ready", "error"}, list : [1..Issues -> ShownStatus]]
    \cup [op : {"confirm"}, project : Known, issue : Nat, at : {"asked", "ready", "error"}]

Counters == [presses : Nat, visits : Nat, reloads : Nat, deletions : Nat]

Shape ==
    /\ projects \in Seq(Known) /\ Len(projects) <= Len(Order)
    /\ cursor \in {1} \cup 1..Len(Order) /\ view \in {"projects", "status"}
    /\ statusProject \in Known \cup {None} /\ statusCursor \in {1} \cup 1..Issues
    /\ shown \in Seq(ShownStatus) /\ Len(shown) \in {0, Issues}
    /\ pending \in {NoOp} \cup ProjectOps(Kinds) \cup IssueOps
    /\ flight \subseteq Messages /\ dialog \in Dialogs /\ ended \in BOOLEAN
    /\ labels \subseteq Known
    /\ acts \in Seq([op : ProjectOps(Executed), project : Known])
    /\ used \in Counters

\* One project less is a shorter list of the same projects.
LEMMA OneLess ==
  ASSUME NEW S, NEW s \in Seq(S), NEW k \in DOMAIN s
  PROVE  RemoveAt(s, k) \in Seq(S) /\ Len(RemoveAt(s, k)) = Len(s) - 1
  BY DEF RemoveAt

LEMMA ShapeInit == ASSUME PendingAssumption, Init PROVE Shape
<1>1. projects \in Seq(Known) /\ Len(projects) <= Len(Order)
  BY DEF PendingAssumption, Init, Known
<1>2. shown \in Seq(ShownStatus) /\ Len(shown) \in {0, Issues}
  BY DEF Init
<1>3. acts \in Seq([op : ProjectOps(Executed), project : Known]) BY DEF Init
<1>4. dialog \in Dialogs /\ pending \in {NoOp} \cup ProjectOps(Kinds) \cup IssueOps
  BY DEF Init, Dialogs
<1>5. used \in Counters BY DEF Init, Counters
<1> QED BY <1>1, <1>2, <1>3, <1>4, <1>5 DEF Init, Shape

\* An operation on a project that is in the list is recorded, or ends the program.
LEMMA OnIndexShape ==
  ASSUME Shape, NEW op \in ProjectOps(Executed), OnIndex(op)
  PROVE  acts' \in Seq([op : ProjectOps(Executed), project : Known]) /\ ended' \in BOOLEAN
<1>1. CASE op.index > Len(projects) BY <1>1 DEF OnIndex, Shape
<1>2. CASE ~(op.index > Len(projects))
  <2>1. op.index \in 1..Len(projects) BY <1>2 DEF ProjectOps, Shape
  <2>2. projects[op.index] \in Known BY <2>1 DEF Shape
  <2>3. acts' = Append(acts, [op |-> op, project |-> projects[op.index]]) /\ UNCHANGED ended
    BY <1>2 DEF OnIndex, Act
  <2> QED BY <2>2, <2>3 DEF Shape
<1> QED BY <1>1, <1>2

LEMMA CountersGrow ==
  ASSUME Shape, NEW f \in {"presses", "visits", "reloads", "deletions"},
         used' = [used EXCEPT ![f] = @ + 1]
  PROVE  used' \in Counters
  BY DEF Shape, Counters

\* A press takes its number and asks for the labels.
LEMMA AskShape ==
  ASSUME Shape, NEW kind, NEW p \in Known, NEW index, Ask(kind, p, index)
  PROVE  /\ pending' = [kind |-> kind, asked |-> p, index |-> index, press |-> used.presses + 1]
         /\ used' \in Counters
         /\ used'.presses = used.presses + 1 /\ used.presses \in Nat
         /\ flight' \subseteq Messages
<1>1. used \in Counters /\ used' = [used EXCEPT !.presses = used.presses + 1]
  BY DEF Ask, Shape
<1>2. used.presses \in Nat /\ used' \in Counters /\ used'.presses = used.presses + 1
  BY <1>1 DEF Counters
<1>3. [op |-> "check", project |-> p, press |-> used.presses + 1, at |-> "asked"] \in Messages
  BY <1>2 DEF Messages
<1>4. flight' \subseteq Messages BY <1>3 DEF Ask, Shape
<1> QED BY <1>2, <1>4 DEF Ask

LEMMA KeyShape ==
  ASSUME PendingAssumption, Shape, Key PROVE Shape'
<1> USE DEF Shape, Keys, outside, history, screen
<1>1. CASE \E n \in 1..Len(projects) : MoveCursor(n) BY <1>1 DEF MoveCursor
<1>2. CASE \E n \in 1..Issues : MoveStatusCursor(n) BY <1>2 DEF MoveStatusCursor
<1>3. CASE Status
  <2>1. Selected \in Known BY <1>3 DEF Status, Selected
  <2>2. flight' \subseteq Messages BY <1>3, <2>1 DEF Status, Messages
  <2>3. used' \in Counters BY <1>3, CountersGrow DEF Status
  <2> QED BY <1>3, <2>1, <2>2, <2>3 DEF Status
<1>4. CASE Back BY <1>4 DEF Back
<1>5. ASSUME NEW kind \in Kinds, Press(kind) PROVE Shape'
  <2>1. Selected \in Known /\ cursor \in 1..Len(Order) BY <1>5 DEF Press, Selected
  <2>2. Ask(kind, Selected, cursor) BY <1>5 DEF Press
  <2>3. /\ pending' = [kind |-> kind, asked |-> Selected, index |-> cursor, press |-> used.presses + 1]
        /\ used.presses \in Nat
    BY <2>1, <2>2, AskShape
  <2>4. pending' \in ProjectOps(Kinds) BY <2>1, <2>3 DEF ProjectOps
  <2> QED BY <1>5, <2>1, <2>2, <2>4, AskShape DEF Press
<1>6. CASE PressConfirm
  <2>1. statusProject \in Known BY <1>6 DEF PressConfirm, Range
  <2>2. statusCursor \in 1..Issues BY <1>6 DEF PressConfirm, PendingAssumption
  <2>3. Ask("confirm", statusProject, statusCursor) BY <1>6 DEF PressConfirm
  <2>4. /\ pending' = [kind |-> "confirm", asked |-> statusProject, index |-> statusCursor,
                       press |-> used.presses + 1]
        /\ used.presses \in Nat
    BY <2>1, <2>3, AskShape
  <2>5. pending' \in IssueOps BY <2>1, <2>2, <2>4 DEF IssueOps
  <2> QED BY <1>6, <2>1, <2>3, <2>5, AskShape DEF PressConfirm
<1>7. ASSUME NEW kind \in {"redeploy", "undeploy"}, PressDeploy(kind) PROVE Shape'
  <2>1. Selected \in Known /\ cursor \in 1..Len(Order) BY <1>7 DEF PressDeploy, Selected
  <2>2. used.presses \in Nat BY DEF Counters
  <2>3. dialog' = [kind |-> kind, asked |-> Selected, index |-> cursor, press |-> used.presses + 1]
    BY <1>7 DEF PressDeploy
  <2>4. dialog' \in ProjectOps(ActsAtOnce) BY <2>1, <2>2, <2>3 DEF ProjectOps, ActsAtOnce
  <2>5. dialog' \in Dialogs BY <2>4 DEF Dialogs
  <2>6. used' \in Counters BY <1>7, CountersGrow DEF PressDeploy
  <2> QED BY <1>7, <2>5, <2>6 DEF PressDeploy
<1> QED BY <1>1, <1>2, <1>3, <1>4, <1>5, <1>6, <1>7 DEF Key

LEMMA WorkShape ==
  ASSUME PendingAssumption, Shape, NEW m \in flight, Work(m) PROVE Shape'
<1> USE DEF Shape, outside, history, screen
<1>0. m \in Messages OBVIOUS
<1>1. CASE CheckLabels(m)
  <2>1. PICK answer \in {"error", "ready", "missing"} : Step(m, [m EXCEPT !.at = answer])
    BY <1>1 DEF CheckLabels
  <2>2. [m EXCEPT !.at = answer] \in Messages BY <1>0, <1>1 DEF CheckLabels, Messages
  <2> QED BY <1>1, <2>1, <2>2 DEF CheckLabels, Step
<1>2. CASE EnsureLabels(m) BY <1>0, <1>2 DEF EnsureLabels, Step, Messages
<1>3. CASE LoadIssues(m)
  <2> DEFINE found == [i \in 1..Issues |-> IF <<m.project, i>> \in todo THEN "todo" ELSE "pending"]
  <2>1. PICK answer \in {"ready", "error"} :
          Step(m, [op |-> "load", project |-> m.project, at |-> answer, list |-> found])
    BY <1>3 DEF LoadIssues
  <2>2. m.project \in Known BY <1>0, <1>3 DEF LoadIssues, Messages
  <2>3. found \in [1..Issues -> ShownStatus] BY DEF ShownStatus
  <2>4. [op |-> "load", project |-> m.project, at |-> answer, list |-> found] \in Messages
    BY <2>2, <2>3 DEF Messages
  <2>5. flight' \subseteq Messages BY <2>1, <2>4 DEF Step
  <2> QED BY <1>3, <2>5 DEF LoadIssues
<1>4. CASE UpdateLabels(m) BY <1>0, <1>4 DEF UpdateLabels, Step, Messages
<1> QED BY <1>1, <1>2, <1>3, <1>4 DEF Work

\* What executePendingOp leaves.
LEMMA ExecuteShape ==
  ASSUME PendingAssumption, Shape, NEW kind \in AllKinds, ExecutePendingOp(kind)
  PROVE  /\ cursor' \in {1} \cup 1..Len(Order) /\ dialog' \in Dialogs /\ ended' \in BOOLEAN
         /\ acts' \in Seq([op : ProjectOps(Executed), project : Known])
         /\ pending' = NoOp
         /\ UNCHANGED <<view, statusProject, statusCursor, shown>>
<1> USE DEF Shape
<1>0. pending' = NoOp /\ UNCHANGED <<view, statusProject, statusCursor, shown>>
  BY DEF ExecutePendingOp
<1>1. CASE kind = "none" BY <1>0, <1>1 DEF ExecutePendingOp
<1>2. CASE kind \in {"clarify", "review"}
  <2>1. pending \in ProjectOps({"clarify", "review"})
    BY <1>2 DEF ExecutePendingOp, ProjectOps, IssueOps, NoOp
  <2>2. ExecuteAgent(pending) BY <1>2 DEF ExecutePendingOp
  <2>3. pending \in Dialogs /\ pending \in ProjectOps(Executed) /\ pending.index \in 1..Len(Order)
    BY <2>1 DEF ProjectOps, Dialogs, ActsAtOnce, Executed
  <2>4. dialog' \in Dialogs BY <2>2, <2>3 DEF ExecuteAgent
  <2>5. acts' \in Seq([op : ProjectOps(Executed), project : Known]) /\ ended' \in BOOLEAN
    BY <2>2, <2>3, OnIndexShape DEF ExecuteAgent
  <2> QED BY <1>0, <2>2, <2>3, <2>4, <2>5 DEF ExecuteAgent
<1>3. CASE kind = "loop"
  <2>1. pending \in ProjectOps(Executed) /\ pending.index \in 1..Len(Order)
    BY <1>3 DEF ExecutePendingOp, ProjectOps, IssueOps, NoOp, Executed
  <2>2. OnIndex(pending) /\ UNCHANGED <<cursor, dialog>> BY <1>3 DEF ExecutePendingOp
  <2> QED BY <1>0, <2>1, <2>2, OnIndexShape
<1>4. CASE kind = "confirm"
  <2>1. pending \in IssueOps
    BY <1>4 DEF ExecutePendingOp, ProjectOps, IssueOps, NoOp, PendingAssumption
  <2>2. ExecuteConfirm(pending) BY <1>4 DEF ExecutePendingOp
  <2>4. statusCursor <= Len(shown) => IssueDialog(pending) \in Dialogs
    BY <2>1 DEF Dialogs, IssueOps, IssueDialog, ShownStatus
  <2> QED BY <1>0, <2>2, <2>4 DEF ExecuteConfirm
<1> QED BY <1>1, <1>2, <1>3, <1>4 DEF AllKinds, PendingAssumption

LEMMA HandleShape ==
  ASSUME PendingAssumption, Shape, NEW m \in flight, Handle(m) PROVE Shape'
<1> USE DEF Shape, outside, history, screen, Answered
<1>0. m \in Messages OBVIOUS
<1>1. CASE Dropped(m) BY <1>1 DEF Dropped
<1>2. CASE Checked(m)
  <2>1. CASE m.at = "error" BY <1>2, <2>1 DEF Checked
  <2>2. CASE m.at = "ready"
    <3>1. PICK kind \in AllKinds : ExecutePendingOp(kind) BY <1>2, <2>2 DEF Checked
    <3> QED BY <1>2, <3>1, ExecuteShape DEF Checked
  <2>3. CASE m.at \notin {"error", "ready"}
    <3>1. dialog' = [kind |-> "labels", asked |-> m.project, index |-> 0, press |-> m.press]
      BY <1>2, <2>3 DEF Checked
    <3>2. dialog' \in Dialogs BY <1>0, <1>2, <3>1 DEF Dialogs, Messages, Checked
    <3> QED BY <1>2, <2>3, <3>2 DEF Checked
  <2> QED BY <2>1, <2>2, <2>3
<1>3. CASE Ensured(m)
  <2>1. CASE m.at = "error" BY <1>3, <2>1 DEF Ensured
  <2>2. CASE m.at # "error"
    <3>1. PICK kind \in AllKinds : ExecutePendingOp(kind) BY <1>3, <2>2 DEF Ensured
    <3> QED BY <1>3, <3>1, ExecuteShape DEF Ensured
  <2> QED BY <2>1, <2>2
<1>4. CASE IssuesLoaded(m)
  <2>1. m.at = "ready" => m.list \in [1..Issues -> ShownStatus]
    BY <1>0, <1>4 DEF IssuesLoaded, Messages
  <2>2. m.at = "ready" => m.list \in Seq(ShownStatus) /\ Len(m.list) = Issues
    <3>1. Issues \in Nat BY DEF PendingAssumption
    <3> QED BY <2>1, <3>1
  <2> QED BY <1>4, <2>2 DEF IssuesLoaded
<1>5. CASE IssueConfirmed(m)
  <2>1. [shown EXCEPT ![m.issue] = "todo"] \in Seq(ShownStatus)
        /\ Len([shown EXCEPT ![m.issue] = "todo"]) = Len(shown)
    <3>1. "todo" \in ShownStatus BY DEF ShownStatus
    <3>2. shown \in [1..Len(shown) -> ShownStatus] /\ Len(shown) \in Nat OBVIOUS
    <3> HIDE DEF Shape
    <3>3. [shown EXCEPT ![m.issue] = "todo"] \in [1..Len(shown) -> ShownStatus] BY <3>1, <3>2
    <3> QED BY <3>2, <3>3
  <2> QED BY <1>5, <2>1 DEF IssueConfirmed
<1> QED BY <1>1, <1>2, <1>3, <1>4, <1>5 DEF Handle

LEMMA AnswerShape ==
  ASSUME PendingAssumption, Shape, Answer PROVE Shape'
<1> USE DEF Shape, outside, history, screen, Agree
<1>1. CASE Refuse BY <1>1 DEF Refuse, Dialogs
<1>2. CASE AgreeLabels
  <2>1. dialog \in [kind : {"labels"}, asked : Known, index : {0}, press : Nat]
    BY <1>2 DEF AgreeLabels, Dialogs, ProjectOps, ActsAtOnce, NoOp
  <2> QED BY <1>2, <2>1 DEF AgreeLabels, Messages, Dialogs
<1>3. CASE AgreeDeploy
  <2>1. dialog \in ProjectOps(Executed)
    BY <1>3 DEF AgreeDeploy, Dialogs, ProjectOps, ActsAtOnce, Executed, NoOp
  <2>2. dialog.index \in 1..Len(Order) BY <2>1 DEF ProjectOps
  <2>3. acts' \in Seq([op : ProjectOps(Executed), project : Known]) /\ ended' \in BOOLEAN
    BY <1>3, <2>1, <2>2, OnIndexShape DEF AgreeDeploy
  <2> QED BY <1>3, <2>3 DEF AgreeDeploy, Dialogs
<1>4. CASE AgreeUndeploy
  <2>1. dialog \in ProjectOps(Executed)
    BY <1>4 DEF AgreeUndeploy, Dialogs, ProjectOps, ActsAtOnce, Executed, NoOp
  <2>2. acts' \in Seq([op : ProjectOps(Executed), project : Known])
    BY <1>4, <2>1 DEF AgreeUndeploy, ProjectOps, Act
  <2> QED BY <1>4, <2>2 DEF AgreeUndeploy, Dialogs
<1>5. CASE AgreeIssue
  <2>1. dialog \in [kind : {"issue"}, asked : Known, index : 1..Issues, press : Nat,
                    project : Known \cup {None}, issue : Nat, status : ShownStatus]
    BY <1>5 DEF AgreeIssue, Dialogs, ProjectOps, ActsAtOnce, NoOp
  <2>2. Range(projects) \subseteq Known BY DEF Range
  <2> QED BY <1>5, <2>1, <2>2 DEF AgreeIssue, Dialogs, Messages
<1> QED BY <1>1, <1>2, <1>3, <1>4, <1>5 DEF Answer

LEMMA ShapeStep ==
  ASSUME PendingAssumption, Shape, [Next]_vars PROVE Shape'
<1>1. CASE Key BY <1>1, KeyShape
<1>2. CASE Answer BY <1>2, AnswerShape
<1>3. ASSUME NEW m \in flight, Work(m) \/ Handle(m) PROVE Shape'
  BY <1>3, WorkShape, HandleShape
<1>4. ASSUME NEW p \in Known, Reload(p) PROVE Shape'
  <2>1. PICK k \in DOMAIN projects : projects' = RemoveAt(projects, k) BY <1>4 DEF Reload
  <2>2. projects' \in Seq(Known) /\ Len(projects') <= Len(Order) BY <2>1, OneLess DEF Shape
  <2>3. used' \in Counters
    BY <1>4, CountersGrow DEF Reload
  <2> QED BY <1>4, <2>2, <2>3 DEF Shape, Reload, screen
<1>5. ASSUME NEW p \in Known, Delete(p) PROVE Shape'
  <2>1. used' \in Counters
    BY <1>5, CountersGrow DEF Delete
  <2>2. labels' \subseteq Known BY <1>5 DEF Shape, Delete
  <2> QED BY <1>5, <2>1, <2>2 DEF Shape, Delete, screen
<1>6. CASE UNCHANGED vars BY <1>6 DEF Shape, vars, screen, outside, history
<1> QED BY <1>1, <1>2, <1>3, <1>4, <1>5, <1>6 DEF Next, Outside

-----------------------------------------------------------------------------
(* One press, one operation: the number of a press is with what is pending, *)
(* with a dialog or with what was executed, and with one of them only.      *)

Done(n) == \E k \in DOMAIN acts : acts[k].op.press = n

\* A dialog that asks about an operation or an issue, not about labels.
AsksToAct == dialog.kind \notin {"none", "labels"}

OnceInv ==
    /\ \A n \in Nat : Done(n) => n <= used.presses
    /\ OncePerPress
    /\ pending # NoOp => pending.press <= used.presses /\ ~Done(pending.press)
    /\ AsksToAct => dialog.press <= used.presses
    /\ dialog.kind \in ActsAtOnce => ~Done(dialog.press)
    /\ AsksToAct /\ pending # NoOp => dialog.press # pending.press

LEMMA OnceInit == ASSUME Init PROVE OnceInv
  BY DEF Init, OnceInv, Done, OncePerPress, AsksToAct, NoOp, ActsAtOnce

\* Executing an operation nobody executed keeps the presses of the executed ones apart.
LEMMA ActOnce ==
  ASSUME Shape, OncePerPress, NEW op \in ProjectOps(Executed), ~Done(op.press), NEW p \in Known,
         acts' = Act(op, p)
  PROVE  OncePerPress' /\ \A n \in Nat : Done(n)' => Done(n) \/ n = op.press
<1> DEFINE new == [op |-> op, project |-> p]
<1>1. /\ acts \in Seq([op : ProjectOps(Executed), project : Known])
      /\ acts' = Append(acts, new)
  BY DEF Shape, Act
<1>2. new \in [op : ProjectOps(Executed), project : Known] OBVIOUS
<1>3. /\ DOMAIN acts' = DOMAIN acts \cup {Len(acts) + 1} /\ Len(acts) + 1 \notin DOMAIN acts
      /\ \A k \in DOMAIN acts : acts'[k] = acts[k]
      /\ acts'[Len(acts) + 1] = new
  BY <1>1, <1>2
<1> QED BY <1>3 DEF OncePerPress, Done

LEMMA OnIndexOnce ==
  ASSUME Shape, OncePerPress, NEW op \in ProjectOps(Executed), ~Done(op.press), OnIndex(op)
  PROVE  OncePerPress' /\ \A n \in Nat : Done(n)' => Done(n) \/ n = op.press
<1>1. CASE UNCHANGED acts BY <1>1 DEF OncePerPress, Done
<1>2. CASE ~(op.index > Len(projects))
  <2>1. op.index \in 1..Len(projects) BY <1>2 DEF ProjectOps, Shape
  <2>2. projects[op.index] \in Known BY <2>1 DEF Shape
  <2>3. acts' = Act(op, projects[op.index]) BY <1>2 DEF OnIndex
  <2> QED BY <2>2, <2>3, ActOnce
<1> QED BY <1>1, <1>2 DEF OnIndex

\* Nothing is executed, and nothing new is pending or asked.
LEMMA OnceQuiet ==
  ASSUME Shape, OnceInv, UNCHANGED acts, used'.presses = used.presses,
         pending' \in {pending, NoOp}, dialog' = dialog \/ ~AsksToAct'
  PROVE  OnceInv'
<1>1. OncePerPress' /\ \A n : Done(n)' <=> Done(n) BY DEF OnceInv, OncePerPress, Done
<1>2. CASE dialog' = dialog
  BY <1>1, <1>2 DEF OnceInv, AsksToAct, ActsAtOnce
<1>3. CASE ~AsksToAct'
  BY <1>1, <1>3 DEF OnceInv, AsksToAct, ActsAtOnce
<1> QED BY <1>2, <1>3

LEMMA KeyOnce ==
  ASSUME PendingAssumption, Shape, OnceInv, Key PROVE OnceInv'
<1> USE DEF Keys, screen
<1>0. used.presses \in Nat BY DEF Shape, Counters
<1>1. CASE \E n \in 1..Len(projects) : MoveCursor(n) BY <1>1, OnceQuiet DEF MoveCursor
<1>2. CASE \E n \in 1..Issues : MoveStatusCursor(n) BY <1>2, OnceQuiet DEF MoveStatusCursor
<1>3. CASE Status
  <2>1. used'.presses = used.presses BY <1>3 DEF Status, Shape, Counters
  <2> QED BY <1>3, <2>1, OnceQuiet DEF Status
<1>4. CASE Back BY <1>4, OnceQuiet DEF Back
<1>5. ASSUME NEW kind, NEW p \in Known, NEW index, Ask(kind, p, index), UNCHANGED <<dialog, acts>>
      PROVE OnceInv'
  <2>1. /\ pending' = [kind |-> kind, asked |-> p, index |-> index, press |-> used.presses + 1]
        /\ used'.presses = used.presses + 1
    BY <1>5, AskShape
  <2>2. pending'.press = used.presses + 1 BY <2>1
  <2>3. OncePerPress' /\ \A n : Done(n)' <=> Done(n) BY <1>5 DEF OnceInv, OncePerPress, Done
  <2>4. dialog.press \in Nat BY DEF Shape, Dialogs, NoOp, ProjectOps
  <2> QED BY <1>0, <1>5, <2>1, <2>2, <2>3, <2>4 DEF OnceInv, AsksToAct
<1>6. ASSUME NEW kind \in Kinds, Press(kind) PROVE OnceInv'
  <2>1. Selected \in Known BY <1>6 DEF Press, Selected, Shape
  <2> QED BY <1>5, <1>6, <2>1 DEF Press
<1>7. CASE PressConfirm
  <2>1. statusProject \in Known BY <1>7 DEF PressConfirm, Range, Shape
  <2> QED BY <1>5, <1>7, <2>1 DEF PressConfirm
<1>8. ASSUME NEW kind \in {"redeploy", "undeploy"}, PressDeploy(kind) PROVE OnceInv'
  <2>1. dialog'.press = used.presses + 1 BY <1>8 DEF PressDeploy
  <2>2. used'.presses = used.presses + 1 BY <1>8 DEF PressDeploy, Shape, Counters
  <2>3. OncePerPress' /\ \A n : Done(n)' <=> Done(n)
    BY <1>8 DEF PressDeploy, OnceInv, OncePerPress, Done
  <2>4. pending' = pending /\ pending.press \in Nat
    BY <1>8 DEF PressDeploy, Shape, NoOp, ProjectOps, IssueOps
  <2> QED BY <1>0, <2>1, <2>2, <2>3, <2>4 DEF OnceInv, AsksToAct
<1> QED BY <1>1, <1>2, <1>3, <1>4, <1>6, <1>7, <1>8 DEF Key

\* What is pending is executed, or asked about once more in a dialog.
LEMMA ExecuteOnce ==
  ASSUME PendingAssumption, Shape, OnceInv, dialog = NoOp, UNCHANGED used,
         NEW kind \in AllKinds, ExecutePendingOp(kind)
  PROVE  OnceInv'
<1>0. pending' = NoOp BY DEF ExecutePendingOp
<1>a. used.presses \in Nat BY DEF Shape, Counters
<1>b. ~AsksToAct BY DEF AsksToAct, NoOp
<1>1. CASE kind = "none" BY <1>0, <1>1, OnceQuiet DEF ExecutePendingOp
<1>2. ASSUME pending \in ProjectOps(Executed), OnIndex(pending), UNCHANGED dialog PROVE OnceInv'
  <2>1. pending # NoOp BY <1>2 DEF NoOp, ProjectOps, Executed, ActsAtOnce
  <2>2. OncePerPress' /\ \A n \in Nat : Done(n)' => Done(n) \/ n = pending.press
    BY <1>2, <2>1, OnIndexOnce DEF OnceInv
  <2> QED BY <1>0, <1>2, <1>b, <2>1, <2>2 DEF OnceInv, AsksToAct, ActsAtOnce
<1>3. ASSUME pending # NoOp, dialog'.press = pending.press, UNCHANGED acts PROVE OnceInv'
  <2>1. OncePerPress' /\ \A n : Done(n)' <=> Done(n) BY <1>3 DEF OnceInv, OncePerPress, Done
  <2> QED BY <1>0, <1>3, <2>1 DEF OnceInv
<1>4. CASE kind \in {"clarify", "review"}
  <2>1. pending \in ProjectOps({"clarify", "review"})
    BY <1>4 DEF ExecutePendingOp, ProjectOps, IssueOps, NoOp, Shape
  <2>2. pending \in ProjectOps(Executed) /\ pending # NoOp
    BY <2>1 DEF ProjectOps, Executed, ActsAtOnce, NoOp
  <2>3. \/ dialog' = pending /\ UNCHANGED acts
        \/ OnIndex(pending) /\ UNCHANGED dialog
    BY <1>4 DEF ExecutePendingOp, ExecuteAgent
  <2> QED BY <1>2, <1>3, <2>2, <2>3
<1>5. CASE kind = "loop"
  <2>1. pending \in ProjectOps(Executed)
    BY <1>5 DEF ExecutePendingOp, ProjectOps, IssueOps, NoOp, Executed, Shape
  <2> QED BY <1>2, <1>5, <2>1 DEF ExecutePendingOp
<1>6. CASE kind = "confirm"
  <2>1. pending # NoOp BY <1>6 DEF ExecutePendingOp, NoOp
  <2>2. /\ UNCHANGED acts
        /\ dialog' = dialog \/ dialog'.press = pending.press
    BY <1>6 DEF ExecutePendingOp, ExecuteConfirm, IssueDialog
  <2> QED BY <1>0, <1>3, <2>1, <2>2, OnceQuiet
<1> QED BY <1>1, <1>4, <1>5, <1>6 DEF AllKinds, PendingAssumption

LEMMA HandleOnce ==
  ASSUME PendingAssumption, Shape, OnceInv, NEW m \in flight, Handle(m) PROVE OnceInv'
<1> USE DEF outside, history, screen, Answered
<1>1. CASE Dropped(m) BY <1>1, OnceQuiet DEF Dropped
<1>2. CASE Checked(m)
  <2>1. CASE m.at = "error" BY <1>2, <2>1, OnceQuiet DEF Checked
  <2>2. CASE m.at = "ready"
    <3>1. PICK kind \in AllKinds : ExecutePendingOp(kind) BY <1>2, <2>2 DEF Checked
    <3> QED BY <1>2, <3>1, ExecuteOnce DEF Checked
  <2>3. CASE m.at \notin {"error", "ready"}
    <3>1. dialog'.kind = "labels" /\ UNCHANGED <<pending, acts, used>> BY <1>2, <2>3 DEF Checked
    <3> QED BY <3>1, OnceQuiet DEF AsksToAct
  <2> QED BY <2>1, <2>2, <2>3
<1>3. CASE Ensured(m)
  <2>1. CASE m.at = "error" BY <1>3, <2>1, OnceQuiet DEF Ensured
  <2>2. CASE m.at # "error"
    <3>1. PICK kind \in AllKinds : ExecutePendingOp(kind) BY <1>3, <2>2 DEF Ensured
    <3> QED BY <1>3, <3>1, ExecuteOnce DEF Ensured
  <2> QED BY <2>1, <2>2
<1>4. CASE IssuesLoaded(m) BY <1>4, OnceQuiet DEF IssuesLoaded
<1>5. CASE IssueConfirmed(m) BY <1>5, OnceQuiet DEF IssueConfirmed
<1> QED BY <1>1, <1>2, <1>3, <1>4, <1>5 DEF Handle

LEMMA AnswerOnce ==
  ASSUME PendingAssumption, Shape, OnceInv, Answer PROVE OnceInv'
<1> USE DEF outside, history, screen, Agree
<1>0. ~AsksToAct' <=> dialog'.kind \in {"none", "labels"} BY DEF AsksToAct
<1>1. CASE Refuse BY <1>0, <1>1, OnceQuiet DEF Refuse, NoOp
<1>2. CASE AgreeLabels BY <1>0, <1>2, OnceQuiet DEF AgreeLabels, NoOp
<1>3. ASSUME dialog.kind \in ActsAtOnce, dialog' = NoOp, UNCHANGED <<pending, used>>,
             OncePerPress', \A n \in Nat : Done(n)' => Done(n) \/ n = dialog.press
      PROVE OnceInv'
  <2>1. AsksToAct /\ ~AsksToAct' /\ dialog'.kind \notin ActsAtOnce
    BY <1>3 DEF AsksToAct, ActsAtOnce, NoOp
  <2>2. pending.press \in Nat BY DEF Shape, NoOp, ProjectOps, IssueOps
  <2> QED BY <1>3, <2>1, <2>2 DEF OnceInv
<1>4. CASE AgreeDeploy
  <2>1. dialog \in ProjectOps(Executed) /\ dialog.kind \in ActsAtOnce
    BY <1>4 DEF AgreeDeploy, Dialogs, ProjectOps, ActsAtOnce, Executed, NoOp, Shape
  <2>2. OnIndex(dialog) /\ dialog' = NoOp /\ UNCHANGED <<pending, used>> BY <1>4 DEF AgreeDeploy
  <2> QED BY <1>3, <2>1, <2>2, OnIndexOnce DEF OnceInv
<1>5. CASE AgreeUndeploy
  <2>1. dialog \in ProjectOps(Executed) /\ dialog.kind \in ActsAtOnce /\ dialog.asked \in Known
    BY <1>5 DEF AgreeUndeploy, Dialogs, ProjectOps, ActsAtOnce, Executed, NoOp, Shape
  <2>2. acts' = Act(dialog, dialog.asked) /\ dialog' = NoOp /\ UNCHANGED <<pending, used>>
    BY <1>5 DEF AgreeUndeploy
  <2> QED BY <1>3, <2>1, <2>2, ActOnce DEF OnceInv
<1>6. CASE AgreeIssue BY <1>0, <1>6, OnceQuiet DEF AgreeIssue, NoOp
<1> QED BY <1>1, <1>2, <1>4, <1>5, <1>6 DEF Answer

LEMMA OnceStep ==
  ASSUME PendingAssumption, Shape, OnceInv, [Next]_vars PROVE OnceInv'
<1> USE DEF outside, history, screen
<1>1. CASE Key BY <1>1, KeyOnce
<1>2. CASE Answer BY <1>2, AnswerOnce
<1>3. ASSUME NEW m \in flight, Work(m) PROVE OnceInv'
  <2>1. UNCHANGED <<acts, used, pending, dialog>>
    BY <1>3 DEF Work, CheckLabels, EnsureLabels, LoadIssues, UpdateLabels
  <2> QED BY <2>1, OnceQuiet
<1>4. ASSUME NEW m \in flight, Handle(m) PROVE OnceInv' BY <1>4, HandleOnce
<1>5. ASSUME NEW p \in Known, Reload(p) \/ Delete(p) PROVE OnceInv'
  <2>1. UNCHANGED <<acts, pending, dialog>> BY <1>5 DEF Reload, Delete
  <2>2. used'.presses = used.presses BY <1>5 DEF Reload, Delete, Shape, Counters
  <2> QED BY <2>1, <2>2, OnceQuiet
<1>6. CASE UNCHANGED vars BY <1>6, OnceQuiet DEF vars
<1> QED BY <1>1, <1>2, <1>3, <1>4, <1>5, <1>6 DEF Next, Outside

-----------------------------------------------------------------------------
(* Until a config is taken over an index means the project it was asked for. *)

Names(op) == op.index \in DOMAIN Order /\ Order[op.index] = op.asked

AllAsked == \A k \in DOMAIN acts : acts[k].project = acts[k].op.asked

AskedInv ==
    used.reloads = 0 =>
        /\ projects = Order /\ ~ended /\ AllAsked
        /\ pending.kind \in Kinds => Names(pending)
        /\ dialog.kind \in ActsAtOnce => Names(dialog)

LEMMA AskedInit == ASSUME PendingAssumption, Init PROVE AskedInv
  BY DEF Init, AskedInv, AllAsked, NoOp, ActsAtOnce, PendingAssumption

LEMMA ActAsked ==
  ASSUME Shape, AllAsked, NEW op \in ProjectOps(Executed), acts' = Act(op, op.asked)
  PROVE  AllAsked'
<1> DEFINE new == [op |-> op, project |-> op.asked]
<1>1. /\ acts \in Seq([op : ProjectOps(Executed), project : Known])
      /\ acts' = Append(acts, new) /\ op.asked \in Known
  BY DEF Shape, Act, ProjectOps
<1>2. /\ DOMAIN acts' = DOMAIN acts \cup {Len(acts) + 1}
      /\ \A k \in DOMAIN acts : k # Len(acts) + 1 /\ acts'[k] = acts[k]
      /\ acts'[Len(acts) + 1] = new
  BY <1>1
<1> QED BY <1>2 DEF AllAsked

LEMMA OnIndexAsked ==
  ASSUME PendingAssumption, Shape, AllAsked, projects = Order, ~ended,
         NEW op \in ProjectOps(Executed), Names(op), OnIndex(op)
  PROVE  AllAsked' /\ ~ended'
<1>1. op.index \in 1..Len(Order) BY DEF Names, PendingAssumption
<1>2. ~(op.index > Len(projects)) BY <1>1 DEF PendingAssumption
<1>3. acts' = Act(op, op.asked) /\ ~ended' BY <1>2 DEF OnIndex, Names
<1> QED BY <1>3, ActAsked

\* Nothing is executed, and nothing new is pending or asked.
LEMMA AskedQuiet ==
  ASSUME AskedInv, UNCHANGED <<acts, ended, projects>>, used'.reloads = used.reloads,
         pending' \in {pending, NoOp}, dialog' = dialog \/ dialog'.kind \notin ActsAtOnce,
         "none" \notin Kinds
  PROVE  AskedInv'
  BY DEF AskedInv, AllAsked, Names, NoOp

LEMMA ExecuteAsked ==
  ASSUME PendingAssumption, Shape, AskedInv, dialog = NoOp, UNCHANGED <<used, projects>>,
         NEW kind \in AllKinds, ExecutePendingOp(kind)
  PROVE  AskedInv'
<1>0. pending' = NoOp /\ "none" \notin Kinds /\ "confirm" \notin Kinds
  BY DEF ExecutePendingOp, PendingAssumption
<1>1. CASE kind = "none" BY <1>0, <1>1, AskedQuiet DEF ExecutePendingOp
<1>2. ASSUME pending \in ProjectOps(Executed), pending.kind \in Kinds,
             OnIndex(pending), UNCHANGED dialog
      PROVE AskedInv'
  <2>1. dialog'.kind \notin ActsAtOnce /\ pending'.kind \notin Kinds
    BY <1>0, <1>2 DEF NoOp, ActsAtOnce
  <2> QED BY <1>2, <2>1, OnIndexAsked DEF AskedInv
<1>3. ASSUME pending.kind \in Kinds, dialog' = pending, UNCHANGED <<acts, ended>> PROVE AskedInv'
  BY <1>0, <1>3 DEF AskedInv, AllAsked, Names, NoOp
<1>4. CASE kind \in {"clarify", "review"}
  <2>1. pending \in ProjectOps({"clarify", "review"}) /\ pending.kind \in Kinds
    BY <1>4 DEF ExecutePendingOp, ProjectOps, IssueOps, NoOp, Shape
  <2>2. pending \in ProjectOps(Executed)
    BY <2>1 DEF ProjectOps, Executed, ActsAtOnce
  <2>3. \/ dialog' = pending /\ UNCHANGED <<acts, ended>>
        \/ OnIndex(pending) /\ UNCHANGED dialog
    BY <1>4 DEF ExecutePendingOp, ExecuteAgent
  <2> QED BY <1>2, <1>3, <2>1, <2>2, <2>3
<1>5. CASE kind = "loop"
  <2>1. pending \in ProjectOps(Executed) /\ pending.kind \in Kinds
    BY <1>5 DEF ExecutePendingOp, ProjectOps, IssueOps, NoOp, Executed, Shape
  <2> QED BY <1>2, <1>5, <2>1 DEF ExecutePendingOp
<1>6. CASE kind = "confirm"
  <2>1. UNCHANGED <<acts, ended>> /\ (dialog' = dialog \/ dialog'.kind \notin ActsAtOnce)
    BY <1>6 DEF ExecutePendingOp, ExecuteConfirm, IssueDialog, ActsAtOnce
  <2> QED BY <1>0, <2>1, AskedQuiet
<1> QED BY <1>1, <1>4, <1>5, <1>6 DEF AllKinds, PendingAssumption

LEMMA KeyAsked ==
  ASSUME PendingAssumption, Shape, AskedInv, Key PROVE AskedInv'
<1> USE DEF Keys, screen, outside
<1>0. "none" \notin Kinds /\ "confirm" \notin Kinds BY DEF PendingAssumption
<1>1. CASE \E n \in 1..Len(projects) : MoveCursor(n) BY <1>0, <1>1, AskedQuiet DEF MoveCursor
<1>2. CASE \E n \in 1..Issues : MoveStatusCursor(n) BY <1>0, <1>2, AskedQuiet DEF MoveStatusCursor
<1>3. CASE Status
  <2>1. used'.reloads = used.reloads BY <1>3 DEF Status, Shape, Counters
  <2> QED BY <1>0, <1>3, <2>1, AskedQuiet DEF Status
<1>4. CASE Back BY <1>0, <1>4, AskedQuiet DEF Back
<1>5. ASSUME NEW kind \in Kinds, Press(kind) PROVE AskedInv'
  <2>1. cursor \in 1..Len(projects) /\ Selected = projects[cursor]
    BY <1>5 DEF Press, Selected, Shape
  <2>2. used'.reloads = used.reloads BY <1>5 DEF Press, Ask, Shape, Counters
  <2>3. pending'.asked = Selected /\ pending'.index = cursor BY <1>5 DEF Press, Ask
  <2>4. projects = Order => Names(pending') BY <2>1, <2>3 DEF Names, PendingAssumption
  <2> QED BY <1>5, <2>2, <2>4 DEF AskedInv, AllAsked, Press, Names
<1>6. CASE PressConfirm
  <2>1. used'.reloads = used.reloads BY <1>6 DEF PressConfirm, Ask, Shape, Counters
  <2>2. pending'.kind = "confirm" BY <1>6 DEF PressConfirm, Ask
  <2> QED BY <1>0, <1>6, <2>1, <2>2 DEF AskedInv, AllAsked, PressConfirm, Names
<1>7. ASSUME NEW kind \in {"redeploy", "undeploy"}, PressDeploy(kind) PROVE AskedInv'
  <2>1. cursor \in 1..Len(projects) /\ Selected = projects[cursor]
    BY <1>7 DEF PressDeploy, Selected, Shape
  <2>2. used'.reloads = used.reloads BY <1>7 DEF PressDeploy, Shape, Counters
  <2>3. dialog'.asked = Selected /\ dialog'.index = cursor BY <1>7 DEF PressDeploy
  <2>4. projects = Order => Names(dialog') BY <2>1, <2>3 DEF Names, PendingAssumption
  <2> QED BY <1>7, <2>2, <2>4 DEF AskedInv, AllAsked, PressDeploy, Names
<1> QED BY <1>1, <1>2, <1>3, <1>4, <1>5, <1>6, <1>7 DEF Key

LEMMA HandleAsked ==
  ASSUME PendingAssumption, Shape, AskedInv, NEW m \in flight, Handle(m) PROVE AskedInv'
<1> USE DEF outside, history, screen, Answered
<1>0. "none" \notin Kinds BY DEF PendingAssumption
<1>1. CASE Dropped(m) BY <1>0, <1>1, AskedQuiet DEF Dropped
<1>2. CASE Checked(m)
  <2>1. CASE m.at = "error" BY <1>0, <1>2, <2>1, AskedQuiet DEF Checked
  <2>2. CASE m.at = "ready"
    <3>1. PICK kind \in AllKinds : ExecutePendingOp(kind) BY <1>2, <2>2 DEF Checked
    <3> QED BY <1>2, <3>1, ExecuteAsked DEF Checked
  <2>3. CASE m.at \notin {"error", "ready"}
    <3>1. /\ dialog'.kind = "labels" /\ UNCHANGED <<pending, acts, ended, projects, used>>
      BY <1>2, <2>3 DEF Checked
    <3> QED BY <1>0, <3>1, AskedQuiet DEF ActsAtOnce
  <2> QED BY <2>1, <2>2, <2>3
<1>3. CASE Ensured(m)
  <2>1. CASE m.at = "error" BY <1>0, <1>3, <2>1, AskedQuiet DEF Ensured
  <2>2. CASE m.at # "error"
    <3>1. PICK kind \in AllKinds : ExecutePendingOp(kind) BY <1>3, <2>2 DEF Ensured
    <3> QED BY <1>3, <3>1, ExecuteAsked DEF Ensured
  <2> QED BY <2>1, <2>2
<1>4. CASE IssuesLoaded(m) BY <1>0, <1>4, AskedQuiet DEF IssuesLoaded
<1>5. CASE IssueConfirmed(m) BY <1>0, <1>5, AskedQuiet DEF IssueConfirmed
<1> QED BY <1>1, <1>2, <1>3, <1>4, <1>5 DEF Handle

LEMMA AnswerAsked ==
  ASSUME PendingAssumption, Shape, AskedInv, Answer PROVE AskedInv'
<1> USE DEF outside, history, screen, Agree
<1>0. "none" \notin Kinds /\ NoOp.kind \notin ActsAtOnce BY DEF PendingAssumption, NoOp, ActsAtOnce
<1>1. CASE Refuse BY <1>0, <1>1, AskedQuiet DEF Refuse
<1>2. CASE AgreeLabels BY <1>0, <1>2, AskedQuiet DEF AgreeLabels
<1>3. CASE AgreeDeploy
  <2>1. dialog \in ProjectOps(Executed) /\ dialog.kind \in ActsAtOnce
    BY <1>3 DEF AgreeDeploy, Dialogs, ProjectOps, ActsAtOnce, Executed, NoOp, Shape
  <2>2. OnIndex(dialog) /\ dialog' = NoOp /\ UNCHANGED <<pending, projects, used>>
    BY <1>3 DEF AgreeDeploy
  <2> QED BY <1>0, <2>1, <2>2, OnIndexAsked DEF AskedInv, Names
<1>4. CASE AgreeUndeploy
  <2>1. dialog \in ProjectOps(Executed)
    BY <1>4 DEF AgreeUndeploy, Dialogs, ProjectOps, ActsAtOnce, Executed, NoOp, Shape
  <2>2. /\ acts' = Act(dialog, dialog.asked) /\ dialog' = NoOp
        /\ UNCHANGED <<pending, projects, used, ended>>
    BY <1>4 DEF AgreeUndeploy
  <2> QED BY <1>0, <2>1, <2>2, ActAsked DEF AskedInv, Names
<1>5. CASE AgreeIssue BY <1>0, <1>5, AskedQuiet DEF AgreeIssue
<1> QED BY <1>1, <1>2, <1>3, <1>4, <1>5 DEF Answer

LEMMA AskedStep ==
  ASSUME PendingAssumption, Shape, AskedInv, [Next]_vars PROVE AskedInv'
<1> USE DEF outside, history, screen
<1>0. "none" \notin Kinds BY DEF PendingAssumption
<1>1. CASE Key BY <1>1, KeyAsked
<1>2. CASE Answer BY <1>2, AnswerAsked
<1>3. ASSUME NEW m \in flight, Work(m) PROVE AskedInv'
  <2>1. UNCHANGED <<acts, used, pending, dialog, ended, projects>>
    BY <1>3 DEF Work, CheckLabels, EnsureLabels, LoadIssues, UpdateLabels
  <2> QED BY <1>0, <2>1, AskedQuiet
<1>4. ASSUME NEW m \in flight, Handle(m) PROVE AskedInv' BY <1>4, HandleAsked
<1>5. ASSUME NEW p \in Known, Reload(p) PROVE AskedInv'
  <2>1. used'.reloads # 0 BY <1>5 DEF Reload, Shape, Counters
  <2> QED BY <2>1 DEF AskedInv
<1>6. ASSUME NEW p \in Known, Delete(p) PROVE AskedInv'
  <2>1. UNCHANGED <<acts, pending, dialog, ended, projects>> BY <1>6 DEF Delete
  <2>2. used'.reloads = used.reloads BY <1>6 DEF Delete, Shape, Counters
  <2> QED BY <1>0, <2>1, <2>2, AskedQuiet
<1>7. CASE UNCHANGED vars BY <1>0, <1>7, AskedQuiet DEF vars
<1> QED BY <1>1, <1>2, <1>3, <1>4, <1>5, <1>6, <1>7 DEF Next, Outside

-----------------------------------------------------------------------------
(* An issue is moved to todo by a command that a dialog about it sent. *)

TodoInv ==
    /\ TodoOnlyAgreed
    /\ \A m \in flight : m.op = "confirm" => <<m.project, m.issue>> \in agreed

LEMMA TodoStep == ASSUME Shape, TodoInv, [Next]_vars PROVE TodoInv'
<1> USE DEF TodoInv, TodoOnlyAgreed
<1>1. CASE Key
  <2>1. UNCHANGED <<todo, agreed>> BY <1>1
    DEF Key, Keys, outside, MoveCursor, MoveStatusCursor, Status, Back, Press, PressConfirm, PressDeploy
  <2>2. \A m \in flight' : m.op = "confirm" => m \in flight
    BY <1>1 DEF Key, MoveCursor, MoveStatusCursor, Status, Back, Press, PressConfirm, PressDeploy, Ask
  <2> QED BY <2>1, <2>2
<1>2. CASE Answer
  <2>1. UNCHANGED todo /\ agreed \subseteq agreed' BY <1>2
    DEF Answer, Agree, outside, history, Refuse, AgreeLabels, AgreeDeploy, AgreeUndeploy, AgreeIssue
  <2>2. \A m \in flight' : m.op = "confirm" => m \in flight \/ <<m.project, m.issue>> \in agreed'
    BY <1>2 DEF Answer, Agree, Refuse, AgreeLabels, AgreeDeploy, AgreeUndeploy, AgreeIssue
  <2> QED BY <2>1, <2>2
<1>3. ASSUME NEW m \in flight, Work(m) PROVE TodoInv'
  <2>1. m \in Messages BY DEF Shape
  <2>2. CASE m.op = "confirm"
    <3>1. UNCHANGED agreed /\ todo' \subseteq todo \cup {<<m.project, m.issue>>}
      BY <1>3, <2>2 DEF Work, CheckLabels, EnsureLabels, LoadIssues, UpdateLabels, history
    <3>2. PICK answer \in {"ready", "error"} : flight' = (flight \ {m}) \cup {[m EXCEPT !.at = answer]}
      BY <1>3, <2>2 DEF Work, CheckLabels, EnsureLabels, LoadIssues, UpdateLabels, Step
    <3>3. [m EXCEPT !.at = answer].project = m.project /\ [m EXCEPT !.at = answer].issue = m.issue
      BY <2>1, <2>2 DEF Messages
    <3> QED BY <2>2, <3>1, <3>2, <3>3
  <2>3. CASE m.op # "confirm"
    <3>1. UNCHANGED <<agreed, todo>>
      BY <1>3, <2>3 DEF Work, CheckLabels, EnsureLabels, LoadIssues, UpdateLabels, history, outside
    <3>2. \A n \in flight' : n.op = "confirm" => n \in flight
      BY <1>3, <2>1, <2>3 DEF Work, CheckLabels, EnsureLabels, LoadIssues, UpdateLabels, Step, Messages
    <3> QED BY <3>1, <3>2
  <2> QED BY <2>2, <2>3
<1>4. ASSUME NEW m \in flight, Handle(m) PROVE TodoInv'
  <2>1. UNCHANGED <<agreed, todo>> /\ flight' = flight \ {m}
    BY <1>4 DEF Handle, Answered, Dropped, Checked, Ensured, IssuesLoaded, IssueConfirmed, outside, history
  <2> QED BY <2>1
<1>5. ASSUME NEW p \in Known, Reload(p) \/ Delete(p) PROVE TodoInv' BY <1>5 DEF Reload, Delete
<1>6. CASE UNCHANGED vars BY <1>6 DEF vars, outside, history
<1> QED BY <1>1, <1>2, <1>3, <1>4, <1>5, <1>6 DEF Next, Outside

-----------------------------------------------------------------------------
(* A user who waits has one thing on the way: a command or its answer, or a *)
(* dialog.                                                                  *)

LEMMA HastyStays == ASSUME [Next]_vars, ~hasty' PROVE ~hasty
  BY DEF Next, Outside, Key, Keys, Answer, Work, Handle, MoveCursor, MoveStatusCursor, Status, Back,
         Press, PressConfirm, PressDeploy, vars

WaitInv ==
    /\ \A m, n \in flight : m = n
    /\ dialog # NoOp => flight = {}
    /\ \A m \in flight : IF m.op \in {"check", "ensure"}
                         THEN pending # NoOp /\ m.press = pending.press
                         ELSE pending = NoOp
    /\ dialog.kind = "labels" => pending # NoOp /\ dialog.press = pending.press
    /\ AsksToAct => pending = NoOp

\* A key works only when nothing is on the way.
LEMMA KeyWaits ==
  ASSUME ~hasty', Key PROVE pending = NoOp /\ flight = {} /\ dialog = NoOp /\ UNCHANGED <<acts, cleared>>
  BY DEF Key, Keys, Idle, MoveCursor, MoveStatusCursor, Status, Back, Press, PressConfirm, PressDeploy

LEMMA KeyWait == ASSUME ~hasty', PendingAssumption, Shape, Key PROVE WaitInv'
<1>0. pending = NoOp /\ flight = {} /\ dialog = NoOp BY KeyWaits
<1>1. ASSUME UNCHANGED <<pending, flight, dialog>> PROVE WaitInv'
  BY <1>0, <1>1 DEF WaitInv, AsksToAct, NoOp
<1>2. CASE (\E n \in 1..Len(projects) : MoveCursor(n)) \/ (\E n \in 1..Issues : MoveStatusCursor(n)) \/ Back
  BY <1>1, <1>2 DEF MoveCursor, MoveStatusCursor, Back
<1>3. CASE Status
  BY <1>0, <1>3 DEF Status, WaitInv, AsksToAct, NoOp
<1>4. ASSUME NEW kind \in Kinds \cup {"confirm"}, NEW p, NEW index, Ask(kind, p, index), UNCHANGED dialog
      PROVE WaitInv'
  <2>1. pending' # NoOp BY <1>4 DEF Ask, NoOp, PendingAssumption
  <2>2. \A m \in flight' : /\ m.op = "check" /\ m.press = pending'.press
                           /\ m = [op |-> "check", project |-> p, press |-> used.presses + 1, at |-> "asked"]
    BY <1>0, <1>4 DEF Ask
  <2>3. dialog' = NoOp /\ dialog'.kind \notin {"labels"} /\ ~AsksToAct' BY <1>0, <1>4 DEF AsksToAct, NoOp
  <2> QED BY <2>1, <2>2, <2>3 DEF WaitInv
<1>5. CASE (\E kind \in Kinds : Press(kind)) \/ PressConfirm
  BY <1>4, <1>5 DEF Press, PressConfirm
<1>6. CASE \E kind \in {"redeploy", "undeploy"} : PressDeploy(kind)
  <2>1. UNCHANGED <<pending, flight>> /\ dialog'.kind # "labels" BY <1>6 DEF PressDeploy
  <2> QED BY <1>0, <2>1 DEF WaitInv
<1> QED BY <1>2, <1>3, <1>5, <1>6 DEF Key

LEMMA WaitStep ==
  ASSUME ~hasty', PendingAssumption, Shape, WaitInv, [Next]_vars PROVE WaitInv'
<1>1. CASE Key BY <1>1, KeyWait
<1>2. CASE Answer
  <2>0. dialog # NoOp /\ flight = {}
    BY <1>2 DEF Answer, Refuse, AgreeLabels, AgreeDeploy, AgreeUndeploy, AgreeIssue, NoOp, WaitInv
  <2>1. dialog' = NoOp BY <1>2 DEF Answer, Refuse, AgreeLabels, AgreeDeploy, AgreeUndeploy, AgreeIssue, Agree
  <2>2. ~AsksToAct' /\ dialog'.kind # "labels" BY <2>1 DEF AsksToAct, NoOp
  <2>3. CASE flight' = {} BY <2>1, <2>2, <2>3 DEF WaitInv
  <2>4. CASE AgreeLabels /\ flight' # {}
    <3>1. /\ pending # NoOp /\ dialog.press = pending.press /\ UNCHANGED pending
          /\ flight' = {[op |-> "ensure", project |-> dialog.asked, press |-> dialog.press, at |-> "asked"]}
      BY <2>0, <2>4 DEF AgreeLabels, WaitInv, Agree
    <3> QED BY <2>1, <2>2, <3>1 DEF WaitInv
  <2>5. CASE AgreeIssue /\ flight' # {}
    <3>1. /\ pending = NoOp /\ UNCHANGED pending
          /\ flight' = {[op |-> "confirm", project |-> dialog.project, issue |-> dialog.issue, at |-> "asked"]}
      BY <2>0, <2>5 DEF AgreeIssue, WaitInv, Agree, AsksToAct
    <3> QED BY <2>1, <2>2, <3>1 DEF WaitInv
  <2> QED BY <1>2, <2>0, <2>3, <2>4, <2>5 DEF Answer, Refuse, AgreeDeploy, AgreeUndeploy
<1>3. ASSUME NEW m \in flight, Work(m) PROVE WaitInv'
  <2>1. m \in Messages /\ \A n \in flight : n = m BY DEF Shape, WaitInv
  <2>2. UNCHANGED <<pending, dialog>>
    BY <1>3 DEF Work, CheckLabels, EnsureLabels, LoadIssues, UpdateLabels
  <2>3. PICK n : n.op = m.op /\ (m.op \in {"check", "ensure"} => n.press = m.press) /\ Step(m, n)
    <3>1. CASE CheckLabels(m)
      <4>1. PICK answer \in {"error", "ready", "missing"} : Step(m, [m EXCEPT !.at = answer])
        BY <3>1 DEF CheckLabels
      <4> QED BY <2>1, <3>1, <4>1 DEF CheckLabels, Messages
    <3>2. CASE EnsureLabels(m)
      <4>1. PICK answer \in {"error", "ready"} : Step(m, [m EXCEPT !.at = answer])
        BY <3>2 DEF EnsureLabels
      <4> QED BY <2>1, <3>2, <4>1 DEF EnsureLabels, Messages
    <3>3. CASE LoadIssues(m)
      <4> DEFINE found == [i \in 1..Issues |-> IF <<m.project, i>> \in todo THEN "todo" ELSE "pending"]
      <4>1. PICK answer \in {"ready", "error"} :
              Step(m, [op |-> "load", project |-> m.project, at |-> answer, list |-> found])
        BY <3>3 DEF LoadIssues
      <4> QED BY <3>3, <4>1 DEF LoadIssues
    <3>4. CASE UpdateLabels(m)
      <4>1. PICK answer \in {"ready", "error"} : Step(m, [m EXCEPT !.at = answer])
        BY <3>4 DEF UpdateLabels
      <4> QED BY <2>1, <3>4, <4>1 DEF UpdateLabels, Messages
    <3> QED BY <1>3, <3>1, <3>2, <3>3, <3>4 DEF Work
  <2>4. flight' = {n} BY <2>1, <2>3 DEF Step
  <2> QED BY <2>2, <2>3, <2>4 DEF WaitInv, AsksToAct
<1>4. ASSUME NEW m \in flight, Handle(m) PROVE WaitInv'
  <2>1. flight' = {} BY <1>4
    DEF Handle, Answered, Dropped, Checked, Ensured, IssuesLoaded, IssueConfirmed, WaitInv
  <2>2. CASE UNCHANGED dialog /\ pending' \in {pending, NoOp}
    <3>1. dialog' = NoOp BY <2>2 DEF WaitInv
    <3> QED BY <2>1, <3>1 DEF WaitInv, AsksToAct, NoOp
  <2>3. ASSUME NEW kind \in AllKinds, ExecutePendingOp(kind), dialog = NoOp PROVE WaitInv'
    <3>1. pending' = NoOp BY <2>3 DEF ExecutePendingOp
    <3>2. dialog'.kind # "labels"
      BY <2>3 DEF ExecutePendingOp, ExecuteAgent, ExecuteConfirm, IssueDialog, NoOp, Shape, PendingAssumption
    <3> QED BY <2>1, <3>1, <3>2 DEF WaitInv
  <2>4. ASSUME m.op = "check", dialog'.kind = "labels", dialog'.press = m.press, UNCHANGED pending
        PROVE  WaitInv'
    BY <2>1, <2>4 DEF WaitInv, AsksToAct
  <2>5. CASE Checked(m)
    <3>1. CASE m.at = "error" BY <2>2, <2>5, <3>1 DEF Checked
    <3>2. CASE m.at = "ready" BY <2>3, <2>5, <3>2 DEF Checked
    <3>3. CASE m.at \notin {"error", "ready"}
      <4>1. /\ dialog' = [kind |-> "labels", asked |-> m.project, index |-> 0, press |-> m.press]
            /\ UNCHANGED pending
        BY <2>5, <3>3 DEF Checked
      <4> QED BY <2>4, <2>5, <4>1 DEF Checked, Answered
    <3> QED BY <3>1, <3>2, <3>3
  <2>6. CASE Ensured(m)
    <3>1. CASE m.at = "error" BY <2>2, <2>6, <3>1 DEF Ensured
    <3>2. CASE m.at # "error" BY <2>3, <2>6, <3>2 DEF Ensured
    <3> QED BY <3>1, <3>2
  <2>7. CASE Dropped(m) \/ IssuesLoaded(m) \/ IssueConfirmed(m)
    BY <2>2, <2>7 DEF Dropped, IssuesLoaded, IssueConfirmed
  <2> QED BY <1>4, <2>5, <2>6, <2>7 DEF Handle
<1>5. ASSUME NEW p \in Known, Reload(p) \/ Delete(p) PROVE WaitInv'
  BY <1>5 DEF Reload, Delete, WaitInv, AsksToAct
<1>6. CASE UNCHANGED vars BY <1>6 DEF vars, WaitInv, AsksToAct
<1> QED BY <1>1, <1>2, <1>3, <1>4, <1>5, <1>6 DEF Next, Outside

-----------------------------------------------------------------------------
(* What a waiting user starts was cleared, and is about what the screen shows. *)

AllCleared == \A k \in DOMAIN acts : acts[k].op.kind \in Kinds => acts[k].op.press \in cleared
DialogAsAsked == dialog.kind = "issue" => dialog.project = dialog.asked /\ dialog.issue = dialog.index
ListIsTrue == \A i \in DOMAIN shown : shown[i] = "todo" => <<statusProject, i>> \in todo

ClearedInv == AllCleared /\ (dialog.kind \in Kinds => dialog.press \in cleared)

LEMMA ActCleared ==
  ASSUME Shape, AllCleared, cleared \subseteq cleared', NEW op \in ProjectOps(Executed), NEW p \in Known,
         op.kind \in Kinds => op.press \in cleared', acts' = Act(op, p)
  PROVE  AllCleared'
<1> DEFINE new == [op |-> op, project |-> p]
<1>1. /\ acts \in Seq([op : ProjectOps(Executed), project : Known]) /\ acts' = Append(acts, new)
  BY DEF Shape, Act
<1>2. /\ DOMAIN acts' = DOMAIN acts \cup {Len(acts) + 1}
      /\ \A k \in DOMAIN acts : k # Len(acts) + 1 /\ acts'[k] = acts[k]
      /\ acts'[Len(acts) + 1] = new
  BY <1>1
<1> QED BY <1>2 DEF AllCleared

LEMMA OnIndexCleared ==
  ASSUME Shape, AllCleared, cleared \subseteq cleared', NEW op \in ProjectOps(Executed),
         op.kind \in Kinds => op.press \in cleared', OnIndex(op)
  PROVE  AllCleared'
<1>1. CASE UNCHANGED acts BY <1>1 DEF AllCleared
<1>2. CASE ~(op.index > Len(projects))
  <2>1. op.index \in 1..Len(projects) BY <1>2 DEF ProjectOps, Shape
  <2>2. projects[op.index] \in Known BY <2>1 DEF Shape
  <2>3. acts' = Act(op, projects[op.index]) BY <1>2 DEF OnIndex
  <2> QED BY <2>2, <2>3, ActCleared
<1> QED BY <1>1, <1>2 DEF OnIndex

LEMMA ExecuteCleared ==
  ASSUME PendingAssumption, Shape, ClearedInv, dialog = NoOp, cleared \subseteq cleared',
         pending # NoOp => pending.press \in cleared',
         NEW kind \in AllKinds, ExecutePendingOp(kind)
  PROVE  ClearedInv'
<1>0. "none" \notin Kinds /\ "issue" \notin Kinds /\ Kinds \subseteq Executed
  BY DEF PendingAssumption, Executed, ActsAtOnce
<1>1. ASSUME UNCHANGED acts,
             dialog' = dialog \/ dialog'.kind \notin Kinds \/ (dialog' = pending /\ pending # NoOp)
      PROVE  ClearedInv'
  BY <1>0, <1>1 DEF ClearedInv, AllCleared, NoOp
<1>2. ASSUME pending \in ProjectOps(Executed), OnIndex(pending), UNCHANGED dialog PROVE ClearedInv'
  <2>1. pending # NoOp BY <1>2 DEF NoOp, ProjectOps, Executed, ActsAtOnce
  <2> QED BY <1>0, <1>2, <2>1, OnIndexCleared DEF ClearedInv, NoOp
<1>3. CASE kind = "none" BY <1>1, <1>3 DEF ExecutePendingOp
<1>4. CASE kind \in {"clarify", "review"}
  <2>1. pending \in ProjectOps({"clarify", "review"})
    BY <1>4 DEF ExecutePendingOp, ProjectOps, IssueOps, NoOp, Shape
  <2>2. pending \in ProjectOps(Executed) /\ pending # NoOp
    BY <2>1 DEF ProjectOps, Executed, ActsAtOnce, NoOp
  <2>3. \/ dialog' = pending /\ UNCHANGED acts
        \/ OnIndex(pending) /\ UNCHANGED dialog
    BY <1>4 DEF ExecutePendingOp, ExecuteAgent
  <2> QED BY <1>1, <1>2, <2>2, <2>3
<1>5. CASE kind = "loop"
  <2>1. pending \in ProjectOps(Executed)
    BY <1>5 DEF ExecutePendingOp, ProjectOps, IssueOps, NoOp, Executed, Shape
  <2> QED BY <1>2, <1>5, <2>1 DEF ExecutePendingOp
<1>6. CASE kind = "confirm"
  <2>1. UNCHANGED acts /\ (dialog' = dialog \/ dialog'.kind \notin Kinds)
    BY <1>0, <1>6 DEF ExecutePendingOp, ExecuteConfirm, IssueDialog
  <2> QED BY <1>1, <2>1
<1> QED BY <1>3, <1>4, <1>5, <1>6 DEF AllKinds, PendingAssumption

LEMMA ClearedStep ==
  ASSUME ~hasty', PendingAssumption, Shape, WaitInv, ClearedInv, [Next]_vars PROVE ClearedInv'
<1> USE DEF outside, history, screen
<1>0. /\ "none" \notin Kinds /\ "redeploy" \notin Kinds /\ "undeploy" \notin Kinds /\ "labels" \notin Kinds
      /\ NoOp.kind = "none"
  BY DEF PendingAssumption, NoOp
<1>q. ASSUME UNCHANGED <<acts, cleared>>, dialog' = dialog \/ dialog'.kind \notin Kinds PROVE ClearedInv'
  BY <1>q DEF ClearedInv, AllCleared
<1>1. CASE Key
  <2>1. UNCHANGED <<acts, cleared>> BY <1>1, KeyWaits
  <2>2. UNCHANGED dialog \/ dialog'.kind \notin Kinds
    BY <1>0, <1>1 DEF Key, MoveCursor, MoveStatusCursor, Status, Back, Press, PressConfirm, PressDeploy
  <2> QED BY <1>q, <2>1, <2>2
<1>2. CASE Answer
  <2>1. dialog' = NoOp /\ UNCHANGED cleared
    BY <1>2 DEF Answer, Refuse, AgreeLabels, AgreeDeploy, AgreeUndeploy, AgreeIssue, Agree
  <2>2. CASE Refuse \/ AgreeLabels \/ AgreeIssue
    BY <1>0, <1>q, <2>1, <2>2 DEF Refuse, AgreeLabels, AgreeIssue
  <2>3. CASE AgreeDeploy \/ AgreeUndeploy
    <3>1. dialog \in ProjectOps(Executed) /\ dialog.asked \in Known
      BY <2>3 DEF AgreeDeploy, AgreeUndeploy, Dialogs, ProjectOps, ActsAtOnce, Executed, NoOp, Shape
    <3>2. OnIndex(dialog) \/ acts' = Act(dialog, dialog.asked) BY <2>3 DEF AgreeDeploy, AgreeUndeploy
    <3>3. AllCleared' BY <2>1, <3>1, <3>2, OnIndexCleared, ActCleared DEF ClearedInv
    <3> QED BY <1>0, <2>1, <3>3 DEF ClearedInv
  <2> QED BY <1>2, <2>2, <2>3 DEF Answer
<1>3. ASSUME NEW m \in flight, Work(m) PROVE ClearedInv'
  BY <1>q, <1>3 DEF Work, CheckLabels, EnsureLabels, LoadIssues, UpdateLabels
<1>4. ASSUME NEW m \in flight, Handle(m) PROVE ClearedInv'
  <2>1. dialog = NoOp BY DEF WaitInv
  <2>2. CASE Checked(m)
    <3>1. CASE m.at = "error" BY <1>q, <2>2, <3>1 DEF Checked
    <3>2. CASE m.at = "ready"
      <4>1. m.press = pending.press /\ cleared' = cleared \cup {m.press}
        BY <2>2, <3>2 DEF Checked, Answered, WaitInv
      <4>2. PICK kind \in AllKinds : ExecutePendingOp(kind) BY <2>2, <3>2 DEF Checked
      <4> QED BY <2>1, <4>1, <4>2, ExecuteCleared
    <3>3. CASE m.at \notin {"error", "ready"}
      <4>1. dialog'.kind = "labels" /\ UNCHANGED <<acts, cleared>> BY <2>2, <3>3 DEF Checked
      <4> QED BY <1>0, <1>q, <4>1
    <3> QED BY <3>1, <3>2, <3>3
  <2>3. CASE Ensured(m)
    <3>1. CASE m.at = "error" BY <1>q, <2>3, <3>1 DEF Ensured
    <3>2. CASE m.at # "error"
      <4>1. m.press = pending.press /\ cleared' = cleared \cup {m.press}
        BY <2>3, <3>2 DEF Ensured, Answered, WaitInv
      <4>2. PICK kind \in AllKinds : ExecutePendingOp(kind) BY <2>3, <3>2 DEF Ensured
      <4> QED BY <2>1, <4>1, <4>2, ExecuteCleared
    <3> QED BY <3>1, <3>2
  <2>4. CASE Dropped(m) \/ IssuesLoaded(m) \/ IssueConfirmed(m)
    BY <1>q, <2>4 DEF Dropped, IssuesLoaded, IssueConfirmed
  <2> QED BY <1>4, <2>2, <2>3, <2>4 DEF Handle
<1>5. ASSUME NEW p \in Known, Reload(p) \/ Delete(p) PROVE ClearedInv'
  BY <1>q, <1>5 DEF Reload, Delete
<1>6. CASE UNCHANGED vars BY <1>q, <1>6 DEF vars
<1> QED BY <1>1, <1>2, <1>3, <1>4, <1>5, <1>6 DEF Next, Outside

ScreenInv ==
    /\ pending.kind = "confirm" => pending.asked = statusProject /\ pending.index = statusCursor
    /\ DialogAsAsked /\ (dialog.kind = "issue" => dialog.project = statusProject)
    /\ ListIsTrue
    /\ \A m \in flight :
          /\ m.op = "confirm" => /\ m.project = statusProject
                                 /\ m.at = "ready" => <<m.project, m.issue>> \in todo
          /\ m.op = "load" /\ m.at = "ready" =>
                \A i \in 1..Issues : m.list[i] = "todo" => <<m.project, i>> \in todo

LEMMA ScreenStep ==
  ASSUME ~hasty', PendingAssumption, Shape, WaitInv, ScreenInv, [Next]_vars PROVE ScreenInv'
<1> USE DEF outside, history, screen
<1>0. NoOp.kind = "none" /\ "confirm" \notin Kinds BY DEF NoOp, PendingAssumption
<1>q. ASSUME UNCHANGED <<statusProject, statusCursor, shown>>, todo \subseteq todo',
             pending' \in {pending, NoOp}, dialog' = dialog \/ dialog'.kind # "issue",
             flight' \subseteq flight
      PROVE ScreenInv'
  BY <1>0, <1>q DEF ScreenInv, DialogAsAsked, ListIsTrue
<1>1. CASE Key
  <2>1. pending = NoOp /\ flight = {} /\ dialog = NoOp BY <1>1, KeyWaits
  <2>2. UNCHANGED todo
    BY <1>1 DEF Key, Keys, MoveCursor, MoveStatusCursor, Status, Back, Press, PressConfirm, PressDeploy
  <2>3. dialog'.kind # "issue"
    BY <1>0, <1>1, <2>1
    DEF Key, Keys, MoveCursor, MoveStatusCursor, Status, Back, Press, PressConfirm, PressDeploy
  <2>4. \A m \in flight' : m.op # "confirm" /\ ~(m.op = "load" /\ m.at = "ready")
    BY <1>1, <2>1
    DEF Key, Keys, MoveCursor, MoveStatusCursor, Status, Back, Press, PressConfirm, PressDeploy, Ask
  <2>5. UNCHANGED <<statusProject, shown>> \/ shown' = <<>>
    BY <1>1 DEF Key, Keys, MoveCursor, MoveStatusCursor, Status, Back, Press, PressConfirm, PressDeploy
  <2>6. ListIsTrue' BY <2>2, <2>5 DEF ScreenInv, ListIsTrue
  <2>7. pending'.kind = "confirm" => pending'.asked = statusProject' /\ pending'.index = statusCursor'
    <3>1. CASE PressConfirm BY <3>1 DEF PressConfirm, Ask
    <3>2. CASE \E kind \in Kinds : Press(kind) BY <1>0, <3>2 DEF Press, Ask
    <3>3. CASE UNCHANGED pending BY <1>0, <2>1, <3>3
    <3> QED BY <1>1, <3>1, <3>2, <3>3
      DEF Key, Keys, MoveCursor, MoveStatusCursor, Status, Back, PressDeploy
  <2> QED BY <2>3, <2>4, <2>6, <2>7 DEF ScreenInv, DialogAsAsked
<1>2. CASE Answer
  <2>1. dialog' = NoOp /\ UNCHANGED <<statusProject, statusCursor, shown, todo>> /\ pending' \in {pending, NoOp}
    BY <1>2 DEF Answer, Refuse, AgreeLabels, AgreeDeploy, AgreeUndeploy, AgreeIssue, Agree
  <2>2. \A m \in flight' : m \in flight \/ m.op = "ensure"
            \/ (m.op = "confirm" /\ m.at = "asked" /\ m.project = statusProject)
    <3>1. CASE AgreeLabels BY <3>1 DEF AgreeLabels
    <3>2. CASE AgreeIssue BY <3>2 DEF AgreeIssue, ScreenInv
    <3> QED BY <1>2, <3>1, <3>2 DEF Answer, Refuse, AgreeDeploy, AgreeUndeploy
  <2> QED BY <1>0, <2>1, <2>2 DEF ScreenInv, DialogAsAsked, ListIsTrue
<1>3. ASSUME NEW m \in flight, Work(m) PROVE ScreenInv'
  <2>1. m \in Messages BY DEF Shape
  <2>2. UNCHANGED <<statusProject, statusCursor, shown, pending, dialog>>
    BY <1>3 DEF Work, CheckLabels, EnsureLabels, LoadIssues, UpdateLabels
  <2>3. ASSUME todo \subseteq todo', NEW n, flight' = (flight \ {m}) \cup {n},
               n.op = "confirm" => /\ n.project = statusProject
                                   /\ n.at = "ready" => <<n.project, n.issue>> \in todo',
               n.op = "load" /\ n.at = "ready" =>
                  \A i \in 1..Issues : n.list[i] = "todo" => <<n.project, i>> \in todo'
        PROVE  ScreenInv'
    BY <2>2, <2>3 DEF ScreenInv, DialogAsAsked, ListIsTrue
  <2>4. CASE CheckLabels(m)
    <3>1. PICK answer \in {"error", "ready", "missing"} : Step(m, [m EXCEPT !.at = answer])
      BY <2>4 DEF CheckLabels
    <3>2. [m EXCEPT !.at = answer].op = "check" BY <2>1, <2>4 DEF CheckLabels, Messages
    <3> QED BY <2>3, <2>4, <3>1, <3>2 DEF CheckLabels, Step
  <2>5. CASE EnsureLabels(m)
    <3>1. PICK answer \in {"error", "ready"} : Step(m, [m EXCEPT !.at = answer])
      BY <2>5 DEF EnsureLabels
    <3>2. [m EXCEPT !.at = answer].op = "ensure" BY <2>1, <2>5 DEF EnsureLabels, Messages
    <3> QED BY <2>3, <2>5, <3>1, <3>2 DEF EnsureLabels, Step
  <2>6. CASE LoadIssues(m)
    <3> DEFINE found == [i \in 1..Issues |-> IF <<m.project, i>> \in todo THEN "todo" ELSE "pending"]
               loaded(answer) == [op |-> "load", project |-> m.project, at |-> answer, list |-> found]
    <3>1. PICK answer \in {"ready", "error"} : Step(m, loaded(answer)) BY <2>6 DEF LoadIssues
    <3>2. \A i \in 1..Issues : found[i] = "todo" => <<m.project, i>> \in todo OBVIOUS
    <3>3. /\ loaded(answer).op = "load" /\ loaded(answer).project = m.project
          /\ loaded(answer).list = found
      OBVIOUS
    <3> HIDE DEF found, loaded
    <3>4. UNCHANGED todo BY <2>6 DEF LoadIssues
    <3>5. flight' = (flight \ {m}) \cup {loaded(answer)} BY <3>1 DEF Step
    <3> QED BY <2>3, <3>2, <3>3, <3>4, <3>5
  <2>7. CASE UpdateLabels(m)
    <3>1. m.project = statusProject BY <2>7 DEF UpdateLabels, ScreenInv
    <3>2. CASE todo' = todo \cup {<<m.project, m.issue>>} /\ Step(m, [m EXCEPT !.at = "ready"])
      <4> DEFINE n == [m EXCEPT !.at = "ready"]
      <4>1. n.op = "confirm" /\ n.project = m.project /\ n.issue = m.issue
        BY <2>1, <2>7 DEF UpdateLabels, Messages
      <4>2. flight' = (flight \ {m}) \cup {n} /\ <<m.project, m.issue>> \in todo' /\ todo \subseteq todo'
        BY <3>2 DEF Step
      <4> HIDE DEF n
      <4> QED BY <2>3, <3>1, <4>1, <4>2
    <3>3. CASE Step(m, [m EXCEPT !.at = "error"]) /\ UNCHANGED todo
      <4> DEFINE n == [m EXCEPT !.at = "error"]
      <4>1. n.op = "confirm" /\ n.project = m.project /\ n.at = "error"
        BY <2>1, <2>7 DEF UpdateLabels, Messages
      <4>2. flight' = (flight \ {m}) \cup {n} /\ UNCHANGED todo BY <3>3 DEF Step
      <4> HIDE DEF n
      <4> QED BY <2>3, <3>1, <4>1, <4>2
    <3> QED BY <2>7, <3>2, <3>3 DEF UpdateLabels
  <2> QED BY <1>3, <2>4, <2>5, <2>6, <2>7 DEF Work
<1>4. ASSUME NEW m \in flight, Handle(m) PROVE ScreenInv'
  <2>1. m \in Messages /\ dialog = NoOp BY DEF Shape, WaitInv
  <2>2. flight' = flight \ {m} /\ UNCHANGED <<statusProject, statusCursor, todo>>
    BY <1>4 DEF Handle, Answered, Dropped, Checked, Ensured, IssuesLoaded, IssueConfirmed, ExecutePendingOp
  <2>3. ASSUME NEW kind \in AllKinds, ExecutePendingOp(kind) PROVE ScreenInv'
    <3>1. pending' = NoOp /\ UNCHANGED shown BY <2>3 DEF ExecutePendingOp
    <3>2. dialog'.kind = "issue" =>
            dialog'.project = dialog'.asked /\ dialog'.issue = dialog'.index /\ dialog'.project = statusProject
      BY <1>0, <2>1, <2>3
      DEF ExecutePendingOp, ExecuteAgent, ExecuteConfirm, IssueDialog, ScreenInv
    <3> QED BY <1>0, <2>2, <3>1, <3>2 DEF ScreenInv, DialogAsAsked, ListIsTrue
  <2>4. CASE Checked(m)
    <3>1. CASE m.at = "error" BY <1>q, <2>2, <2>4, <3>1 DEF Checked
    <3>2. CASE m.at = "ready" BY <2>3, <2>4, <3>2 DEF Checked
    <3>3. CASE m.at \notin {"error", "ready"}
      <4>1. dialog'.kind = "labels" /\ UNCHANGED <<pending, shown>> BY <2>4, <3>3 DEF Checked
      <4> QED BY <1>q, <2>2, <4>1
    <3> QED BY <3>1, <3>2, <3>3
  <2>5. CASE Ensured(m)
    <3>1. CASE m.at = "error" BY <1>q, <2>2, <2>5, <3>1 DEF Ensured
    <3>2. CASE m.at # "error" BY <2>3, <2>5, <3>2 DEF Ensured
    <3> QED BY <3>1, <3>2
  <2>6. CASE Dropped(m) BY <1>q, <2>2, <2>6 DEF Dropped
  <2>7. ASSUME ListIsTrue', UNCHANGED <<pending, dialog>> PROVE ScreenInv'
    BY <2>2, <2>7 DEF ScreenInv, DialogAsAsked
  <2>8. CASE IssuesLoaded(m)
    <3>1. CASE m.project = statusProject /\ m.at = "ready"
      <4>1. shown' = m.list BY <2>8, <3>1 DEF IssuesLoaded
      <4>2. m.list \in [1..Issues -> ShownStatus] BY <2>1, <2>8, <3>1 DEF IssuesLoaded, Answered, Messages
      <4>3. \A i \in 1..Issues : m.list[i] = "todo" => <<m.project, i>> \in todo
        BY <2>8, <3>1 DEF IssuesLoaded, Answered, ScreenInv
      <4>4. ListIsTrue' BY <2>2, <3>1, <4>1, <4>2, <4>3 DEF ListIsTrue
      <4> QED BY <2>7, <2>8, <4>4 DEF IssuesLoaded
    <3>2. CASE ~(m.project = statusProject /\ m.at = "ready")
      BY <1>q, <2>2, <2>8, <3>2 DEF IssuesLoaded
    <3> QED BY <3>1, <3>2
  <2>9. CASE IssueConfirmed(m)
    <3>1. m.op = "confirm" /\ m.project = statusProject BY <2>9 DEF IssueConfirmed, Answered, ScreenInv
    <3>2. CASE m.at = "ready" /\ m.issue <= Len(shown)
      <4>1. <<statusProject, m.issue>> \in todo BY <3>1, <3>2 DEF ScreenInv
      <4>2. shown' = [shown EXCEPT ![m.issue] = "todo"] BY <2>9, <3>2 DEF IssueConfirmed
      <4>3. DOMAIN shown' = DOMAIN shown /\ \A i \in DOMAIN shown : i # m.issue => shown'[i] = shown[i]
        BY <4>2 DEF Shape
      <4>4. ListIsTrue' BY <2>2, <4>1, <4>3 DEF ListIsTrue, ScreenInv
      <4> QED BY <2>7, <2>9, <4>4 DEF IssueConfirmed
    <3>3. CASE ~(m.at = "ready" /\ m.issue <= Len(shown))
      BY <1>q, <2>2, <2>9, <3>3 DEF IssueConfirmed
    <3> QED BY <3>2, <3>3
  <2> QED BY <1>4, <2>4, <2>5, <2>6, <2>8, <2>9 DEF Handle
<1>5. ASSUME NEW p \in Known, Reload(p) \/ Delete(p) PROVE ScreenInv'
  <2>1. UNCHANGED <<statusProject, statusCursor, shown, todo, pending, dialog, flight>>
    BY <1>5 DEF Reload, Delete
  <2> QED BY <1>q, <2>1
<1>6. CASE UNCHANGED vars BY <1>q, <1>6 DEF vars
<1> QED BY <1>1, <1>2, <1>3, <1>4, <1>5, <1>6 DEF Next, Outside

-----------------------------------------------------------------------------
(* Theorems *)

\* The kinds of the variables; a dialog about an operation and a pending operation are never
\* of the same press (pendingOp, confirmForm).
THEOREM PendingTyped == ASSUME PendingAssumption PROVE Spec => []PendingTypeOK
<1>1. Init => Shape /\ OnceInv BY ShapeInit, OnceInit
<1>2. Shape /\ OnceInv /\ [Next]_vars => (Shape /\ OnceInv)' BY ShapeStep, OnceStep
<1>3. Shape /\ OnceInv => PendingTypeOK
  <2> SUFFICES ASSUME Shape, OnceInv PROVE PendingTypeOK OBVIOUS
  <2>1. pending.kind \in AllKinds /\ pending.index \in 0..(Len(Order) + Issues)
    BY DEF Shape, AllKinds, NoOp, ProjectOps, IssueOps, PendingAssumption
  <2>2. dialog # NoOp => dialog.kind # "none"
    BY DEF Shape, Dialogs, ProjectOps, ActsAtOnce
  <2>3. dialog # NoOp /\ pending # NoOp /\ dialog.press = pending.press => dialog.kind = "labels"
    BY <2>2 DEF OnceInv, AsksToAct
  <2> QED BY <2>1, <2>3 DEF PendingTypeOK, Shape
<1> QED BY <1>1, <1>2, <1>3, PTL DEF Spec

\* One press is one operation, whatever is pressed, dropped, refused, reloaded or deleted
\* meanwhile (startWithLabelCheck, executePendingOp).
THEOREM PressActsOnce == ASSUME PendingAssumption PROVE Spec => []OncePerPress
<1>1. Init => Shape /\ OnceInv BY ShapeInit, OnceInit
<1>2. Shape /\ OnceInv /\ [Next]_vars => (Shape /\ OnceInv)' BY ShapeStep, OnceStep
<1>3. OnceInv => OncePerPress BY DEF OnceInv
<1> QED BY <1>1, <1>2, <1>3, PTL DEF Spec

\* As long as no config was taken over, an operation is about the project it was asked for
\* and no index is out of range, although the code keeps an index and not the project, and
\* moves the cursor meanwhile (PendingOp, executePendingOp).
THEOREM PressActsOnAsked == ASSUME PendingAssumption PROVE Spec => []ActsOnAsked
<1>1. Init => Shape /\ AskedInv BY ShapeInit, AskedInit
<1>2. Shape /\ AskedInv /\ [Next]_vars => (Shape /\ AskedInv)' BY ShapeStep, AskedStep
<1>3. AskedInv => ActsOnAsked BY DEF AskedInv, AllAsked, ActsOnAsked
<1> QED BY <1>1, <1>2, <1>3, PTL DEF Spec

\* An issue is moved to todo only after a dialog that named it, whatever the screen showed
\* when the command ran (showIssueConfirm, confirmIssueCmd).
THEOREM IssuesAreAgreed == ASSUME PendingAssumption PROVE Spec => []TodoOnlyAgreed
<1>1. Init => Shape /\ TodoInv BY ShapeInit DEF Init, TodoInv, TodoOnlyAgreed
<1>2. Shape /\ TodoInv /\ [Next]_vars => (Shape /\ TodoInv)' BY ShapeStep, TodoStep
<1>3. TodoInv => TodoOnlyAgreed BY DEF TodoInv
<1> QED BY <1>1, <1>2, <1>3, PTL DEF Spec

\* If the user waits for the label check, what is executed behind it had its own labels
\* complete, the dialog of [y] names the issue it was pressed on, and the status list says
\* todo only of an issue that is (handleLabelCheckResult, showIssueConfirm,
\* handleIssueConfirmed).
THEOREM WaitingUserIsServed ==
    ASSUME PendingAssumption PROVE Spec => [](LabelsReady /\ IssueAsAsked /\ ShownIsTrue)
<1> DEFINE Served == WaitInv /\ ClearedInv /\ ScreenInv
           Inv == Shape /\ (~hasty => Served)
<1>1. Init => Inv
  <2> SUFFICES ASSUME Init PROVE Inv OBVIOUS
  <2>1. Shape BY ShapeInit
  <2>2. WaitInv BY DEF Init, WaitInv, AsksToAct, NoOp
  <2>3. ClearedInv BY DEF Init, ClearedInv, AllCleared, NoOp, PendingAssumption
  <2>4. ScreenInv BY DEF Init, ScreenInv, DialogAsAsked, ListIsTrue, NoOp
  <2> QED BY <2>1, <2>2, <2>3, <2>4
<1>2. Inv /\ [Next]_vars => Inv'
  <2> SUFFICES ASSUME Shape, ~hasty => Served, [Next]_vars, ~hasty' PROVE Served'
    BY ShapeStep
  <2>1. Served BY HastyStays
  <2> QED BY <2>1, WaitStep, ClearedStep, ScreenStep
<1>3. Inv => LabelsReady /\ IssueAsAsked /\ ShownIsTrue
  BY DEF ClearedInv, ScreenInv, LabelsReady, IssueAsAsked, ShownIsTrue, AllCleared, DialogAsAsked, ListIsTrue
<1> QED BY <1>1, <1>2, <1>3, PTL DEF Spec

\* The parts together, for any number of projects, issues, presses, visits and changes of
\* the tracker (executePendingOp, handleLabelCheck, handleIssueConfirmed).
THEOREM PressesActAsAsked == ASSUME PendingAssumption PROVE Spec => []ActsAsAsked
BY PendingTyped, PressActsOnce, PressActsOnAsked, IssuesAreAgreed, WaitingUserIsServed, PTL
   DEF ActsAsAsked

=============================================================================
