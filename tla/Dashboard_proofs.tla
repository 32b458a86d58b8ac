---------------------------- MODULE Dashboard_proofs ----------------------------
(***************************************************************************)
(* Proofs about the models of the dashboard: StateRefresh, for any number  *)
(* of sessions and changes, GitView, for any projects and operations, and  *)
(* SessionImport, for any bundles, destinations and commands under way.    *)
(***************************************************************************)
EXTENDS StateRefresh, GitView, SessionImport, FiniteSetTheorems, TLAPS

-----------------------------------------------------------------------------
(* StateRefresh *)

\* The variables keep their types: a channel of NotifyAll never overflows.
THEOREM TypeCorrect == Spec => []TypeOK
<1>1. Init => TypeOK
  BY DEF Init, TypeOK
<1>2. TypeOK /\ [Next]_vars => TypeOK'
  <2> SUFFICES ASSUME TypeOK, [Next]_vars PROVE TypeOK'
    OBVIOUS
  <2> USE DEF TypeOK
  <2>1. ASSUME NEW s \in Sessions, Connect(s) PROVE TypeOK'
    BY <2>1 DEF Connect
  <2>2. ASSUME NEW s \in Sessions, Quit(s) PROVE TypeOK'
    BY <2>2 DEF Quit
  <2>3. ASSUME NEW s \in Sessions, Drop(s) PROVE TypeOK'
    BY <2>3 DEF Drop
  <2>4. ASSUME NEW s \in Sessions, Change(s) PROVE TypeOK'
    BY <2>4 DEF Change, NotifyAll
  <2>5. ASSUME NEW s \in Sessions, Refresh(s) PROVE TypeOK'
    BY <2>5 DEF Refresh
  <2>6. ASSUME NEW s \in Sessions, Tick(s) PROVE TypeOK'
    BY <2>6 DEF Tick, Rearmed
  <2>7. ASSUME NEW s \in Sessions, SwitchGate(s) PROVE TypeOK'
    BY <2>7 DEF SwitchGate
  <2>8. ASSUME NEW s \in Sessions, Render(s) PROVE TypeOK'
    BY <2>8 DEF Render
  <2>9. ASSUME NEW s \in Sessions, WaiterStarts(s) PROVE TypeOK'
    BY <2>9 DEF WaiterStarts
  <2>10. ASSUME NEW s \in Sessions, WaiterReturns(s) PROVE TypeOK'
    BY <2>10 DEF WaiterReturns
  <2>11. CASE BeginShutdown
    BY <2>11 DEF BeginShutdown
  <2>12. CASE Exit
    BY <2>12 DEF Exit
  <2>13. CASE UNCHANGED vars
    BY <2>13 DEF vars
  <2> QED
    BY <2>1, <2>2, <2>3, <2>4, <2>5, <2>6, <2>7, <2>8, <2>9, <2>10, <2>11, <2>12, <2>13
    DEF Next, Update
<1> QED
  BY <1>1, <1>2, PTL DEF Spec

-----------------------------------------------------------------------------
(* Where no message is taken by an overlay, the chain of waiters never ends. *)

Listening ==
    \A s \in Sessions :
        /\ gate[s] = "open"
        /\ phase[s] = "running" => s \in subscribers /\ waiter[s] # "none"

Inv == TypeOK /\ Listening /\ NoLostWakeup

\* One case per action; what each session shows and waits for is all it changes.
LEMMA InvStep ==
  ASSUME ~Dialogs, Inv, [Next]_vars, TypeOK'
  PROVE  (Listening /\ NoLostWakeup)'
<1> USE DEF Inv, TypeOK, Listening, NoLostWakeup, Signalled
<1>1. ASSUME NEW s \in Sessions, Connect(s) PROVE (Listening /\ NoLostWakeup)'
  BY <1>1 DEF Connect
<1>2. ASSUME NEW s \in Sessions, Quit(s) PROVE (Listening /\ NoLostWakeup)'
  BY <1>2 DEF Quit
<1>3. ASSUME NEW s \in Sessions, Drop(s) PROVE (Listening /\ NoLostWakeup)'
  BY <1>3 DEF Drop
<1>4. ASSUME NEW s \in Sessions, Change(s) PROVE (Listening /\ NoLostWakeup)'
  <2>1. \A t \in Sessions : t \in subscribers => signal'[t] = 1
    BY <1>4 DEF Change, NotifyAll
  <2>2. UNCHANGED <<phase, subscribers, waiter, gate>>
    BY <1>4 DEF Change
  <2> QED
    BY <2>1, <2>2
<1>5. ASSUME NEW s \in Sessions, Refresh(s) PROVE (Listening /\ NoLostWakeup)'
  BY <1>5 DEF Refresh
<1>6. ASSUME NEW s \in Sessions, Tick(s) PROVE (Listening /\ NoLostWakeup)'
  BY <1>6 DEF Tick
<1>7. ASSUME NEW s \in Sessions, SwitchGate(s) PROVE (Listening /\ NoLostWakeup)'
  BY <1>7 DEF SwitchGate
<1>8. ASSUME NEW s \in Sessions, Render(s) PROVE (Listening /\ NoLostWakeup)'
  BY <1>8 DEF Render
<1>9. ASSUME NEW s \in Sessions, WaiterStarts(s) PROVE (Listening /\ NoLostWakeup)'
  BY <1>9 DEF WaiterStarts
<1>10. ASSUME NEW s \in Sessions, WaiterReturns(s) PROVE (Listening /\ NoLostWakeup)'
  BY <1>10 DEF WaiterReturns
<1>11. CASE BeginShutdown
  BY <1>11 DEF BeginShutdown
<1>12. CASE Exit
  BY <1>12 DEF Exit
<1>13. CASE UNCHANGED vars
  BY <1>13 DEF vars
<1> QED
  BY <1>1, <1>2, <1>3, <1>4, <1>5, <1>6, <1>7, <1>8, <1>9, <1>10, <1>11, <1>12, <1>13
  DEF Next, Update

\* However many changes one signal stands for, and whatever the order of
\* rendering, signalling and waiting: while dialogs take no message, a dashboard
\* that shows an old state will be told.
THEOREM NoWakeupIsLost ==
  ASSUME ~Dialogs
  PROVE  Spec => []NoLostWakeup
<1>1. Init => Listening /\ NoLostWakeup
  BY DEF Init, Listening, NoLostWakeup
<1>2. TypeOK /\ Listening /\ NoLostWakeup /\ [Next]_vars /\ TypeOK'
      => (Listening /\ NoLostWakeup)'
  BY InvStep DEF Inv
<1> QED
  BY <1>1, <1>2, TypeCorrect, PTL DEF Spec

-----------------------------------------------------------------------------
(* GitView: the commands of a page and what is known of its repository *)

\* Where jobs come from, and what the page shows.
PageInv ==
    /\ \A j \in Jobs : jobs[j].at # "free" => jobs[j].project \in gitUsed.entered
    /\ \A j \in Jobs : jobs[j].at = "reading" => jobs[j].op = "refresh"
    /\ project # None => project \in gitUsed.entered
    /\ project = None => gitOp = ""
    /\ DataIsOwn

\* Every change of a command or of the history is of its kind.
LEMMA JobMoves ==
  ASSUME NEW k \in JobKind, NEW at \in {"reading", "answered", "gone"}
  PROVE  /\ [k EXCEPT !.at = at] \in JobKind
         /\ \A ok \in BOOLEAN : [k EXCEPT !.at = at, !.ok = ok] \in JobKind
         /\ \A n \in Nat : [k EXCEPT !.at = at, !.branches = n] \in JobKind
         /\ \A n \in Nat \cup {None} : [k EXCEPT !.at = at, !.graph = n] \in JobKind
  BY DEF JobKind

LEMMA JobStarts ==
  ASSUME NEW op \in Operations, NEW p \in Projects
  PROVE  [NoJob EXCEPT !.op = op, !.project = p, !.at = "running"] \in JobKind
  BY DEF NoJob, JobKind, Operations

LEMMA UsedMoves ==
  ASSUME NEW u \in UsedKind
  PROVE  /\ \A b \in BOOLEAN : [u EXCEPT !.halfway = b] \in UsedKind
         /\ \A n \in 0..Overlays : [u EXCEPT !.overlays = n] \in UsedKind
         /\ \A n \in 0..MaxOps : [u EXCEPT !.started = n] \in UsedKind
         /\ \A n \in 0..MaxOps, e \in SUBSET Projects, b \in BOOLEAN :
               [u EXCEPT !.started = n, !.entered = e, !.again = b] \in UsedKind
<1>1. \A b \in BOOLEAN : [u EXCEPT !.halfway = b] \in UsedKind
  BY DEF UsedKind
<1>2. \A n \in 0..Overlays : [u EXCEPT !.overlays = n] \in UsedKind
  BY DEF UsedKind
<1>3. \A n \in 0..MaxOps : [u EXCEPT !.started = n] \in UsedKind
  BY DEF UsedKind
<1>4. \A n \in 0..MaxOps, e \in SUBSET Projects, b \in BOOLEAN :
          [u EXCEPT !.started = n, !.entered = e, !.again = b] \in UsedKind
  BY DEF UsedKind
<1> QED
  BY <1>1, <1>2, <1>3, <1>4

\* What the steps of a command do to it, as functions of the job.
WithAnswer(k, ok) == [k EXCEPT !.at = "answered", !.ok = ok]
Ended(k) == [k EXCEPT !.at = "gone"]
Started(op, p) == [NoJob EXCEPT !.op = op, !.project = p, !.at = "running"]

LEMMA JobsKept ==
  ASSUME NEW f \in [Jobs -> JobKind], NEW n, NEW k \in JobKind
  PROVE  /\ [f EXCEPT ![n] = k] \in [Jobs -> JobKind]
         /\ \A i \in Jobs : [f EXCEPT ![n] = k][i] = IF i = n THEN k ELSE f[i]
  OBVIOUS

LEMMA GitTyped == GitSpec => [](GitTypeOK /\ PageInv)
<1>1. GitInit => GitTypeOK /\ PageInv
  <2> SUFFICES ASSUME GitInit PROVE GitTypeOK /\ PageInv
    OBVIOUS
  <2>1. NoJob \in JobKind
    BY DEF NoJob, JobKind, Operations
  <2>2. gitUsed \in UsedKind
    <3>1. \A b \in BOOLEAN :
             [started |-> 0, overlays |-> 0, entered |-> {}, again |-> b, halfway |-> b] \in UsedKind
      BY GitAssumption DEF UsedKind
    <3> QED
      BY <3>1 DEF GitInit
  <2>3. GitTypeOK
    BY <2>1, <2>2 DEF GitInit, GitTypeOK
  <2>4. PageInv
    BY DEF GitInit, PageInv, DataIsOwn, NoJob
  <2> QED
    BY <2>3, <2>4
<1>2. GitTypeOK /\ PageInv /\ [GitNext]_gitVars => (GitTypeOK /\ PageInv)'
  <2> SUFFICES ASSUME GitTypeOK, PageInv, [GitNext]_gitVars PROVE (GitTypeOK /\ PageInv)'
    OBVIOUS
  <2>a. /\ gitUsed \in UsedKind /\ gitUsed.started \in 0..MaxOps /\ gitUsed.overlays \in 0..Overlays
        /\ gitUsed.entered \subseteq Projects /\ gitUsed.again \in BOOLEAN /\ gitUsed.halfway \in BOOLEAN
    BY DEF GitTypeOK, UsedKind
  <2>b. \A j \in Jobs : /\ jobs[j] \in JobKind
                        /\ jobs[j].branches \in Nat /\ jobs[j].graph \in Nat \cup {None}
                        /\ jobs[j].project \in Projects \cup {None} /\ jobs[j].op \in Operations \cup {""}
                        /\ jobs[j].at # "free" => jobs[j].project \in Projects
    BY <2>a DEF GitTypeOK, JobKind, PageInv
  <2>d. /\ jobs \in [Jobs -> JobKind] /\ repo \in [Projects -> Nat] /\ known \subseteq Projects
        /\ project \in Projects \cup {None} /\ data \in {None} \cup DataKind
        /\ gitOp \in Operations \cup {""}
    BY DEF GitTypeOK
  <2>h. jobs \in [Jobs -> JobKind]
    BY <2>d
  <2>e. spin \in Nat
    BY DEF GitTypeOK
  <2>f. overlay \in BOOLEAN
    BY DEF GitTypeOK
  <2>1. ASSUME NEW p \in Projects, Enter(p) PROVE (GitTypeOK /\ PageInv)'
    <3> DEFINE b == gitUsed.again \/ p \in gitUsed.entered
               n == gitUsed.started + 1
               e == gitUsed.entered \cup {p}
    <3>1. gitUsed' = [gitUsed EXCEPT !.started = n, !.entered = e, !.again = b]
      BY <2>1 DEF Enter
    <3>2. n \in 0..MaxOps /\ e \in SUBSET Projects /\ b \in BOOLEAN
      BY <2>1, <2>a, GitAssumption DEF Enter, StartNext
    <3>3. gitUsed'.entered = e
      BY <3>1, <2>a DEF UsedKind
    <3>4. gitUsed' \in UsedKind
      <4> HIDE DEF n, e, b
      <4> QED
        BY <3>1, <3>2, <2>a, UsedMoves
    <3>5. jobs' = [jobs EXCEPT ![n] = Started("refresh", p)]
      BY <2>1 DEF Enter, StartNext, Start, Started
    <3>6. Started("refresh", p) \in JobKind
      BY JobStarts DEF Operations, Started
    <3>7. GitTypeOK'
      <4>1. jobs' \in [Jobs -> JobKind]
        BY <3>5, <3>6, JobsKept DEF GitTypeOK
      <4>2. /\ spin' = spin + 1 /\ UNCHANGED <<known, repo, overlay>>
            /\ project' \in Projects \cup {None} /\ gitOp' \in Operations /\ data' \in {None, data}
        BY <2>1, <2>d DEF Enter, StartNext, Start, Operations
      <4>3. spin' \in Nat
        BY <4>2, <2>e
      <4> QED
        BY <3>4, <4>1, <4>2, <4>3, <2>d, <2>f DEF GitTypeOK
    <3>8. Started("refresh", p).project = p /\ Started("refresh", p).at = "running"
      BY DEF Started, NoJob
    <3>9. PageInv'
      BY <2>1, <3>3, <3>5, <3>8, GitAssumption DEF Enter, GitTypeOK, PageInv, DataIsOwn
    <3> QED
      BY <3>7, <3>9
  <2>2. ASSUME NEW p \in Projects, Forget(p) PROVE (GitTypeOK /\ PageInv)'
    BY <2>2 DEF Forget, GitTypeOK, PageInv, DataIsOwn
  <2>3. CASE Back
    BY <2>3 DEF Back, GitTypeOK, PageInv, DataIsOwn
  <2>4. ASSUME NEW op \in Operations, StartGitOp(op) PROVE (GitTypeOK /\ PageInv)'
    <3> DEFINE n == gitUsed.started + 1
    <3>0. gitUsed' = [gitUsed EXCEPT !.started = n] /\ gitUsed.started < MaxOps
      BY <2>4 DEF StartGitOp, StartNext
    <3>1. gitUsed' = [gitUsed EXCEPT !.started = n] /\ n \in 0..MaxOps
      BY <3>0, <2>a, GitAssumption
    <3>2. gitUsed'.entered = gitUsed.entered
      BY <3>1, <2>a DEF UsedKind
    <3>3. gitUsed' \in UsedKind
      <4> HIDE DEF n
      <4> QED
        BY <3>1, <2>a, UsedMoves
    <3>4. project \in Projects /\ project # None
      BY <2>4, GitAssumption DEF StartGitOp, GitTypeOK
    <3>5. jobs' = [jobs EXCEPT ![n] = Started(op, project)]
      BY <2>4 DEF StartGitOp, StartNext, Start, Started
    <3>6. Started(op, project) \in JobKind
      BY <3>4, JobStarts DEF Started
    <3>7. GitTypeOK'
      <4>1. jobs' \in [Jobs -> JobKind]
        BY <3>5, <3>6, JobsKept DEF GitTypeOK
      <4>2. /\ spin' = spin + 1 /\ UNCHANGED <<known, repo, overlay>>
            /\ project' \in Projects \cup {None} /\ gitOp' \in Operations /\ data' \in {None, data}
        BY <2>4, <2>d DEF StartGitOp, StartNext, Start, Operations
      <4>3. spin' \in Nat
        BY <4>2, <2>e
      <4> QED
        BY <3>3, <4>1, <4>2, <4>3, <2>d, <2>f DEF GitTypeOK
    <3>8. Started(op, project).project = project /\ Started(op, project).at = "running"
      BY DEF Started, NoJob
    <3>9. PageInv'
      BY <2>4, <3>2, <3>4, <3>5, <3>8 DEF StartGitOp, GitTypeOK, PageInv, DataIsOwn
    <3> QED
      BY <3>7, <3>9
  <2>5. ASSUME NEW j \in Jobs, ReadBranches(j) PROVE (GitTypeOK /\ PageInv)'
    <3>1. repo[jobs[j].project] \in Nat
      BY <2>5, <2>b DEF ReadBranches, GitTypeOK
    <3>2. jobs' = [jobs EXCEPT ![j] = [jobs[j] EXCEPT !.at = "reading", !.branches = repo[jobs[j].project]]]
      BY <2>5 DEF ReadBranches
    <3>3. [jobs[j] EXCEPT !.at = "reading", !.branches = repo[jobs[j].project]] \in JobKind
      BY <3>1, <2>b, JobMoves
    <3> DEFINE k == [jobs[j] EXCEPT !.at = "reading", !.branches = repo[jobs[j].project]]
    <3>4. k.at = "reading" /\ k.project = jobs[j].project /\ k.op = jobs[j].op
      BY <2>b DEF JobKind
    <3> HIDE DEF k
    <3>5. jobs' \in [Jobs -> JobKind] /\ \A i \in Jobs : jobs'[i] = IF i = j THEN k ELSE jobs[i]
      BY <3>2, <3>3, JobsKept DEF GitTypeOK, k
    <3>6. UNCHANGED <<known, project, gitOp, data, repo, spin, overlay, gitUsed>>
      BY <2>5 DEF ReadBranches
    <3>7. jobs[j].op = "refresh" /\ jobs[j].at # "free"
      BY <2>5 DEF ReadBranches, PageInv
    <3> QED
      BY <3>4, <3>5, <3>6, <3>7 DEF GitTypeOK, PageInv, DataIsOwn
  <2>6. ASSUME NEW j \in Jobs, ReadGraph(j) PROVE (GitTypeOK /\ PageInv)'
    <3>1. repo[jobs[j].project] \in Nat \cup {None}
      BY <2>6, <2>b DEF ReadGraph, GitTypeOK
    <3>2. jobs' = [jobs EXCEPT ![j] = [jobs[j] EXCEPT !.at = "answered", !.graph = repo[jobs[j].project]]]
      BY <2>6 DEF ReadGraph
    <3>3. [jobs[j] EXCEPT !.at = "answered", !.graph = repo[jobs[j].project]] \in JobKind
      BY <3>1, <2>b, JobMoves
    <3> DEFINE k == [jobs[j] EXCEPT !.at = "answered", !.graph = repo[jobs[j].project]]
    <3>4. k.at = "answered" /\ k.project = jobs[j].project /\ k.op = jobs[j].op
      BY <2>b DEF JobKind
    <3> HIDE DEF k
    <3>5. jobs' \in [Jobs -> JobKind] /\ \A i \in Jobs : jobs'[i] = IF i = j THEN k ELSE jobs[i]
      BY <3>2, <3>3, JobsKept DEF GitTypeOK, k
    <3>6. UNCHANGED <<known, project, gitOp, data, repo, spin, overlay, gitUsed>>
      BY <2>6 DEF ReadGraph
    <3>7. jobs[j].op = "refresh" /\ jobs[j].at # "free"
      BY <2>6 DEF ReadGraph, PageInv
    <3> QED
      BY <3>4, <3>5, <3>6, <3>7 DEF GitTypeOK, PageInv, DataIsOwn
  <2>7. ASSUME NEW j \in Jobs, NoGraph(j) PROVE (GitTypeOK /\ PageInv)'
    <3>1. jobs' = [jobs EXCEPT ![j] = [jobs[j] EXCEPT !.at = "answered", !.graph = None]]
      BY <2>7 DEF NoGraph
    <3>2. [jobs[j] EXCEPT !.at = "answered", !.graph = None] \in JobKind
      BY <2>b, JobMoves
    <3> DEFINE k == [jobs[j] EXCEPT !.at = "answered", !.graph = None]
    <3>4. k.at = "answered" /\ k.project = jobs[j].project /\ k.op = jobs[j].op
      BY <2>b DEF JobKind
    <3> HIDE DEF k
    <3>5. jobs' \in [Jobs -> JobKind] /\ \A i \in Jobs : jobs'[i] = IF i = j THEN k ELSE jobs[i]
      BY <3>1, <3>2, JobsKept DEF GitTypeOK, k
    <3>6. UNCHANGED <<known, project, gitOp, data, repo, spin, overlay, gitUsed>>
      BY <2>7 DEF NoGraph
    <3>7. jobs[j].op = "refresh" /\ jobs[j].at # "free"
      BY <2>7 DEF NoGraph, PageInv
    <3> QED
      BY <3>4, <3>5, <3>6, <3>7 DEF GitTypeOK, PageInv, DataIsOwn
  <2>8. ASSUME NEW j \in Jobs, FetchOrPull(j) PROVE (GitTypeOK /\ PageInv)'
    <3>1. PICK done \in BOOLEAN :
             /\ jobs' = [jobs EXCEPT ![j] = WithAnswer(jobs[j], done)]
             /\ gitUsed' = [gitUsed EXCEPT !.halfway = @ \/ ~done]
      BY <2>8 DEF FetchOrPull, WithAnswer
    <3> DEFINE h == gitUsed.halfway \/ ~done
    <3>2. gitUsed' = [gitUsed EXCEPT !.halfway = h] /\ h \in BOOLEAN
      BY <3>1
    <3>3. gitUsed' \in UsedKind /\ gitUsed'.entered = gitUsed.entered
      <4> HIDE DEF h
      <4>1. gitUsed' \in UsedKind
        BY <3>2, <2>a, UsedMoves
      <4>2. gitUsed'.entered = gitUsed.entered
        BY <3>2, <2>a DEF UsedKind
      <4> QED
        BY <4>1, <4>2
    <3>4. WithAnswer(jobs[j], done) \in JobKind
      BY <2>b, JobMoves DEF WithAnswer
    <3>5. /\ WithAnswer(jobs[j], done).at = "answered"
          /\ WithAnswer(jobs[j], done).project = jobs[j].project
      BY <2>b DEF WithAnswer, JobKind
    <3>6. repo' \in [Projects -> Nat]
      <4>1. repo' = [repo EXCEPT ![jobs[j].project] = repo[jobs[j].project] + 1]
        BY <2>8 DEF FetchOrPull
      <4>2. repo[jobs[j].project] + 1 \in Nat
        <5>1. jobs[j].project \in Projects
          BY <2>8, <2>b DEF FetchOrPull
        <5>2. repo[jobs[j].project] \in Nat
          BY <5>1, <2>d
        <5> HIDE <2>d
        <5> QED
          BY <5>2
      <4> QED
        BY <4>1, <4>2 DEF GitTypeOK
    <3>7. GitTypeOK'
      BY <2>8, <3>1, <3>3, <3>4, <3>6 DEF FetchOrPull, GitTypeOK
    <3>8. PageInv'
      BY <2>8, <3>1, <3>3, <3>5 DEF FetchOrPull, GitTypeOK, PageInv, DataIsOwn
    <3> QED
      BY <3>7, <3>8
  <2>9. ASSUME NEW j \in Jobs, Fail(j) PROVE (GitTypeOK /\ PageInv)'
    <3>1. jobs' = [jobs EXCEPT ![j] = WithAnswer(jobs[j], FALSE)]
      BY <2>9 DEF Fail, WithAnswer
    <3>2. WithAnswer(jobs[j], FALSE) \in JobKind
      BY <2>b, JobMoves DEF WithAnswer
    <3>3. /\ WithAnswer(jobs[j], FALSE).at = "answered"
          /\ WithAnswer(jobs[j], FALSE).project = jobs[j].project
      BY <2>b DEF WithAnswer, JobKind
    <3> QED
      BY <2>9, <3>1, <3>2, <3>3 DEF Fail, GitTypeOK, PageInv, DataIsOwn
  <2>c. ASSUME NEW j \in Jobs
        PROVE  /\ Gone(j) = [jobs EXCEPT ![j] = Ended(jobs[j])]
               /\ Ended(jobs[j]) \in JobKind /\ Ended(jobs[j]).at = "gone"
               /\ Ended(jobs[j]).project = jobs[j].project /\ Ended(jobs[j]).op = jobs[j].op
    <3>1. Gone(j) = [jobs EXCEPT ![j] = Ended(jobs[j])]
      BY DEF Gone, Ended
    <3>2. Ended(jobs[j]) \in JobKind
      BY <2>b, JobMoves DEF Ended
    <3>3. /\ Ended(jobs[j]).at = "gone"
          /\ Ended(jobs[j]).project = jobs[j].project /\ Ended(jobs[j]).op = jobs[j].op
      BY <2>b DEF Ended, JobKind
    <3> QED
      BY <3>1, <3>2, <3>3
  <2>g. ASSUME NEW j \in Jobs
        PROVE  /\ Gone(j) \in [Jobs -> JobKind]
               /\ \A i \in Jobs : Gone(j)[i] = IF i = j THEN Ended(jobs[j]) ELSE jobs[i]
    <3>1. Ended(jobs[j]) \in JobKind /\ Gone(j) = [jobs EXCEPT ![j] = Ended(jobs[j])]
      BY <2>c
    <3> QED
      BY <3>1, <2>h, JobsKept
  <2>10. ASSUME NEW j \in Jobs, Dropped(j) PROVE (GitTypeOK /\ PageInv)'
    BY <2>10, <2>c DEF Dropped, GitTypeOK, PageInv, DataIsOwn
  <2>11. ASSUME NEW j \in Jobs, Loaded(j) PROVE (GitTypeOK /\ PageInv)'
    <3>1. project \in Projects /\ project # None
      BY <2>11, <2>b, GitAssumption DEF Loaded
    <3> DEFINE read == [project |-> project, branches |-> jobs[j].branches, graph |-> jobs[j].graph]
    <3>2. read \in DataKind /\ read.project = project
      BY <3>1, <2>b DEF DataKind
    <3>3. data' = IF jobs[j].ok THEN read ELSE None
      BY <2>11 DEF Loaded
    <3> HIDE DEF read
    <3> QED
      BY <2>11, <2>c, <3>1, <3>2, <3>3 DEF Loaded, GitTypeOK, PageInv, DataIsOwn
  <2>12. ASSUME NEW j \in Jobs, Changed(j) PROVE (GitTypeOK /\ PageInv)'
    <3>1. project \in Projects /\ project # None
      BY <2>12, <2>b, GitAssumption DEF Changed
    <3>2. CASE jobs[j].ok /\ project \in known
      <4>1. jobs' = [Gone(j) EXCEPT ![Behind(j)] = Started("refresh", project)]
        BY <2>12, <3>2 DEF Changed, Start, Started
      <4>2. Started("refresh", project) \in JobKind
        BY <3>1, JobStarts DEF Operations, Started
      <4>3. /\ Started("refresh", project).project = project
            /\ Started("refresh", project).at = "running"
        BY DEF Started, NoJob
      <4>4. gitOp' = "refresh" /\ spin' = spin + 1 /\ UNCHANGED <<overlay, known, project, data, repo, gitUsed>>
        BY <2>12, <3>2 DEF Changed, Start
      <4>5. /\ Gone(j) \in [Jobs -> JobKind]
            /\ \A i \in Jobs : Gone(j)[i] = IF i = j THEN Ended(jobs[j]) ELSE jobs[i]
        BY <2>g, <2>12
      <4>6. /\ jobs' \in [Jobs -> JobKind]
            /\ \A i \in Jobs : jobs'[i] = IF i = Behind(j) THEN Started("refresh", project) ELSE Gone(j)[i]
        BY <4>1, <4>2, <4>5, JobsKept
      <4>7. GitTypeOK'
        <5>1. spin' \in Nat
          BY <4>4, <2>e
        <5>2. gitOp' \in Operations
          BY <4>4 DEF Operations
        <5> QED
          BY <4>4, <4>6, <5>1, <5>2, <2>a, <2>d, <2>f DEF GitTypeOK
      <4>8. PageInv'
        <5>1. jobs[j].at = "answered"
          BY <2>12 DEF Changed
        <5>2. Ended(jobs[j]).at = "gone" /\ Ended(jobs[j]).project = jobs[j].project
          BY <2>c
        <5> QED
          BY <5>1, <5>2, <4>3, <4>4, <4>5, <4>6, <3>1 DEF PageInv, DataIsOwn
      <4> QED
        BY <4>7, <4>8
    <3>3. CASE ~(jobs[j].ok /\ project \in known)
      <4>1. /\ jobs' = Gone(j) /\ gitOp' = "" /\ overlay' \in BOOLEAN
            /\ UNCHANGED <<spin, known, project, data, repo, gitUsed>>
        BY <2>12, <3>3 DEF Changed, GitTypeOK
      <4>2. /\ jobs' \in [Jobs -> JobKind]
            /\ \A i \in Jobs : jobs'[i] = IF i = j THEN Ended(jobs[j]) ELSE jobs[i]
        BY <4>1, <2>g, <2>12
      <4> QED
        BY <2>12, <4>1, <4>2, <2>c DEF Changed, GitTypeOK, PageInv, DataIsOwn
    <3> QED
      BY <3>2, <3>3
  <2>13. CASE SpinnerTick
    BY <2>13 DEF SpinnerTick, GitTypeOK, PageInv, DataIsOwn
  <2>14. CASE TickDropped
    <3>1. spin' \in Nat
      <4>1. spin > 0 /\ spin' = spin - 1
        BY <2>14 DEF TickDropped
      <4> QED
        BY <4>1, <2>e
    <3> QED
      BY <2>14, <3>1 DEF TickDropped, GitTypeOK, PageInv, DataIsOwn
  <2>15. CASE ShowOverlay
    <3> DEFINE n == gitUsed.overlays + 1
    <3>1. gitUsed' = [gitUsed EXCEPT !.overlays = n] /\ n \in 0..Overlays
      BY <2>15, <2>a, GitAssumption DEF ShowOverlay
    <3>2. gitUsed'.entered = gitUsed.entered
      BY <3>1, <2>a DEF UsedKind
    <3>3. gitUsed' \in UsedKind
      <4> HIDE DEF n
      <4> QED
        BY <3>1, <2>a, UsedMoves
    <3> QED
      BY <2>15, <3>2, <3>3 DEF ShowOverlay, GitTypeOK, PageInv, DataIsOwn
  <2>16. CASE Dismiss
    BY <2>16 DEF Dismiss, GitTypeOK, PageInv, DataIsOwn
  <2>17. CASE UNCHANGED gitVars
    BY <2>17 DEF gitVars, GitTypeOK, PageInv, DataIsOwn
  <2> QED
    BY <2>1, <2>2, <2>3, <2>4, <2>5, <2>6, <2>7, <2>8, <2>9, <2>10, <2>11, <2>12, <2>13, <2>14, <2>15, <2>16, <2>17
    DEF GitNext, Work, Deliver, Operations
<1> QED
  BY <1>1, <1>2, PTL DEF GitSpec

-----------------------------------------------------------------------------
(* What the steps of GitView do to the commands *)

\* A command works: it reads, fetches or fails, and nothing of the page changes.
LEMMA Commands ==
  ASSUME GitTypeOK, PageInv, NEW j \in Jobs, Work(j)
  PROVE  /\ \A i \in Jobs : i # j => jobs'[i] = jobs[i]
         /\ jobs'[j].project = jobs[j].project /\ jobs'[j].op = jobs[j].op
         /\ jobs[j].project \in Projects /\ jobs[j].at \in {"running", "reading"}
         /\ jobs'[j].at \in {"reading", "answered"}
         /\ UNCHANGED <<known, project, gitOp, data, spin, overlay>>
         /\ gitUsed'.again = gitUsed.again
         /\ ~gitUsed'.halfway => ~gitUsed.halfway
         /\ \/ /\ jobs'[j].at = "reading" /\ jobs'[j].branches = repo[jobs[j].project]
               /\ jobs[j].op = "refresh" /\ UNCHANGED repo
            \/ /\ jobs[j].at = "reading" /\ jobs'[j].at = "answered" /\ jobs[j].op = "refresh"
               /\ jobs'[j].branches = jobs[j].branches
               /\ jobs'[j].graph \in {repo[jobs[j].project], None} /\ UNCHANGED repo
            \/ /\ jobs[j].op # "refresh" /\ jobs'[j].at = "answered"
               /\ \A p \in Projects : p # jobs[j].project => repo'[p] = repo[p]
               /\ ~gitUsed'.halfway => jobs'[j].ok
            \/ /\ jobs'[j].at = "answered" /\ ~jobs'[j].ok /\ UNCHANGED repo
               /\ jobs[j].at = "reading" => jobs[j].op = "refresh"
<1>a. /\ jobs \in [Jobs -> JobKind] /\ gitUsed \in UsedKind
      /\ \A i \in Jobs : jobs[i] \in JobKind
      /\ jobs[j].at # "free" => jobs[j].project \in Projects
      /\ jobs[j].at = "reading" => jobs[j].op = "refresh"
  BY DEF GitTypeOK, PageInv, UsedKind
<1>1. CASE ReadBranches(j)
  <2> DEFINE k == [jobs[j] EXCEPT !.at = "reading", !.branches = repo[jobs[j].project]]
  <2>1. /\ k.at = "reading" /\ k.branches = repo[jobs[j].project]
        /\ k.project = jobs[j].project /\ k.op = jobs[j].op
    BY <1>a DEF JobKind
  <2>2. jobs' = [jobs EXCEPT ![j] = k]
    BY <1>1 DEF ReadBranches
  <2> HIDE DEF k
  <2>3. jobs'[j] = k /\ \A i \in Jobs : i # j => jobs'[i] = jobs[i]
    BY <2>2, <1>a
  <2> QED
    BY <1>1, <1>a, <2>1, <2>3 DEF ReadBranches
<1>2. CASE ReadGraph(j)
  <2> DEFINE k == [jobs[j] EXCEPT !.at = "answered", !.graph = repo[jobs[j].project]]
  <2>1. /\ k.at = "answered" /\ k.branches = jobs[j].branches /\ k.graph = repo[jobs[j].project]
        /\ k.project = jobs[j].project /\ k.op = jobs[j].op
    BY <1>a DEF JobKind
  <2>2. jobs' = [jobs EXCEPT ![j] = k]
    BY <1>2 DEF ReadGraph
  <2> HIDE DEF k
  <2>3. jobs'[j] = k /\ \A i \in Jobs : i # j => jobs'[i] = jobs[i]
    BY <2>2, <1>a
  <2> QED
    BY <1>2, <1>a, <2>1, <2>3 DEF ReadGraph
<1>3. CASE NoGraph(j)
  <2> DEFINE k == [jobs[j] EXCEPT !.at = "answered", !.graph = None]
  <2>1. /\ k.at = "answered" /\ k.branches = jobs[j].branches /\ k.graph = None
        /\ k.project = jobs[j].project /\ k.op = jobs[j].op
    BY <1>a DEF JobKind
  <2>2. jobs' = [jobs EXCEPT ![j] = k]
    BY <1>3 DEF NoGraph
  <2> HIDE DEF k
  <2>3. jobs'[j] = k /\ \A i \in Jobs : i # j => jobs'[i] = jobs[i]
    BY <2>2, <1>a
  <2> QED
    BY <1>3, <1>a, <2>1, <2>3 DEF NoGraph
<1>4. CASE FetchOrPull(j)
  <2>1. PICK done \in BOOLEAN :
           /\ jobs' = [jobs EXCEPT ![j] = WithAnswer(jobs[j], done)]
           /\ gitUsed' = [gitUsed EXCEPT !.halfway = @ \/ ~done]
    BY <1>4 DEF FetchOrPull, WithAnswer
  <2>2. /\ WithAnswer(jobs[j], done).at = "answered"
        /\ WithAnswer(jobs[j], done).project = jobs[j].project
        /\ WithAnswer(jobs[j], done).op = jobs[j].op
        /\ WithAnswer(jobs[j], done).ok = done
    BY <1>a DEF WithAnswer, JobKind
  <2>3. jobs'[j] = WithAnswer(jobs[j], done) /\ \A i \in Jobs : i # j => jobs'[i] = jobs[i]
    BY <2>1, <1>a
  <2>4. gitUsed'.again = gitUsed.again /\ gitUsed'.halfway = (gitUsed.halfway \/ ~done)
    BY <2>1, <1>a DEF UsedKind
  <2>5. jobs[j].at = "running" /\ jobs[j].op \in {"fetch", "pull"}
        /\ repo' = [repo EXCEPT ![jobs[j].project] = @ + 1]
        /\ UNCHANGED <<known, project, gitOp, data, spin, overlay>>
    BY <1>4 DEF FetchOrPull
  <2>6. \A p \in Projects : p # jobs[j].project => repo'[p] = repo[p]
    BY <2>5 DEF GitTypeOK
  <2>7. ~gitUsed'.halfway => ~gitUsed.halfway /\ jobs'[j].ok
    BY <2>2, <2>3, <2>4
  <2> QED
    BY <1>a, <2>2, <2>3, <2>4, <2>5, <2>6, <2>7
<1>5. CASE Fail(j)
  <2>1. jobs' = [jobs EXCEPT ![j] = WithAnswer(jobs[j], FALSE)]
    BY <1>5 DEF Fail, WithAnswer
  <2>2. /\ WithAnswer(jobs[j], FALSE).at = "answered"
        /\ WithAnswer(jobs[j], FALSE).project = jobs[j].project
        /\ WithAnswer(jobs[j], FALSE).op = jobs[j].op
        /\ ~WithAnswer(jobs[j], FALSE).ok
    BY <1>a DEF WithAnswer, JobKind
  <2>3. jobs'[j] = WithAnswer(jobs[j], FALSE) /\ \A i \in Jobs : i # j => jobs'[i] = jobs[i]
    BY <2>1, <1>a
  <2> QED
    BY <1>5, <1>a, <2>2, <2>3 DEF Fail
<1> QED
  BY <1>1, <1>2, <1>3, <1>4, <1>5 DEF Work

\* The answer of a command is taken, or dropped: it is gone.
LEMMA Goes ==
  ASSUME GitTypeOK, NEW j \in Jobs
  PROVE  /\ Gone(j) \in [Jobs -> JobKind]
         /\ \A i \in Jobs : i # j => Gone(j)[i] = jobs[i]
         /\ Gone(j)[j].at = "gone"
<1>1. jobs \in [Jobs -> JobKind] /\ jobs[j] \in JobKind
  BY DEF GitTypeOK
<1>2. Gone(j) = [jobs EXCEPT ![j] = Ended(jobs[j])]
  BY DEF Gone, Ended
<1>3. Ended(jobs[j]) \in JobKind
  BY <1>1, JobMoves DEF Ended
<1>4. Ended(jobs[j]).at = "gone"
  BY <1>1 DEF Ended, JobKind
<1> QED
  BY <1>1, <1>2, <1>3, <1>4, JobsKept

\* A command starts.
Underway(from, n, op, p) ==
    /\ gitOp' = op /\ spin' = spin + 1
    /\ \A i \in Jobs : i # n => jobs'[i] = from[i]
    /\ n \in Jobs => /\ jobs'[n].project = p /\ jobs'[n].op = op
                     /\ jobs'[n].at = "running"
LEMMA Starts ==
  ASSUME NEW from \in [Jobs -> JobKind], NEW n, NEW op \in Operations, NEW p \in Projects,
         Start(from, n, op, p)
  PROVE  Underway(from, n, op, p)
<1>1. jobs' = [from EXCEPT ![n] = Started(op, p)] /\ gitOp' = op /\ spin' = spin + 1
  BY DEF Start, Started
<1>2. Started(op, p) \in JobKind
  BY JobStarts DEF Started
<1>3. Started(op, p).project = p /\ Started(op, p).op = op /\ Started(op, p).at = "running"
  BY DEF Started, NoJob
<1> QED
  BY <1>1, <1>2, <1>3, JobsKept DEF Underway

-----------------------------------------------------------------------------
(* One command at a time *)

\* Command j is under way, or its answer is.
Live(j) == jobs[j].at \in {"running", "reading", "answered"}

\* A repository whose page is entered once has one command, and its page says so.
LiveInv ==
    ~gitUsed.again =>
        /\ \A j, k \in Jobs : Live(j) /\ Live(k) /\ jobs[j].project = jobs[k].project => j = k
        /\ \A j \in Jobs : Live(j) /\ jobs[j].project = project => gitOp # ""

\* Taking an answer of the page's project leaves it without a command.
LEMMA TakenAlone ==
  ASSUME GitTypeOK, PageInv, LiveInv, ~gitUsed.again, NEW j \in Jobs,
         jobs[j].at = "answered", project = jobs[j].project
  PROVE  /\ project \in Projects
         /\ \A i \in Jobs : Live(i) /\ jobs[i].project = project => i = j
         /\ \A i \in Jobs : i # j => Gone(j)[i] = jobs[i]
         /\ Gone(j)[j].at = "gone" /\ Gone(j) \in [Jobs -> JobKind]
<1>1. project \in Projects
  BY DEF PageInv, GitTypeOK, UsedKind
<1>2. Live(j)
  BY DEF Live
<1> QED
  BY <1>1, <1>2, Goes DEF LiveInv

\* The history only grows.
LEMMA AgainKept ==
  ASSUME GitTypeOK, [GitNext]_gitVars
  PROVE  /\ ~gitUsed'.again => ~gitUsed.again
         /\ ~gitUsed'.halfway => ~gitUsed.halfway
         /\ gitUsed'.overlays = 0 => gitUsed.overlays = 0
<1>a. gitUsed \in UsedKind
  BY DEF GitTypeOK
<1>b. gitUsed.overlays \in Nat
  BY <1>a, GitAssumption DEF UsedKind
<1>1. ASSUME NEW p \in Projects, Enter(p) PROVE gitUsed' =
         [gitUsed EXCEPT !.started = @ + 1, !.entered = @ \cup {p}, !.again = @ \/ p \in gitUsed.entered]
  BY <1>1 DEF Enter
<1>2. ASSUME NEW op \in Operations, StartGitOp(op) PROVE gitUsed' = [gitUsed EXCEPT !.started = @ + 1]
  BY <1>2 DEF StartGitOp
<1>3. ASSUME NEW j \in Jobs, FetchOrPull(j)
      PROVE \E done \in BOOLEAN : gitUsed' = [gitUsed EXCEPT !.halfway = @ \/ ~done]
  BY <1>3 DEF FetchOrPull
<1>4. ASSUME ShowOverlay PROVE gitUsed' = [gitUsed EXCEPT !.overlays = @ + 1]
  BY <1>4 DEF ShowOverlay
<1>5. \/ UNCHANGED gitUsed
      \/ \E p \in Projects : gitUsed' =
             [gitUsed EXCEPT !.started = @ + 1, !.entered = @ \cup {p}, !.again = @ \/ p \in gitUsed.entered]
      \/ gitUsed' = [gitUsed EXCEPT !.started = @ + 1]
      \/ \E done \in BOOLEAN : gitUsed' = [gitUsed EXCEPT !.halfway = @ \/ ~done]
      \/ gitUsed' = [gitUsed EXCEPT !.overlays = @ + 1]
  BY <1>1, <1>2, <1>3, <1>4
  DEF GitNext, Operations, Work, Deliver, Forget, Back, ReadBranches, ReadGraph, NoGraph, Fail,
      Dropped, Loaded, Changed, SpinnerTick, TickDropped, Dismiss, gitVars
<1> QED
  <2>1. ASSUME NEW p \in Projects, gitUsed' = [gitUsed EXCEPT !.started = @ + 1,
                  !.entered = @ \cup {p}, !.again = @ \/ p \in gitUsed.entered]
        PROVE  /\ gitUsed'.again = (gitUsed.again \/ p \in gitUsed.entered)
               /\ gitUsed'.halfway = gitUsed.halfway /\ gitUsed'.overlays = gitUsed.overlays
    BY <2>1, <1>a DEF UsedKind
  <2>2. ASSUME gitUsed' = [gitUsed EXCEPT !.started = @ + 1]
        PROVE  /\ gitUsed'.again = gitUsed.again
               /\ gitUsed'.halfway = gitUsed.halfway /\ gitUsed'.overlays = gitUsed.overlays
    BY <2>2, <1>a DEF UsedKind
  <2>3. ASSUME NEW done \in BOOLEAN, gitUsed' = [gitUsed EXCEPT !.halfway = @ \/ ~done]
        PROVE  /\ gitUsed'.halfway = (gitUsed.halfway \/ ~done)
               /\ gitUsed'.again = gitUsed.again /\ gitUsed'.overlays = gitUsed.overlays
    BY <2>3, <1>a DEF UsedKind
  <2>4. ASSUME gitUsed' = [gitUsed EXCEPT !.overlays = @ + 1]
        PROVE  /\ gitUsed'.overlays = gitUsed.overlays + 1
               /\ gitUsed'.again = gitUsed.again /\ gitUsed'.halfway = gitUsed.halfway
    BY <2>4, <1>a DEF UsedKind
  <2>5. ASSUME gitUsed' = [gitUsed EXCEPT !.overlays = @ + 1] PROVE gitUsed'.overlays # 0
    BY <2>4, <2>5, <1>b
  <2> QED
    BY <1>5, <2>1, <2>2, <2>3, <2>4, <2>5

LEMMA LiveStep ==
  ASSUME GitTypeOK, PageInv, LiveInv, [GitNext]_gitVars
  PROVE  LiveInv'
<1> SUFFICES ASSUME ~gitUsed'.again
             PROVE  (/\ \A j, k \in Jobs : Live(j) /\ Live(k) /\ jobs[j].project = jobs[k].project => j = k
                     /\ \A j \in Jobs : Live(j) /\ jobs[j].project = project => gitOp # "")'
  BY DEF LiveInv
<1> DEFINE Goal == (/\ \A j, k \in Jobs : Live(j) /\ Live(k) /\ jobs[j].project = jobs[k].project => j = k
                    /\ \A j \in Jobs : Live(j) /\ jobs[j].project = project => gitOp # "")'
<1>a. /\ jobs \in [Jobs -> JobKind] /\ gitUsed \in UsedKind /\ None \notin Projects
      /\ \A j \in Jobs : jobs[j].at # "free" => jobs[j].project \in gitUsed.entered
      /\ gitUsed.entered \subseteq Projects
      /\ \A j \in Jobs : jobs[j].at # "free" => jobs[j].project \in Projects
  BY GitAssumption DEF GitTypeOK, PageInv, UsedKind
<1>a2. jobs \in [Jobs -> JobKind]
  BY <1>a
<1>b. ~gitUsed.again
  BY AgainKept
<1>c. /\ \A j, k \in Jobs : Live(j) /\ Live(k) /\ jobs[j].project = jobs[k].project => j = k
      /\ \A j \in Jobs : Live(j) /\ jobs[j].project = project => gitOp # ""
  BY <1>b DEF LiveInv
<1>1. ASSUME NEW p \in Projects, Enter(p) PROVE Goal
  <2>1. gitUsed'.again = (gitUsed.again \/ p \in gitUsed.entered)
    BY <1>1, <1>a DEF Enter, UsedKind
  <2>2. ~gitUsed.again /\ p \notin gitUsed.entered
    BY <2>1
  <2>4. Start(jobs, gitUsed.started + 1, "refresh", p) /\ project' = p
    BY <1>1 DEF Enter, StartNext
  <2>5. /\ gitOp' = "refresh"
        /\ \A i \in Jobs : i # gitUsed.started + 1 => jobs'[i] = jobs[i]
        /\ gitUsed.started + 1 \in Jobs => jobs'[gitUsed.started + 1].project = p
    <3>1. Underway(jobs, gitUsed.started + 1, "refresh", p)
      BY <2>4, <1>a2, Starts DEF Operations
    <3> QED
      BY <3>1 DEF Underway
  <2> QED
    <3> DEFINE n == gitUsed.started + 1
    <3>1. /\ project' = p /\ gitOp' = "refresh" /\ \A i \in Jobs : i # n => jobs'[i] = jobs[i]
          /\ n \in Jobs => jobs'[n].project = p
      BY <2>4, <2>5
    <3> HIDE DEF n
    <3>2. \A i \in Jobs : Live(i) => jobs[i].project # p
      BY <1>a, <2>2 DEF Live
    <3>3. \A i \in Jobs : i # n => (Live(i)' <=> Live(i)) /\ jobs'[i].project = jobs[i].project
      BY <3>1 DEF Live
    <3>4. \A i, k \in Jobs : (Live(i) /\ Live(k) /\ jobs[i].project = jobs[k].project)' => i = k
      BY <3>1, <3>2, <3>3, <1>c
    <3> QED
      BY <3>1, <3>4
<1>2. ASSUME NEW p \in Projects, Forget(p) PROVE Goal
  BY <1>2, <1>c DEF Forget, Live
<1>3. CASE Back
  <2>1. project' = None /\ UNCHANGED <<jobs, gitUsed>>
    BY <1>3 DEF Back
  <2> QED
    BY <2>1, <1>a, <1>c DEF Live
<1>4. ASSUME NEW op \in Operations, StartGitOp(op) PROVE Goal
  <2>1. /\ project \in Projects /\ gitOp = "" /\ UNCHANGED project
        /\ Start(jobs, gitUsed.started + 1, op, project)
    BY <1>4 DEF StartGitOp, StartNext, GitTypeOK
  <2>3. \A j \in Jobs : Live(j) => jobs[j].project # project
    BY <2>1, <1>c
  <2>4. /\ gitOp' = op /\ op # ""
        /\ \A i \in Jobs : i # gitUsed.started + 1 => jobs'[i] = jobs[i]
        /\ gitUsed.started + 1 \in Jobs => jobs'[gitUsed.started + 1].project = project
    <3>1. op # ""
      BY DEF Operations
    <3> DEFINE n == gitUsed.started + 1
    <3>2. project \in Projects /\ Start(jobs, n, op, project)
      BY <2>1
    <3> HIDE DEF n
    <3>3. Underway(jobs, n, op, project)
      BY <3>2, <1>a2, Starts
    <3>4. /\ gitOp' = op
          /\ \A i \in Jobs : i # n => jobs'[i] = jobs[i]
          /\ n \in Jobs => jobs'[n].project = project
      BY <3>3 DEF Underway
    <3> QED
      BY <3>1, <3>4 DEF n
  <2> QED
    BY <2>1, <2>3, <2>4, <1>c DEF Live
<1>5. ASSUME NEW j \in Jobs, Work(j) PROVE Goal
  <2>1. /\ \A i \in Jobs : i # j => jobs'[i] = jobs[i]
        /\ jobs'[j].project = jobs[j].project /\ jobs[j].at \in {"running", "reading"}
        /\ UNCHANGED <<project, gitOp>> /\ gitUsed'.again = gitUsed.again
    BY <1>5, Commands
  <2>2. \A i \in Jobs : Live(i)' => Live(i) /\ jobs'[i].project = jobs[i].project
    BY <2>1 DEF Live
  <2> QED
    BY <2>1, <2>2, <1>c
<1>6. ASSUME NEW j \in Jobs, Dropped(j) PROVE Goal
  <2>1. jobs' = Gone(j) /\ UNCHANGED <<project, gitOp, gitUsed>>
    BY <1>6 DEF Dropped
  <2>2. \A i \in Jobs : i # j => jobs'[i] = jobs[i]
    BY <2>1, Goes
  <2>3. jobs'[j].at = "gone"
    BY <2>1, Goes
  <2> QED
    BY <2>1, <2>2, <2>3, <1>c DEF Live
<1>7. ASSUME NEW j \in Jobs, Loaded(j) PROVE Goal
  <2>1. /\ jobs[j].at = "answered" /\ project = jobs[j].project
        /\ jobs' = Gone(j) /\ UNCHANGED <<project, gitUsed>>
    BY <1>7 DEF Loaded
  <2>2. /\ \A i \in Jobs : Live(i) /\ jobs[i].project = project => i = j
        /\ \A i \in Jobs : i # j => jobs'[i] = jobs[i]
        /\ jobs'[j].at = "gone"
    BY <2>1, <1>b, TakenAlone
  <2> QED
    BY <2>1, <2>2, <1>c DEF Live
<1>8. ASSUME NEW j \in Jobs, Changed(j) PROVE Goal
  <2>1. /\ jobs[j].at = "answered" /\ project = jobs[j].project /\ UNCHANGED <<project, gitUsed>>
        /\ \/ jobs' = Gone(j)
           \/ Start(Gone(j), Behind(j), "refresh", project)
    BY <1>8 DEF Changed
  <2>2. /\ \A i \in Jobs : Live(i) /\ jobs[i].project = project => i = j
        /\ \A i \in Jobs : i # j => Gone(j)[i] = jobs[i]
        /\ Gone(j)[j].at = "gone" /\ Gone(j) \in [Jobs -> JobKind] /\ project \in Projects
    BY <2>1, <1>b, TakenAlone
  <2>4. CASE jobs' = Gone(j)
    <3>1. /\ \A i \in Jobs : i # j => jobs'[i] = jobs[i]
          /\ jobs'[j].at = "gone"
      BY <2>2, <2>4
    <3>2. \A i \in Jobs : Live(i)' => Live(i) /\ i # j /\ jobs'[i].project = jobs[i].project
      BY <3>1 DEF Live
    <3> QED
      BY <2>1, <2>2, <3>2, <1>c
  <2>5. CASE Start(Gone(j), Behind(j), "refresh", project)
    <3>1. /\ gitOp' = "refresh"
          /\ \A i \in Jobs : i # Behind(j) => jobs'[i] = Gone(j)[i]
          /\ Behind(j) \in Jobs => jobs'[Behind(j)].project = project
      <4>1. "refresh" \in Operations
        BY DEF Operations
      <4>2. Underway(Gone(j), Behind(j), "refresh", project)
        BY <2>2, <2>5, <4>1, Starts
      <4> QED
        BY <4>2 DEF Underway
    <3> QED
      <4> DEFINE n == Behind(j)
      <4>1. /\ \A i \in Jobs : i # n => jobs'[i] = Gone(j)[i]
            /\ n \in Jobs => jobs'[n].project = project
        BY <3>1
      <4> HIDE DEF n
      <4>2. \A i \in Jobs : i # n /\ Live(i)' =>
               Live(i) /\ i # j /\ jobs'[i].project = jobs[i].project
        BY <4>1, <2>2 DEF Live
      <4>3. \A i \in Jobs : i # n /\ Live(i)' => jobs'[i].project # project
        BY <4>2, <2>2
      <4>4. \A i, k \in Jobs : (Live(i) /\ Live(k) /\ jobs[i].project = jobs[k].project)' => i = k
        BY <4>1, <4>2, <4>3, <1>c
      <4> QED
        BY <3>1, <4>4
  <2> QED
    BY <2>1, <2>4, <2>5
<1>9. CASE SpinnerTick \/ TickDropped \/ Dismiss \/ UNCHANGED gitVars
  BY <1>9, <1>c DEF SpinnerTick, TickDropped, Dismiss, gitVars, Live
<1>10. CASE ShowOverlay
  BY <1>10, <1>c DEF ShowOverlay, Live
<1> QED
  BY <1>1, <1>2, <1>3, <1>4, <1>5, <1>6, <1>7, <1>8, <1>9, <1>10
  DEF GitNext, Deliver, Operations

-----------------------------------------------------------------------------
(* What the page shows is so *)

UpToDate == data.branches = repo[project] /\ data.graph \in {repo[project], None}

\* A fetch or pull that has not changed the repository.
Harmless(j) == jobs[j].op # "refresh" /\ (jobs[j].at = "running" \/ ~jobs[j].ok)

\* What a load has read is still so, since nothing else works there, and what the page
\* shows is so until its fetch or pull has changed the repository.
FreshInv ==
    ~gitUsed.again /\ ~gitUsed.halfway =>
        /\ \A j \in Jobs : jobs[j].at = "reading" => jobs[j].branches = repo[jobs[j].project]
        /\ \A j \in Jobs : jobs[j].op = "refresh" /\ jobs[j].at = "answered" /\ jobs[j].ok =>
               /\ jobs[j].branches = repo[jobs[j].project]
               /\ jobs[j].graph \in {repo[jobs[j].project], None}
        /\ data # None /\ project \in known
           /\ (gitOp = "" \/ \E j \in Jobs : Live(j) /\ jobs[j].project = project /\ Harmless(j))
               => UpToDate

LEMMA FreshStep ==
  ASSUME GitTypeOK, PageInv, LiveInv, FreshInv, [GitNext]_gitVars
  PROVE  FreshInv'
<1> DEFINE Reading == \A j \in Jobs : jobs[j].at = "reading" => jobs[j].branches = repo[jobs[j].project]
           Read == \A j \in Jobs : jobs[j].op = "refresh" /\ jobs[j].at = "answered" /\ jobs[j].ok =>
                       /\ jobs[j].branches = repo[jobs[j].project]
                       /\ jobs[j].graph \in {repo[jobs[j].project], None}
           Untouched == \E j \in Jobs : Live(j) /\ jobs[j].project = project /\ Harmless(j)
           Shown == data # None /\ project \in known /\ (gitOp = "" \/ Untouched) => UpToDate
<1> SUFFICES ASSUME ~gitUsed'.again, ~gitUsed'.halfway
             PROVE  Reading' /\ Read' /\ Shown'
  BY DEF FreshInv
<1>a. /\ jobs \in [Jobs -> JobKind] /\ None \notin Projects
      /\ \A j \in Jobs : jobs[j].at # "free" => jobs[j].project \in Projects
      /\ \A j \in Jobs : jobs[j].at = "reading" => jobs[j].op = "refresh"
  BY GitAssumption DEF GitTypeOK, PageInv, UsedKind
<1>b. ~gitUsed.again /\ ~gitUsed.halfway
  BY AgainKept
<1>c. Reading /\ Read /\ Shown
  BY <1>b DEF FreshInv
<1>d. /\ \A j, k \in Jobs : Live(j) /\ Live(k) /\ jobs[j].project = jobs[k].project => j = k
      /\ \A j \in Jobs : Live(j) /\ jobs[j].project = project => gitOp # ""
  BY <1>b DEF LiveInv
<1>e. jobs \in [Jobs -> JobKind]
  BY <1>a
<1>1. ASSUME NEW p \in Projects, Enter(p) PROVE Reading' /\ Read' /\ Shown'
  <2> DEFINE n == gitUsed.started + 1
  <2>1. Start(jobs, n, "refresh", p) /\ data' = None /\ UNCHANGED repo
    BY <1>1 DEF Enter, StartNext
  <2> HIDE DEF n
  <2>2. "refresh" \in Operations
    BY DEF Operations
  <2>3. /\ \A i \in Jobs : i # n => jobs'[i] = jobs[i]
        /\ n \in Jobs => jobs'[n].at = "running"
    <3>1. Underway(jobs, n, "refresh", p)
      BY <2>1, <2>2, <1>e, Starts
    <3> QED
      BY <3>1 DEF Underway
  <2> QED
    BY <2>1, <2>3, <1>c
<1>2. ASSUME NEW p \in Projects, Forget(p) PROVE Reading' /\ Read' /\ Shown'
  BY <1>2, <1>c DEF Forget, Live, Harmless, UpToDate
<1>3. CASE Back
  BY <1>3, <1>c DEF Back
<1>4. ASSUME NEW op \in Operations, StartGitOp(op) PROVE Reading' /\ Read' /\ Shown'
  <2> DEFINE n == gitUsed.started + 1
  <2>1. /\ Start(jobs, n, op, project) /\ UNCHANGED <<data, repo, project, known>>
        /\ project \in known /\ gitOp = "" /\ project \in Projects
    BY <1>4 DEF StartGitOp, StartNext, GitTypeOK
  <2> HIDE DEF n
  <2>2. /\ \A i \in Jobs : i # n => jobs'[i] = jobs[i]
        /\ n \in Jobs => jobs'[n].at = "running"
    <3>1. Underway(jobs, n, op, project)
      BY <2>1, <1>e, Starts
    <3> QED
      BY <3>1 DEF Underway
  <2> QED
    BY <2>1, <2>2, <1>c DEF UpToDate
<1>5. ASSUME NEW j \in Jobs, Work(j) PROVE Reading' /\ Read' /\ Shown'
  <2> DEFINE p == jobs[j].project
  <2>1. /\ \A i \in Jobs : i # j => jobs'[i] = jobs[i]
        /\ jobs'[j].project = p /\ jobs'[j].op = jobs[j].op
        /\ jobs[j].at \in {"running", "reading"} /\ jobs'[j].at \in {"reading", "answered"}
        /\ UNCHANGED <<known, project, gitOp, data>>
    BY <1>5, Commands
  <2>2. \/ /\ jobs'[j].at = "reading" /\ jobs'[j].branches = repo[p]
           /\ jobs[j].op = "refresh" /\ UNCHANGED repo
        \/ /\ jobs[j].at = "reading" /\ jobs'[j].at = "answered" /\ jobs[j].op = "refresh"
           /\ jobs'[j].branches = jobs[j].branches
           /\ jobs'[j].graph \in {repo[p], None} /\ UNCHANGED repo
        \/ /\ jobs[j].op # "refresh" /\ jobs'[j].at = "answered"
           /\ \A q \in Projects : q # p => repo'[q] = repo[q]
           /\ jobs'[j].ok
        \/ /\ jobs'[j].at = "answered" /\ ~jobs'[j].ok /\ UNCHANGED repo
           /\ jobs[j].at = "reading" => jobs[j].op = "refresh"
    BY <1>5, Commands
  <2>3. Live(j) /\ p \in Projects
    BY <2>1, <1>a DEF Live
  <2>4. \A i \in Jobs : Live(i) /\ jobs[i].project = p => i = j
    BY <2>3, <1>d
  <2>5. \A i \in Jobs : i # j /\ jobs[i].at \in {"reading", "answered"} =>
           jobs[i].project # p /\ jobs[i].project \in Projects
    BY <2>4, <1>a DEF Live
  <2>6. \A i \in Jobs : i # j /\ jobs[i].at \in {"reading", "answered"} =>
           repo'[jobs[i].project] = repo[jobs[i].project]
    BY <2>2, <2>5
  <2>7. Reading'
    <3> SUFFICES ASSUME NEW i \in Jobs, jobs'[i].at = "reading"
                 PROVE  jobs'[i].branches = repo'[jobs'[i].project]
      OBVIOUS
    <3>1. CASE i = j
      BY <3>1, <2>1, <2>2
    <3>2. CASE i # j
      BY <3>2, <2>1, <2>6, <1>c
    <3> QED
      BY <3>1, <3>2
  <2>8. Read'
    <3> SUFFICES ASSUME NEW i \in Jobs, jobs'[i].op = "refresh", jobs'[i].at = "answered", jobs'[i].ok
                 PROVE  /\ jobs'[i].branches = repo'[jobs'[i].project]
                        /\ jobs'[i].graph \in {repo'[jobs'[i].project], None}
      OBVIOUS
    <3>1. CASE i = j
      <4>1. jobs[j].at = "reading" => jobs[j].branches = repo[p]
        BY <1>c
      <4> QED
        BY <3>1, <4>1, <2>1, <2>2
    <3>2. CASE i # j
      BY <3>2, <2>1, <2>6, <1>c
    <3> QED
      BY <3>1, <3>2
  <2>9. Shown'
    <3> SUFFICES ASSUME data # None, project \in known, gitOp = "" \/ Untouched'
                 PROVE  UpToDate'
      BY <2>1
    <3>1. project \in Projects
      BY DEF GitTypeOK
    <3>2. CASE project # p
      <4>1. repo'[project] = repo[project]
        BY <2>2, <3>1, <3>2
      <4>2. Untouched' => Untouched
        BY <2>1, <3>2 DEF Live, Harmless
      <4> QED
        BY <4>1, <4>2, <2>1, <1>c DEF UpToDate
    <3>3. CASE project = p
      <4>1. gitOp # ""
        BY <3>3, <2>3, <1>d
      <4>2. PICK i \in Jobs : (Live(i) /\ jobs[i].project = project /\ Harmless(i))'
        BY <4>1
      <4>3. i = j
        BY <4>2, <3>3, <2>1, <2>4 DEF Live
      <4>4. jobs'[j].op # "refresh" /\ (jobs'[j].at = "running" \/ ~jobs'[j].ok)
        BY <4>2, <4>3 DEF Harmless
      <4>5. UNCHANGED repo /\ jobs[j].at = "running" /\ jobs[j].op # "refresh"
        BY <4>4, <2>1, <2>2
      <4>6. Untouched
        BY <4>5, <3>3, <2>3 DEF Harmless
      <4> QED
        BY <4>5, <4>6, <2>1, <1>c DEF UpToDate
    <3> QED
      BY <3>2, <3>3
  <2> QED
    BY <2>7, <2>8, <2>9
<1>6. ASSUME NEW j \in Jobs, Dropped(j) PROVE Reading' /\ Read' /\ Shown'
  <2>1. jobs' = Gone(j) /\ UNCHANGED <<project, gitOp, known, data, repo>>
    BY <1>6 DEF Dropped
  <2>2. /\ \A i \in Jobs : i # j => jobs'[i] = jobs[i]
        /\ jobs'[j].at = "gone"
    BY <2>1, Goes
  <2>3. Untouched' => Untouched
    BY <2>1, <2>2 DEF Live, Harmless
  <2> QED
    BY <2>1, <2>2, <2>3, <1>c DEF UpToDate
<1>7. ASSUME NEW j \in Jobs, Loaded(j) PROVE Reading' /\ Read' /\ Shown'
  <2>1. /\ jobs[j].at = "answered" /\ jobs[j].op = "refresh" /\ project = jobs[j].project
        /\ jobs' = Gone(j) /\ UNCHANGED <<project, repo, known>>
        /\ data' = IF jobs[j].ok
                   THEN [project |-> project, branches |-> jobs[j].branches, graph |-> jobs[j].graph]
                   ELSE None
    BY <1>7 DEF Loaded
  <2>2. /\ \A i \in Jobs : i # j => jobs'[i] = jobs[i]
        /\ jobs'[j].at = "gone"
    BY <2>1, Goes
  <2>3. data' # None => UpToDate'
    <3>1. CASE jobs[j].ok
      BY <3>1, <2>1, <1>c DEF UpToDate
    <3>2. CASE ~jobs[j].ok
      BY <3>2, <2>1
    <3> QED
      BY <3>1, <3>2
  <2> QED
    BY <2>1, <2>2, <2>3, <1>c
<1>8. ASSUME NEW j \in Jobs, Changed(j) PROVE Reading' /\ Read' /\ Shown'
  <2>1. /\ jobs[j].at = "answered" /\ jobs[j].op # "refresh" /\ project = jobs[j].project
        /\ UNCHANGED <<project, data, repo, known>>
        /\ \/ jobs[j].ok /\ project \in known /\ Start(Gone(j), Behind(j), "refresh", project)
           \/ (~jobs[j].ok \/ project \notin known) /\ jobs' = Gone(j)
    BY <1>8 DEF Changed
  <2>2. /\ \A i \in Jobs : Live(i) /\ jobs[i].project = project => i = j
        /\ \A i \in Jobs : i # j => Gone(j)[i] = jobs[i]
        /\ Gone(j)[j].at = "gone" /\ Gone(j) \in [Jobs -> JobKind] /\ project \in Projects
    BY <2>1, <1>b, TakenAlone
  <2>3. CASE jobs[j].ok /\ project \in known /\ Start(Gone(j), Behind(j), "refresh", project)
    <3> DEFINE n == Behind(j)
    <3>1. "refresh" \in Operations
      BY DEF Operations
    <3>2. Start(Gone(j), n, "refresh", project)
      BY <2>3
    <3> HIDE DEF n
    <3>3. Underway(Gone(j), n, "refresh", project)
      BY <3>1, <3>2, <2>2, Starts
    <3>4. /\ gitOp' = "refresh"
          /\ \A i \in Jobs : i # n => jobs'[i] = Gone(j)[i]
          /\ n \in Jobs => jobs'[n].at = "running" /\ jobs'[n].op = "refresh"
      BY <3>3 DEF Underway
    <3>5. /\ \A i \in Jobs : i # n /\ i # j => jobs'[i] = jobs[i]
          /\ j # n => jobs'[j].at = "gone"
      BY <3>4, <2>2
    <3>6. \A i \in Jobs : jobs'[i].at \in {"reading", "answered"} => i # n /\ i # j /\ jobs'[i] = jobs[i]
      BY <3>4, <3>5
    <3>7. Reading' /\ Read'
      BY <3>6, <2>1, <1>c
    <3>8. ~Untouched'
      BY <3>4, <3>5, <2>1, <2>2 DEF Live, Harmless
    <3> QED
      BY <3>4, <3>7, <3>8
  <2>4. CASE (~jobs[j].ok \/ project \notin known) /\ jobs' = Gone(j)
    <3>1. /\ \A i \in Jobs : i # j => jobs'[i] = jobs[i]
          /\ jobs'[j].at = "gone"
      BY <2>2, <2>4
    <3>2. project \in known => Untouched
      BY <2>1, <2>4 DEF Live, Harmless
    <3> QED
      BY <3>1, <3>2, <2>1, <1>c DEF UpToDate
  <2> QED
    BY <2>1, <2>3, <2>4
<1>9. CASE SpinnerTick \/ TickDropped \/ Dismiss \/ ShowOverlay \/ UNCHANGED gitVars
  BY <1>9, <1>c DEF SpinnerTick, TickDropped, Dismiss, ShowOverlay, gitVars, Live, Harmless, UpToDate
<1> QED
  BY <1>1, <1>2, <1>3, <1>4, <1>5, <1>6, <1>7, <1>8, <1>9
  DEF GitNext, Deliver, Operations

-----------------------------------------------------------------------------
(* The spinner, and the theorem *)

\* Without an overlay of something else, one that shows a failure finds no operation.
SpinInv == gitUsed.overlays = 0 => SpinnerRuns /\ (overlay => gitOp = "")

LEMMA SpinStep ==
  ASSUME GitTypeOK, SpinInv, [GitNext]_gitVars
  PROVE  SpinInv'
<1> DEFINE Turns == gitOp' # "" => spin' > 0
           Clear == overlay' => gitOp' = ""
<1> SUFFICES ASSUME gitUsed'.overlays = 0
             PROVE  Turns /\ Clear
  BY DEF SpinInv, SpinnerRuns
<1>a. gitUsed.overlays = 0
  BY AgainKept
<1>b. gitOp # "" => spin > 0
  BY <1>a DEF SpinInv, SpinnerRuns
<1>c. overlay => gitOp = ""
  BY <1>a DEF SpinInv
<1>d. spin \in Nat
  BY DEF GitTypeOK
<1>e. spin' = spin + 1 => spin' > 0
  BY <1>d
<1>1. ASSUME NEW p \in Projects, Enter(p) PROVE Turns /\ Clear
  <2>1. ~overlay' /\ spin' = spin + 1
    BY <1>1 DEF Enter, StartNext, Start
  <2> QED
    BY ONLY <2>1, <1>e
<1>2. ASSUME NEW op \in Operations, StartGitOp(op) PROVE Turns /\ Clear
  <2>1. ~overlay' /\ spin' = spin + 1
    BY <1>2 DEF StartGitOp, StartNext, Start
  <2> QED
    BY ONLY <2>1, <1>e
<1>3. ASSUME UNCHANGED <<gitOp, spin, overlay>> PROVE Turns /\ Clear
  BY <1>3, <1>b, <1>c
<1>4. ASSUME NEW j \in Jobs, Work(j) \/ Dropped(j) PROVE Turns /\ Clear
  <2>1. UNCHANGED <<gitOp, spin, overlay>>
    BY <1>4 DEF Work, ReadBranches, ReadGraph, NoGraph, FetchOrPull, Fail, Dropped
  <2> QED
    BY <2>1, <1>3
<1>5. ASSUME NEW j \in Jobs, Loaded(j) PROVE Turns /\ Clear
  BY <1>5 DEF Loaded
<1>6. ASSUME NEW j \in Jobs, Changed(j) PROVE Turns /\ Clear
  <2>1. \/ ~overlay' /\ spin' = spin + 1
        \/ gitOp' = ""
    BY <1>6 DEF Changed, Start
  <2> QED
    BY ONLY <2>1, <1>e
<1>7. CASE Back
  BY <1>7 DEF Back
<1>8. CASE SpinnerTick
  <2>1. gitOp # "" => spin' = 1
    BY <1>8 DEF SpinnerTick
  <2>6. spin' = 1 => spin' > 0
    OBVIOUS
  <2>2. gitOp' = gitOp
    BY <1>8 DEF SpinnerTick
  <2>3. overlay' = overlay
    BY <1>8 DEF SpinnerTick
  <2>4. Turns
    BY <2>1, <2>6, <2>2
  <2>5. Clear
    BY <2>2, <2>3, <1>c
  <2> QED
    BY <2>4, <2>5
<1>9. CASE TickDropped
  BY <1>9, <1>c DEF TickDropped
<1>10. ~ShowOverlay
  <2>1. gitUsed.overlays + 1 # 0
    BY <1>a
  <2>2. gitUsed \in UsedKind
    BY DEF GitTypeOK
  <2>3. ShowOverlay => gitUsed'.overlays = gitUsed.overlays + 1
    BY <2>2 DEF ShowOverlay, UsedKind
  <2> QED
    BY <2>1, <2>3
<1>11. CASE Dismiss
  <2>1. ~overlay' /\ UNCHANGED <<gitOp, spin>>
    BY <1>11 DEF Dismiss
  <2> QED
    BY <2>1, <1>b
<1>12. CASE UNCHANGED gitVars
  BY <1>3, <1>12 DEF gitVars
<1>13. ASSUME NEW p \in Projects, Forget(p) PROVE Turns /\ Clear
  BY <1>3, <1>13 DEF Forget
<1> QED
  BY <1>1, <1>2, <1>4, <1>5, <1>6, <1>7, <1>8, <1>9, <1>10, <1>11, <1>12, <1>13
  DEF GitNext, Deliver, Operations

\* Whatever answers come late or in another order, whatever fails, and whatever pages are
\* left: the page is about its project, one command works in a repository whose page is
\* entered once, what is shown is so when none does, and the spinner turns.
THEOREM PageShowsWhatIs == GitSpec => []PageIsTrue
<1>1. GitInit => LiveInv /\ FreshInv /\ SpinInv
  <2> SUFFICES ASSUME GitInit PROVE LiveInv /\ FreshInv /\ SpinInv
    OBVIOUS
  <2>1. \A j \in Jobs : jobs[j].at = "free"
    BY DEF GitInit, NoJob
  <2>2. gitOp = "" /\ data = None /\ overlay = FALSE
    BY DEF GitInit
  <2> QED
    BY <2>1, <2>2 DEF LiveInv, FreshInv, SpinInv, Live, SpinnerRuns
<1>2. GitTypeOK /\ PageInv /\ LiveInv /\ FreshInv /\ SpinInv /\ [GitNext]_gitVars
      => (LiveInv /\ FreshInv /\ SpinInv)'
  BY LiveStep, FreshStep, SpinStep
<1>3. GitTypeOK /\ PageInv /\ LiveInv /\ FreshInv /\ SpinInv => PageIsTrue
  <2> SUFFICES ASSUME GitTypeOK, PageInv, LiveInv, FreshInv, SpinInv PROVE PageIsTrue
    OBVIOUS
  <2>1. DataIsOwn
    BY DEF PageInv
  <2>2. ~gitUsed.again => OneOperation
    BY DEF LiveInv, Live, OneOperation, AtWork
  <2>3. ~gitUsed.again /\ ~gitUsed.halfway => CurrentWhenIdle
    BY DEF FreshInv, CurrentWhenIdle, UpToDate
  <2>4. gitUsed.overlays = 0 => SpinnerRuns
    BY DEF SpinInv
  <2> QED
    BY <2>1, <2>2, <2>3, <2>4 DEF PageIsTrue
<1> QED
  BY <1>1, <1>2, <1>3, GitTyped, PTL DEF GitSpec


-----------------------------------------------------------------------------
(* SessionImport: types and tallies *)

\* Places in a manifest there is.
Placed(k) == k.at # {} => k.of \in Bundles /\ k.at \subseteq DOMAIN Order(k.of)

\* A job is at a place of its bundle or behind the last, and writes what the bundle has.
JobOK(job) == job.pos # 0 /\ job.sel \subseteq Range(Order(job.bundle))

\* What is known of a manifest.
LEMMA ManifestSeq ==
    ASSUME NEW b \in Bundles
    PROVE /\ Order(b) \in Seq(SessionIDs) /\ Len(Order(b)) \in Nat
          /\ DOMAIN Order(b) = 1..Len(Order(b))
          /\ \A n \in DOMAIN Order(b) : Order(b)[n] \in SessionIDs
          /\ \A m, n \in DOMAIN Order(b) : Order(b)[m] = Order(b)[n] => m = n
          /\ Range(Order(b)) \subseteq SessionIDs
          /\ Range(Order(b)) = {Order(b)[n] : n \in 1..Len(Order(b))}
          /\ Manifest[b].memory \in BOOLEAN
<1>1. Order(b) \in Seq(SessionIDs) /\ Manifest[b].memory \in BOOLEAN
  BY ImportAssumption DEF Order
<1>2. \A m, n \in DOMAIN Order(b) : Order(b)[m] = Order(b)[n] => m = n
  BY ImportAssumption DEF Order, IsInjective
<1> QED
  BY <1>1, <1>2 DEF Range

\* The kinds of items by what they do.
LEMMA ItemKinds ==
    ASSUME NEW item \in Item
    PROVE /\ item.op = "unpack" => item \in Job
          /\ item.op = "load" => item.bundle \in Bundles
          /\ item.op = "loaded" => item.bundle \in Bundles /\ item.ok \in BOOLEAN
          /\ item.op = "detect" =>
                 item.dest \in Dests /\ item.ids \in Places /\ item.memory \in BOOLEAN
          /\ item.op = "collisions" => item.ids \in Places /\ item.memory \in BOOLEAN
          /\ item.op = "completed" => item.ok \in BOOLEAN
BY DEF Item, Job, Idle

\* The tallies of a job.
Before(job) == {n \in 1..(job.pos - 1) : Order(job.bundle)[n] \in job.sel}
ToDo(job) == {n \in job.pos..Len(Order(job.bundle)) : Order(job.bundle)[n] \in job.sel}
Tally(job) ==
    /\ job.written + job.skipped = Cardinality(Before(job))
    /\ CancelledCount(job) = Cardinality(ToDo(job))

\* Both parts are finite.
LEMMA PartsFinite ==
    ASSUME NEW job \in Job
    PROVE /\ IsFiniteSet(Before(job)) /\ Cardinality(Before(job)) \in Nat
          /\ IsFiniteSet(ToDo(job)) /\ Cardinality(ToDo(job)) \in Nat
<1>1. job.bundle \in Bundles /\ job.pos \in Nat
  BY DEF Job
<1>2. Len(Order(job.bundle)) \in Nat
  BY <1>1, ManifestSeq
<1>3. IsFiniteSet(1..(job.pos - 1)) /\ IsFiniteSet(job.pos..Len(Order(job.bundle)))
  <2>1. job.pos - 1 \in Int /\ job.pos \in Int /\ 1 \in Int /\ Len(Order(job.bundle)) \in Int
    BY <1>1, <1>2
  <2> QED
    BY <2>1, FS_Interval
<1>4. Before(job) \subseteq 1..(job.pos - 1) /\ ToDo(job) \subseteq job.pos..Len(Order(job.bundle))
  BY DEF Before, ToDo
<1>5. IsFiniteSet(Before(job)) /\ IsFiniteSet(ToDo(job))
  BY <1>3, <1>4, FS_Subset
<1> QED
  BY <1>5, FS_CardinalityType

\* A job that is begun.
LEMMA TallyBegins ==
    ASSUME NEW job \in Job, job.pos = 1, job.written = 0, job.skipped = 0,
           job.sel \subseteq Range(Order(job.bundle))
    PROVE Tally(job)
<1> DEFINE b == job.bundle
           F == [n \in ToDo(job) |-> Order(b)[n]]
<1>1. b \in Bundles
  BY DEF Job
<1>2. Before(job) = {}
  BY DEF Before
<1>3. ToDo(job) = {n \in DOMAIN Order(b) : Order(b)[n] \in job.sel}
  BY <1>1, ManifestSeq DEF ToDo
<1>4. ExistsBijection(ToDo(job), job.sel)
  <2>1. F \in Bijection(ToDo(job), job.sel)
    <3>1. F \in [ToDo(job) -> job.sel]
      BY <1>3
    <3>2. \A m, n \in ToDo(job) : F[m] = F[n] => m = n
      BY <1>1, <1>3, ManifestSeq
    <3>3. \A s \in job.sel : \E n \in ToDo(job) : F[n] = s
      BY <1>1, <1>3, ManifestSeq
    <3> QED
      BY <3>1, <3>2, <3>3 DEF Bijection, Injection, Surjection, IsInjective
  <2> QED
    BY <2>1 DEF ExistsBijection
<1>5. IsFiniteSet(ToDo(job))
  BY PartsFinite
<1>6. Cardinality(job.sel) = Cardinality(ToDo(job))
  BY <1>4, <1>5, FS_Bijection
<1>7. Cardinality(ToDo(job)) \in Nat
  BY PartsFinite
<1> QED
  BY <1>2, <1>6, <1>7, FS_EmptySet DEF Tally, CancelledCount

\* What a job writes is finite.
LEMMA SelectionFinite ==
    ASSUME NEW job \in Job, job.sel \subseteq Range(Order(job.bundle))
    PROVE Cardinality(job.sel) \in Nat
<1> DEFINE o == Order(job.bundle)
           S == {n \in DOMAIN o : o[n] \in job.sel}
           F == [n \in S |-> o[n]]
<1>1. job.bundle \in Bundles
  BY DEF Job
<1>2. IsFiniteSet(S)
  <2>1. IsFiniteSet(1..Len(o))
    BY <1>1, ManifestSeq, FS_Interval
  <2> QED
    BY <2>1, <1>1, ManifestSeq, FS_Subset
<1>3. F \in Surjection(S, job.sel)
  <2>1. \A s \in job.sel : \E n \in S : o[n] = s
    BY DEF Range
  <2> QED
    BY <2>1 DEF Surjection
<1>4. IsFiniteSet(job.sel)
  BY <1>2, <1>3, FS_Surjection
<1> QED
  BY <1>4, FS_CardinalityType

\* Written or skipped is not cancelled.
LEMMA TallyDiffers ==
    ASSUME NEW job, NEW after, job.written \in Nat, job.skipped \in Nat,
           after.written \in Nat, after.skipped \in Nat,
           Cardinality(job.sel) \in Nat, Cardinality(ToDo(job)) \in Nat,
           Cardinality(job.sel) - job.written - job.skipped = Cardinality(ToDo(job))
    PROVE /\ after.written + after.skipped = job.written + job.skipped =>
              Cardinality(job.sel) - after.written - after.skipped = Cardinality(ToDo(job))
          /\ after.written + after.skipped = job.written + job.skipped + 1 =>
              Cardinality(job.sel) - after.written - after.skipped = Cardinality(ToDo(job)) - 1
OBVIOUS

\* A job that goes on by one place, with what it did there.
LEMMA TallyMoves ==
    ASSUME NEW job \in Job, NEW after \in Job, Tally(job), JobOK(job),
           job.pos <= Len(Order(job.bundle)),
           after.bundle = job.bundle, after.sel = job.sel, after.pos = job.pos + 1,
           IF Order(job.bundle)[job.pos] \in job.sel
           THEN after.written + after.skipped = job.written + job.skipped + 1
           ELSE after.written + after.skipped = job.written + job.skipped
    PROVE Tally(after)
<1> DEFINE p == job.pos
<1>1. job.bundle \in Bundles /\ p \in Nat /\ after.written \in Nat /\ after.skipped \in Nat
      /\ job.written \in Nat /\ job.skipped \in Nat
  BY DEF Job
<1>2. Len(Order(job.bundle)) \in Nat
  BY <1>1, ManifestSeq
<1>3. Cardinality(job.sel) \in Nat /\ p # 0
  BY SelectionFinite DEF JobOK
<1>4. /\ job.written + job.skipped = Cardinality(Before(job))
      /\ Cardinality(job.sel) - job.written - job.skipped = Cardinality(ToDo(job))
  BY DEF Tally, CancelledCount
<1>5. IsFiniteSet(Before(job)) /\ IsFiniteSet(ToDo(job))
      /\ Cardinality(Before(job)) \in Nat /\ Cardinality(ToDo(job)) \in Nat
  BY PartsFinite
<1>6. CASE Order(job.bundle)[p] \in job.sel
  <2>1. Before(after) = Before(job) \cup {p} /\ p \notin Before(job)
    BY <1>1, <1>2, <1>3, <1>6 DEF Before
  <2>2. ToDo(after) = ToDo(job) \ {p} /\ p \in ToDo(job)
    BY <1>1, <1>2, <1>3, <1>6 DEF ToDo
  <2>3. Cardinality(Before(after)) = Cardinality(Before(job)) + 1
    BY <2>1, <1>5, FS_AddElement
  <2>4. Cardinality(ToDo(after)) = Cardinality(ToDo(job)) - 1
    BY <2>2, <1>5, FS_RemoveElement
  <2>5. after.written + after.skipped = job.written + job.skipped + 1
    BY <1>6
  <2>6. Cardinality(job.sel) - after.written - after.skipped = Cardinality(ToDo(job)) - 1
    BY <2>5, <1>1, <1>3, <1>4, <1>5, TallyDiffers, Zenon
  <2>7. CancelledCount(after) = Cardinality(ToDo(after))
    BY <2>4, <2>6 DEF CancelledCount
  <2> QED
    BY <2>3, <2>5, <2>7, <1>4 DEF Tally
<1>7. CASE Order(job.bundle)[p] \notin job.sel
  <2>1. Before(after) = Before(job)
    BY <1>1, <1>2, <1>3, <1>7 DEF Before
  <2>2. ToDo(after) = ToDo(job)
    BY <1>1, <1>2, <1>3, <1>7 DEF ToDo
  <2>3. after.written + after.skipped = job.written + job.skipped
    BY <1>7
  <2>4. Cardinality(job.sel) - after.written - after.skipped = Cardinality(ToDo(job))
    BY <2>3, <1>1, <1>3, <1>4, <1>5, TallyDiffers, Zenon
  <2>5. CancelledCount(after) = Cardinality(ToDo(after))
    BY <2>2, <2>4 DEF CancelledCount
  <2> QED
    BY <2>1, <2>3, <2>5, <1>4 DEF Tally
<1> QED
  BY <1>6, <1>7

-----------------------------------------------------------------------------
(* What holds of every import *)

\* An item names places of its bundle, and the tallies of a job add up.
ItemOK(item) ==
    /\ item.op = "unpack" => JobOK(item) /\ Tally(item)
    /\ item.op \in {"detect", "collisions"} => Placed(item.ids)

\* Who asks for collisions, or is asked about them, has named a destination.
DestKnown ==
    \/ dest \in Dests
    \/ /\ ~Asking /\ step # 3
       /\ \A w \in Works : work[w].op \notin {"detect", "collisions"}

ImportInv ==
    /\ ImportTypeOK
    /\ Placed(queue)
    /\ DestKnown
    /\ \A w \in Works : ItemOK(work[w])

\* It holds of a dashboard that was just started.
LEMMA ImportInvInit == ImportInit => ImportInv
<1> SUFFICES ASSUME ImportInit PROVE ImportInv
  OBVIOUS
<1>1. ImportTypeOK
  <2>1. queue \in Places /\ work \in [Works -> Item]
    BY DEF ImportInit, Nowhere, Places, Item
  <2>2. decisions \in [SessionIDs -> Decision \cup {"none"}] /\ memDecision \in Decision
    BY DEF ImportInit, NoDecisions, Decision
  <2>3. /\ files \in [Dests -> [SessionIDs -> Bundles \cup {"absent", "local", "torn"}]]
        /\ memories \in [Dests -> SUBSET (Bundles \cup {"local"})]
    <3>1. {{}, {"local"}} \subseteq SUBSET (Bundles \cup {"local"})
      OBVIOUS
    <3> QED
      BY <3>1 DEF ImportInit
  <2>4. mishaps \subseteq {"hasty", "fault", "agent"}
    BY DEF ImportInit
  <2>5. {inHistory, flow, focused, memAsk} \subseteq BOOLEAN
    BY DEF ImportInit
  <2>6. /\ step \in 0..5 /\ {path, bundle} \subseteq Bundles \cup {"none"} /\ dest \in Dests \cup {"none"}
        /\ sel \subseteq SessionIDs /\ {wizards, faults, appeared} \subseteq Nat
    BY DEF ImportInit
  <2>7. agreed \subseteq Dests \X Bundles \X SessionIDs /\ unasked \subseteq Dests \X SessionIDs
    BY DEF ImportInit
  <2> QED
    BY <2>1, <2>2, <2>3, <2>4, <2>5, <2>6, <2>7 DEF ImportTypeOK
<1>2. Placed(queue) /\ ~Asking /\ step # 3
  BY DEF ImportInit, Placed, Nowhere, Asking
<1>3. \A w \in Works : work[w].op = "idle"
  BY DEF ImportInit, Idle
<1> QED
  BY <1>1, <1>2, <1>3 DEF ImportInv, DestKnown, ItemOK

\* The items stay so when one of them is replaced, or two.
LEMMA ItemReplaced ==
    ASSUME ImportInv, NEW w \in Works, NEW item \in Item, ItemOK(item),
           work' = [work EXCEPT ![w] = item]
    PROVE /\ work' \in [Works -> Item]
          /\ \A v \in Works : ItemOK(work'[v])
          /\ /\ \A v \in Works : work[v].op \notin {"detect", "collisions"}
             /\ item.op \notin {"detect", "collisions"}
             => \A v \in Works : work'[v].op \notin {"detect", "collisions"}
BY DEF ImportInv, ImportTypeOK

\* The job that is begun with what the wizard holds.
NewJob(decided, memDecided) ==
    [op |-> "unpack", bundle |-> bundle, dest |-> dest,
     sel |-> sel \cap Range(Order(bundle)),
     decisions |-> decided, memDecision |-> memDecided,
     pos |-> 1, written |-> 0, skipped |-> 0, cancelled |-> FALSE]

\* It is a job, and its tallies begin right.
LEMMA NewJobOK ==
    ASSUME ImportInv, bundle # "none", dest \in Dests,
           NEW decided \in [SessionIDs -> Decision \cup {"none"}], NEW memDecided \in Decision
    PROVE NewJob(decided, memDecided) \in Job /\ ItemOK(NewJob(decided, memDecided))
<1> DEFINE job == NewJob(decided, memDecided)
<1>1. bundle \in Bundles /\ sel \subseteq SessionIDs
  BY DEF ImportInv, ImportTypeOK
<1>2. job \in Job
  BY <1>1 DEF NewJob, Job
<1>3. /\ job.op = "unpack" /\ job.bundle = bundle /\ job.sel = sel \cap Range(Order(bundle))
      /\ job.pos = 1 /\ job.written = 0 /\ job.skipped = 0
  BY DEF NewJob
<1>4. JobOK(job)
  BY <1>3 DEF JobOK
<1>5. Tally(job)
  BY <1>2, <1>3, TallyBegins
<1> QED
  BY <1>2, <1>3, <1>4, <1>5 DEF ItemOK

\* The second pass.
LEMMA Pass2Keeps ==
    ASSUME ImportInv, dest \in Dests, NEW nextQueue \in Places, Placed(nextQueue),
           NEW nextAsk \in BOOLEAN,
           NEW decided \in [SessionIDs -> Decision \cup {"none"}], NEW memDecided \in Decision,
           NEW started \in [Works -> Item], \A v \in Works : ItemOK(started[v]),
           RunPass2(decided, memDecided, nextQueue, nextAsk, started)
    PROVE /\ work' \in [Works -> Item] /\ \A v \in Works : ItemOK(work'[v])
          /\ queue' \in Places /\ Placed(queue') /\ memAsk' \in BOOLEAN /\ step' \in 0..5
<1>1. CASE bundle = "none"
  BY <1>1 DEF RunPass2, ImportInv, ImportTypeOK
<1>2. CASE bundle # "none"
  <2>1. PICK w \in Works : work' = [started EXCEPT ![w] = NewJob(decided, memDecided)]
    BY <1>2 DEF RunPass2, NewJob
  <2>2. NewJob(decided, memDecided) \in Job /\ ItemOK(NewJob(decided, memDecided))
    BY <1>2, NewJobOK
  <2>3. NewJob(decided, memDecided) \in Item
    BY <2>2 DEF Item
  <2>4. queue' = Nowhere /\ memAsk' = FALSE /\ step' = 4
    BY <1>2 DEF RunPass2
  <2>5. Nowhere \in Places /\ Placed(Nowhere)
    BY DEF Nowhere, Places, Placed
  <2>6. work' \in [Works -> Item] /\ \A v \in Works : ItemOK(work'[v])
    BY <2>1, <2>2, <2>3
  <2>7. queue' \in Places /\ Placed(queue')
    BY <2>4, <2>5
  <2>8. memAsk' \in BOOLEAN
    BY <2>4
  <2>9. step' \in 0..5
    BY <2>4
  <2> QED
    BY <2>6, <2>7, <2>8, <2>9
<1> QED
  BY <1>1, <1>2

\* The keys of the wizard.
LEMMA WizardKeysKeep ==
    ASSUME ImportInv,
           \/ BeginImport \/ ToggleAll \/ EnterSelection \/ Confirm \/ Leave
           \/ ShowProjects \/ ShowHistory
           \/ \E b \in Bundles : EnterPath(b)
           \/ \E s \in SessionIDs : Toggle(s)
           \/ \E d \in Dests : EnterDest(d)
    PROVE ImportInv'
<1> USE DEF ImportInv, ImportTypeOK, wizardVars, askVars, diskVars, boundVars
<1>1. CASE BeginImport
  BY <1>1 DEF BeginImport, DestKnown, Asking, ItemOK, Placed
<1>2. CASE ToggleAll
  <2>1. Range(Order(bundle)) \subseteq SessionIDs
    BY <1>2, ManifestSeq DEF ToggleAll
  <2>2. sel' \subseteq SessionIDs
    BY <1>2, <2>1 DEF ToggleAll
  <2> QED
    BY <1>2, <2>2 DEF ToggleAll, DestKnown, Asking
<1>3. CASE EnterSelection
  BY <1>3 DEF EnterSelection, DestKnown, Asking
<1>4. CASE Confirm
  <2> DEFINE item == [op |-> "detect", dest |-> dest,
                      ids |-> IF bundle = "none" THEN Nowhere ELSE Selected(bundle, sel),
                      memory |-> bundle # "none" /\ Manifest[bundle].memory]
  <2>1. dest \in Dests /\ step = 3 /\ ~Asking
    BY <1>4 DEF Confirm, InWizard, DestKnown
  <2>2. item.ids \in Places /\ Placed(item.ids)
    <3>1. CASE bundle = "none"
      BY <3>1 DEF Nowhere, Places, Placed
    <3>2. CASE bundle # "none"
      <4>1. bundle \in Bundles
        BY <3>2
      <4>2. DOMAIN Order(bundle) \subseteq Nat
        BY <4>1, ManifestSeq
      <4> QED
        BY <3>2, <4>1, <4>2 DEF Selected, Places, Placed
    <3> QED
      BY <3>1, <3>2
  <2>3. item.memory \in BOOLEAN
    BY ManifestSeq
  <2>4. item \in Item
    BY <2>1, <2>2, <2>3 DEF Item
  <2>5. ItemOK(item)
    BY <2>2 DEF ItemOK
  <2>6. PICK w \in Works : work' = [work EXCEPT ![w] = item]
    BY <1>4 DEF Confirm, StartCmd
  <2>7. work' \in [Works -> Item] /\ \A v \in Works : ItemOK(work'[v])
    BY <2>4, <2>5, <2>6
  <2> QED
    BY <1>4, <2>1, <2>7 DEF Confirm, DestKnown
<1>5. CASE Leave
  <2>1. NoDecisions \in [SessionIDs -> Decision \cup {"none"}]
    BY DEF NoDecisions
  <2>2. {flow', focused'} \subseteq BOOLEAN /\ step' = 0 /\ bundle' = "none" /\ sel' = {}
        /\ decisions' = NoDecisions
    BY <1>5 DEF Leave, ResetWizard
  <2>3. DestKnown'
    BY <1>5, <2>2 DEF Leave, ResetWizard, DestKnown, Asking
  <2> QED
    BY <1>5, <2>1, <2>2, <2>3 DEF Leave, ResetWizard
<1>6. CASE ShowProjects
  BY <1>6 DEF ShowProjects, DestKnown, Asking
<1>7. CASE ShowHistory
  <2>1. {inHistory', flow'} \subseteq BOOLEAN /\ step' = 0
    BY <1>7 DEF ShowHistory
  <2>2. DestKnown'
    BY <1>7 DEF ShowHistory, DestKnown, Asking
  <2> QED
    BY <1>7, <2>1, <2>2 DEF ShowHistory
<1>8. ASSUME NEW b \in Bundles, EnterPath(b) PROVE ImportInv'
  <2> DEFINE item == [op |-> "load", bundle |-> b]
  <2>1. item \in Item /\ ItemOK(item)
    BY DEF Item, ItemOK
  <2>2. PICK w \in Works : work' = [work EXCEPT ![w] = item]
    BY <1>8 DEF EnterPath, StartCmd
  <2>3. work' \in [Works -> Item] /\ \A v \in Works : ItemOK(work'[v])
    BY <2>1, <2>2
  <2>4. DestKnown'
    BY <1>8, <2>2 DEF EnterPath, DestKnown, Asking
  <2> QED
    BY <1>8, <2>3, <2>4 DEF EnterPath
<1>9. ASSUME NEW s \in SessionIDs, Toggle(s) PROVE ImportInv'
  BY <1>9 DEF Toggle, DestKnown, Asking
<1>10. ASSUME NEW d \in Dests, EnterDest(d) PROVE ImportInv'
  BY <1>10 DEF EnterDest, DestKnown
<1> QED
  BY <1>1, <1>2, <1>3, <1>4, <1>5, <1>6, <1>7, <1>8, <1>9, <1>10

\* The answers to the prompts.
LEMMA AnswersKeep ==
    ASSUME ImportInv, NEW d \in Decision, AnswerSession(d) \/ AnswerMemory(d)
    PROVE ImportInv'
<1> USE DEF ImportInv, ImportTypeOK
<1>0. dest \in Dests
  BY DEF DestKnown, Asking, AnswerSession, AnswerMemory
<1>1. CASE AnswerSession(d)
  <2>1. PICK n \in queue.at :
           LET s == Order(queue.of)[n]
               decided == Decided(s, d)
               rest == [queue EXCEPT !.at = @ \ {n}]
           IN /\ decisions' = decided
              /\ agreed' = IF bundle = "none" THEN agreed
                           ELSE IF d = "overwrite" THEN agreed \cup {<<dest, bundle, s>>}
                           ELSE agreed \ {<<dest, bundle, s>>}
              /\ IF d = "cancel"
                 THEN RunPass2(decided, memDecision, queue, memAsk, work)
                 ELSE IF Answered(rest)
                 THEN RunPass2(decided, memDecision, rest, memAsk, work)
                 ELSE queue' = rest /\ UNCHANGED <<memAsk, step, work>>
    BY <1>1 DEF AnswerSession
  <2> DEFINE s == Order(queue.of)[n]
             rest == [queue EXCEPT !.at = @ \ {n}]
  <2>2. s \in SessionIDs
    BY ManifestSeq DEF Placed
  <2>3. rest \in Places /\ Placed(rest)
    BY DEF Places, Placed
  <2>4. Decided(s, d) \in [SessionIDs -> Decision \cup {"none"}]
    BY <2>2 DEF Decided
  <2>5. agreed' \subseteq Dests \X Bundles \X SessionIDs
    BY <1>0, <2>1, <2>2
  <2>6. /\ work' \in [Works -> Item] /\ \A v \in Works : ItemOK(work'[v])
        /\ queue' \in Places /\ Placed(queue') /\ memAsk' \in BOOLEAN /\ step' \in 0..5
    <3>1. CASE RunPass2(Decided(s, d), memDecision, queue, memAsk, work)
      BY <1>0, <2>4, <3>1, Pass2Keeps
    <3>2. CASE RunPass2(Decided(s, d), memDecision, rest, memAsk, work)
      BY <1>0, <2>3, <2>4, <3>2, Pass2Keeps
    <3>3. CASE queue' = rest /\ UNCHANGED <<memAsk, step, work>>
      BY <2>3, <3>3
    <3> QED
      BY <2>1, <3>1, <3>2, <3>3
  <2>7. UNCHANGED <<inHistory, flow, focused, path, bundle, sel, dest, memDecision,
                    diskVars, boundVars>> /\ decisions' = Decided(s, d)
    BY <1>1, <2>1 DEF AnswerSession
  <2> QED
    BY <1>0, <2>4, <2>5, <2>6, <2>7 DEF DestKnown, diskVars, boundVars
<1>2. CASE AnswerMemory(d)
  <2>1. /\ RunPass2(decisions, d, queue, FALSE, work) /\ memDecision' = d
        /\ UNCHANGED <<inHistory, flow, focused, path, bundle, sel, dest, decisions,
                       agreed, diskVars, boundVars>>
    BY <1>2 DEF AnswerMemory
  <2>2. /\ work' \in [Works -> Item] /\ \A v \in Works : ItemOK(work'[v])
        /\ queue' \in Places /\ Placed(queue') /\ memAsk' \in BOOLEAN /\ step' \in 0..5
    BY <1>0, <2>1, Pass2Keeps
  <2> QED
    BY <1>0, <2>1, <2>2 DEF DestKnown, diskVars, boundVars
<1> QED
  BY <1>1, <1>2

\* A command that ends, a message that is handled.
LEMMA CommandsKeep ==
    ASSUME ImportInv, NEW w \in Works,
           \/ LoadManifest(w) \/ ManifestLoaded(w) \/ DetectCollisions(w)
           \/ HandleCollisions(w) \/ HandleCompleted(w)
    PROVE ImportInv'
<1> USE DEF ImportInv, ImportTypeOK
<1>0. work[w] \in Item /\ ItemOK(work[w]) /\ Idle \in Item /\ ItemOK(Idle)
  BY DEF Item, Idle, ItemOK
<1>1. CASE LoadManifest(w)
  <2>1. PICK ok \in BOOLEAN :
           /\ faults' = IF ok THEN faults ELSE faults + 1
           /\ work' = [work EXCEPT ![w] = [op |-> "loaded", bundle |-> work[w].bundle, ok |-> ok]]
    BY <1>1 DEF LoadManifest, Finish
  <2> DEFINE item == [op |-> "loaded", bundle |-> work[w].bundle, ok |-> ok]
  <2>2. item \in Item /\ ItemOK(item)
    BY <1>0, <1>1, ItemKinds DEF LoadManifest, Item, ItemOK
  <2>3. DestKnown'
    BY <1>1, <2>1 DEF LoadManifest, DestKnown, Asking, askVars, wizardVars
  <2> QED
    BY <1>1, <2>1, <2>2, <2>3 DEF LoadManifest, askVars, wizardVars, diskVars
<1>2. CASE ManifestLoaded(w)
  <2>1. work[w].bundle \in Bundles /\ work[w].ok \in BOOLEAN
    BY <1>0, <1>2, ItemKinds DEF ManifestLoaded
  <2>2. work' = [work EXCEPT ![w] = Idle]
    BY <1>2 DEF ManifestLoaded, Done
  <2>3. bundle' \in Bundles \cup {"none"} /\ sel' \subseteq SessionIDs /\ step' \in {0, 1}
    <3>1. Range(Order(work[w].bundle)) \subseteq SessionIDs
      BY <2>1, ManifestSeq
    <3> QED
      BY <1>2, <2>1, <3>1 DEF ManifestLoaded
  <2>4. DestKnown'
    BY <1>2, <2>2, <2>3 DEF ManifestLoaded, DestKnown, Asking, askVars, Idle
  <2> QED
    BY <1>0, <1>2, <2>2, <2>3, <2>4 DEF ManifestLoaded, askVars, diskVars, boundVars
<1>3. CASE DetectCollisions(w)
  <2> DEFINE d == work[w].dest
             item == [op |-> "collisions", ids |-> Colliding(d, work[w].ids),
                      memory |-> work[w].memory /\ memories[d] # {}]
  <2>1. d \in Dests /\ work[w].ids \in Places /\ work[w].memory \in BOOLEAN /\ Placed(work[w].ids)
    BY <1>0, <1>3, ItemKinds DEF DetectCollisions, ItemOK
  <2>2. item.ids \in Places /\ Placed(item.ids)
    BY <2>1 DEF Colliding, Places, Placed
  <2>3. item \in Item /\ ItemOK(item)
    BY <2>1, <2>2 DEF Item, ItemOK
  <2>4. work' = [work EXCEPT ![w] = item]
    BY <1>3 DEF DetectCollisions, Finish
  <2>5. DestKnown'
    BY <1>3, <2>4 DEF DetectCollisions, DestKnown, Asking, askVars, wizardVars
  <2> QED
    BY <1>3, <2>3, <2>4, <2>5 DEF DetectCollisions, askVars, wizardVars, diskVars, boundVars
<1>4. CASE HandleCollisions(w)
  <2>1. /\ dest \in Dests /\ work[w].ids \in Places /\ work[w].memory \in BOOLEAN
        /\ Placed(work[w].ids)
    BY <1>0, <1>4, ItemKinds DEF HandleCollisions, ItemOK, DestKnown
  <2>2. Done(w) \in [Works -> Item] /\ \A v \in Works : ItemOK(Done(w)[v])
    BY <1>0 DEF Done
  <2>3. /\ work' \in [Works -> Item] /\ \A v \in Works : ItemOK(work'[v])
        /\ queue' \in Places /\ Placed(queue') /\ memAsk' \in BOOLEAN /\ step' \in 0..5
    <3>1. CASE work[w].ids.at = {} /\ ~work[w].memory
      <4>1. RunPass2(decisions, memDecision, work[w].ids, FALSE, Done(w))
        BY <1>4, <3>1 DEF HandleCollisions
      <4> QED
        BY <2>1, <2>2, <4>1, Pass2Keeps
    <3>2. CASE ~(work[w].ids.at = {} /\ ~work[w].memory)
      BY <1>4, <2>1, <2>2, <3>2 DEF HandleCollisions
    <3> QED
      BY <3>1, <3>2
  <2> QED
    BY <1>4, <2>1, <2>3 DEF HandleCollisions, DestKnown, diskVars, boundVars
<1>5. CASE HandleCompleted(w)
  <2>1. work' = [work EXCEPT ![w] = Idle] /\ step' \in {0, 5}
    BY <1>5 DEF HandleCompleted, Done, AfterImport
  <2>2. DestKnown'
    BY <1>5, <2>1 DEF HandleCompleted, DestKnown, Asking, askVars, Idle
  <2> QED
    BY <1>0, <1>5, <2>1, <2>2 DEF HandleCompleted, askVars, diskVars, boundVars
<1> QED
  BY <1>1, <1>2, <1>3, <1>4, <1>5

\* The session a job is at.
LEMMA AtPlace ==
    ASSUME ImportInv, NEW w \in Works, Unpacking(w)
    PROVE /\ work[w] \in Job /\ JobOK(work[w]) /\ Tally(work[w])
          /\ work[w].bundle \in Bundles /\ work[w].dest \in Dests /\ work[w].pos \in Nat \ {0}
          /\ work[w].decisions \in [SessionIDs -> Decision \cup {"none"}]
          /\ AtSession(w) => /\ work[w].pos \in DOMAIN Order(work[w].bundle)
                             /\ work[w].pos <= Len(Order(work[w].bundle))
                             /\ Current(w) \in SessionIDs
<1>1. work[w] \in Job /\ JobOK(work[w]) /\ Tally(work[w])
  BY ItemKinds DEF ImportInv, ImportTypeOK, ItemOK, Unpacking
<1>2. /\ work[w].bundle \in Bundles /\ work[w].dest \in Dests /\ work[w].pos \in Nat \ {0}
      /\ work[w].decisions \in [SessionIDs -> Decision \cup {"none"}]
  BY <1>1 DEF Job, JobOK
<1> QED
  BY <1>1, <1>2, ManifestSeq DEF AtSession, Current

\* A job that goes on, with the fields that it changes.
LEMMA UnpackMoves ==
    ASSUME ImportInv, NEW w \in Works, AtSession(w), NEW after \in Job,
           after.bundle = work[w].bundle, after.sel = work[w].sel,
           after.pos = work[w].pos + 1,
           IF Current(w) \in work[w].sel
           THEN after.written + after.skipped = work[w].written + work[w].skipped + 1
           ELSE after.written + after.skipped = work[w].written + work[w].skipped
    PROVE ItemOK(after)
<1>1. Unpacking(w)
  BY DEF AtSession
<1>2. /\ work[w] \in Job /\ JobOK(work[w]) /\ Tally(work[w])
      /\ work[w].pos \in Nat \ {0} /\ work[w].pos <= Len(Order(work[w].bundle))
  BY <1>1, AtPlace
<1>3. Tally(after)
  BY <1>2, TallyMoves DEF Current
<1>4. JobOK(after)
  BY <1>2 DEF JobOK
<1>5. after.op = "unpack"
  BY DEF Job
<1> QED
  BY <1>3, <1>4, <1>5 DEF ItemOK

\* The steps of Unpack.
LEMMA UnpackKeeps ==
    ASSUME ImportInv, NEW w \in Works,
           \/ PassOver(w) \/ WriteSession(w) \/ SkipSession(w) \/ CancelRest(w)
           \/ UnpackFails(w) \/ FinishUnpack(w)
    PROVE ImportInv'
<1> USE DEF ImportInv, ImportTypeOK
<1> DEFINE job == work[w]
<1>0. Unpacking(w)
  BY DEF PassOver, WriteSession, SkipSession, CancelRest, UnpackFails, FinishUnpack, AtSession
<1>1. /\ job \in Job /\ JobOK(job) /\ Tally(job) /\ job.bundle \in Bundles /\ job.dest \in Dests
      /\ job.written \in Nat /\ job.skipped \in Nat /\ job.op = "unpack"
      /\ AtSession(w) => Current(w) \in SessionIDs
  BY <1>0, AtPlace DEF Job
<1>2. Job \subseteq Item
  BY DEF Item
<1>3. ASSUME NEW item \in Item, ItemOK(item), item.op \notin {"detect", "collisions"},
             work' = [work EXCEPT ![w] = item],
             UNCHANGED <<inHistory, wizardVars, askVars, mishaps, wizards, appeared>>,
             files' \in [Dests -> [SessionIDs -> Bundles \cup {"absent", "local", "torn"}]],
             memories' \in [Dests -> SUBSET (Bundles \cup {"local"})],
             unasked' \subseteq Dests \X SessionIDs, faults' \in Nat
      PROVE ImportInv'
  <2>1. DestKnown'
    BY <1>3 DEF DestKnown, Asking, askVars, wizardVars
  <2> QED
    BY <1>3, <2>1 DEF askVars, wizardVars
<1>4. ASSUME NEW content \in Bundles \cup {"torn"}, AtSession(w), Put(w, Current(w), content)
      PROVE /\ files' \in [Dests -> [SessionIDs -> Bundles \cup {"absent", "local", "torn"}]]
            /\ memories' \in [Dests -> SUBSET (Bundles \cup {"local"})]
            /\ unasked' \subseteq Dests \X SessionIDs
  <2>1. Current(w) \in SessionIDs
    BY <1>1, <1>4
  <2>2. files' = [files EXCEPT ![job.dest][Current(w)] = content] /\ memories' = memories
    BY <1>4 DEF Put
  <2>3. unasked' \subseteq unasked \cup {<<job.dest, Current(w)>>}
    BY <1>4 DEF Put
  <2> QED
    BY <1>1, <2>1, <2>2, <2>3
<1>5. CASE PassOver(w)
  <2> DEFINE after == [job EXCEPT !.pos = @ + 1]
  <2>1. after \in Job
    BY <1>1 DEF Job
  <2>2. ItemOK(after)
    BY <1>1, <1>5, <2>1, UnpackMoves DEF PassOver, Job
  <2>3. after.op = "unpack"
    BY <2>1 DEF Job
  <2> QED
    BY <1>2, <1>3, <1>5, <2>1, <2>2, <2>3 DEF PassOver, Finish, diskVars, boundVars
<1>6. CASE WriteSession(w)
  <2> DEFINE after == [job EXCEPT !.pos = @ + 1, !.written = @ + 1]
  <2>0. /\ job.pos \in Nat /\ job.pos + 1 \in Nat /\ job.written + 1 \in Nat
        /\ job.written \in Nat /\ job.skipped \in Nat
    BY <1>1 DEF Job
  <2>1. after \in Job
    BY <1>1, <2>0 DEF Job
  <2>2. ItemOK(after)
    <3>1. /\ after.bundle = job.bundle /\ after.sel = job.sel /\ after.pos = job.pos + 1
          /\ after.written = job.written + 1 /\ after.skipped = job.skipped
      BY <1>1 DEF Job
    <3>2. after.written + after.skipped = job.written + job.skipped + 1
      BY <2>0, <3>1
    <3> QED
      BY <1>6, <2>1, <3>1, <3>2, UnpackMoves DEF WriteSession
  <2>3. after.op = "unpack"
    BY <2>1 DEF Job
  <2>4. AtSession(w) /\ Put(w, Current(w), job.bundle) /\ work' = [work EXCEPT ![w] = after]
        /\ UNCHANGED <<inHistory, wizardVars, askVars, boundVars>>
    BY <1>6 DEF WriteSession, Finish
  <2>5. /\ files' \in [Dests -> [SessionIDs -> Bundles \cup {"absent", "local", "torn"}]]
        /\ memories' \in [Dests -> SUBSET (Bundles \cup {"local"})]
        /\ unasked' \subseteq Dests \X SessionIDs
    BY <1>1, <1>4, <2>4
  <2> QED
    BY <1>2, <1>3, <2>1, <2>2, <2>3, <2>4, <2>5 DEF boundVars
<1>7. CASE SkipSession(w)
  <2> DEFINE after == [job EXCEPT !.pos = @ + 1, !.skipped = @ + 1]
  <2>0. /\ job.pos \in Nat /\ job.pos + 1 \in Nat /\ job.skipped + 1 \in Nat
        /\ job.written \in Nat /\ job.skipped \in Nat
    BY <1>1 DEF Job
  <2>1. after \in Job
    BY <1>1, <2>0 DEF Job
  <2>2. ItemOK(after)
    <3>1. /\ after.bundle = job.bundle /\ after.sel = job.sel /\ after.pos = job.pos + 1
          /\ after.skipped = job.skipped + 1 /\ after.written = job.written
      BY <1>1 DEF Job
    <3>2. after.written + after.skipped = job.written + job.skipped + 1
      <4> HIDE DEF after, job
      <4> QED
        BY <2>0, <3>1
    <3> QED
      BY <1>7, <2>1, <3>1, <3>2, UnpackMoves DEF SkipSession
  <2>3. after.op = "unpack"
    BY <2>1 DEF Job
  <2> QED
    BY <1>2, <1>3, <1>7, <2>1, <2>2, <2>3 DEF SkipSession, Finish, diskVars, boundVars
<1>8. CASE CancelRest(w)
  <2> DEFINE after == [job EXCEPT !.cancelled = TRUE]
  <2>1. after \in Job
    BY <1>1 DEF Job
  <2>2. /\ after.pos = job.pos /\ after.bundle = job.bundle /\ after.sel = job.sel
        /\ after.written = job.written /\ after.skipped = job.skipped /\ after.op = "unpack"
    BY <1>1 DEF Job
  <2>3. ItemOK(after)
    BY <1>1, <2>2 DEF ItemOK, JobOK, Tally, Before, ToDo, CancelledCount
  <2> QED
    BY <1>2, <1>3, <1>8, <2>1, <2>2, <2>3 DEF CancelRest, Finish, diskVars, boundVars
<1>9. CASE UnpackFails(w)
  <2>1. Failed \in Item /\ ItemOK(Failed) /\ Failed.op = "completed"
    BY DEF Failed, Item, ItemOK
  <2>2. /\ work' = [work EXCEPT ![w] = Failed] /\ faults' \in Nat
        /\ UNCHANGED <<inHistory, wizardVars, askVars, mishaps, wizards, appeared>>
    BY <1>9 DEF UnpackFails, Finish
  <2>3. \/ UNCHANGED diskVars
        \/ AtSession(w) /\ Put(w, Current(w), "torn")
    BY <1>9 DEF UnpackFails
  <2>4. /\ files' \in [Dests -> [SessionIDs -> Bundles \cup {"absent", "local", "torn"}]]
        /\ memories' \in [Dests -> SUBSET (Bundles \cup {"local"})]
        /\ unasked' \subseteq Dests \X SessionIDs
    BY <1>4, <2>3 DEF diskVars
  <2> QED
    BY <1>3, <2>1, <2>2, <2>4
<1>10. CASE FinishUnpack(w)
  <2>1. PICK item : /\ work' = [work EXCEPT ![w] = item]
                    /\ item.op = "completed" /\ item \in Item
    <3> DEFINE kept == Manifest[job.bundle].memory /\ memories[job.dest] # {}
                       /\ job.memDecision # "overwrite"
               count == IF job.cancelled THEN CancelledCount(job) ELSE 0
               said == IF ~Manifest[job.bundle].memory THEN "not-included"
                       ELSE IF kept THEN "skipped" ELSE "written"
               item == [op |-> "completed", ok |-> TRUE,
                        written |-> job.written, skipped |-> job.skipped,
                        cancelled |-> count, memory |-> said]
    <3>1. count \in Nat
      BY <1>1, PartsFinite DEF Tally
    <3>2. said \in {"written", "skipped", "not-included"}
      OBVIOUS
    <3>3. item \in Item
      BY <1>1, <3>1, <3>2 DEF Item
    <3>4. work' = [work EXCEPT ![w] = item]
      BY <1>10 DEF FinishUnpack, Finish
    <3> QED
      BY <3>3, <3>4
  <2>2. ItemOK(item)
    BY <2>1 DEF ItemOK
  <2>3. memories' \in [Dests -> SUBSET (Bundles \cup {"local"})]
    BY <1>1, <1>10 DEF FinishUnpack
  <2>4. UNCHANGED <<inHistory, wizardVars, askVars, files, unasked, boundVars>>
    BY <1>10 DEF FinishUnpack
  <2> QED
    BY <1>3, <2>1, <2>2, <2>3, <2>4 DEF boundVars
<1> QED
  BY <1>5, <1>6, <1>7, <1>8, <1>9, <1>10

\* Every step of the import keeps it.
LEMMA ImportInvStep == ImportInv /\ [ImportNext]_importVars => ImportInv'
<1> SUFFICES ASSUME ImportInv, [ImportNext]_importVars PROVE ImportInv'
  OBVIOUS
<1>1. ASSUME NEW d \in Dests, NEW s \in SessionIDs, AgentAppears(d, s) PROVE ImportInv'
  <2>1. files' \in [Dests -> [SessionIDs -> Bundles \cup {"absent", "local", "torn"}]]
    BY <1>1 DEF AgentAppears, ImportInv, ImportTypeOK
  <2>2. DestKnown'
    BY <1>1 DEF AgentAppears, ImportInv, DestKnown, Asking, wizardVars, askVars
  <2> QED
    BY <1>1, <2>1, <2>2 DEF AgentAppears, ImportInv, ImportTypeOK, wizardVars, askVars
<1>2. CASE UNCHANGED importVars
  BY <1>2 DEF importVars, wizardVars, askVars, diskVars, boundVars, ImportInv, ImportTypeOK,
              DestKnown, Asking
<1> QED
  BY <1>1, <1>2, WizardKeysKeep, AnswersKeep, CommandsKeep, UnpackKeeps
  DEF ImportNext, Keys, Handle, Run

\* The kinds of the wizard's state, its items and the files.
THEOREM ImportTyped == ImportSpec => []ImportTypeOK
<1>1. ImportInv => ImportTypeOK
  BY DEF ImportInv
<1> QED
  BY <1>1, ImportInvInit, ImportInvStep, PTL DEF ImportSpec

\* Every selected session is written, skipped or cancelled, and counted once, for every
\* user, fault and bundle (Unpack, UnpackResult).
THEOREM TalliesHold == ImportSpec => []TalliesAddUp
<1>1. ImportInv => TalliesAddUp
  BY ItemKinds DEF ImportInv, ItemOK, Tally, Before, ToDo, TalliesAddUp, Unpacking
<1> QED
  BY <1>1, ImportInvInit, ImportInvStep, PTL DEF ImportSpec

-----------------------------------------------------------------------------
(* A user who waits for the answers, with no agent that opens sessions *)

There(d, s) == files[d][s] # "absent"

\* The user wants a session file of d kept, or b to replace it.
SaidSo(d, b, s, said) ==
    said[s] = "skip" \/ (said[s] = "overwrite" /\ <<d, b, s>> \in agreed)

\* From place p on the user was asked about what is there, up to a place where the
\* answer was to cancel.
Covered(d, b, chosen, said, p) ==
    \A n \in DOMAIN Order(b) :
        (n >= p /\ Order(b)[n] \in chosen /\ There(d, Order(b)[n])) =>
            \/ SaidSo(d, b, Order(b)[n], said)
            \/ \E m \in DOMAIN Order(b) :
                   /\ p <= m /\ m <= n /\ Order(b)[m] \in chosen /\ There(d, Order(b)[m])
                   /\ said[Order(b)[m]] = "cancel"

Clashes == {n \in DOMAIN Order(bundle) : Order(bundle)[n] \in sel /\ There(dest, Order(bundle)[n])}

\* What is under way is about the bundle, selection and destination the wizard holds.
ItemOwn(item) ==
    /\ item.op \in {"detect", "collisions"} /\ bundle = "none" =>
           item.ids.at = {} /\ ~item.memory
    /\ item.op = "detect" /\ bundle # "none" =>
           item.ids = Selected(bundle, sel) /\ item.dest = dest
    /\ item.op = "collisions" /\ bundle # "none" =>
           item.ids.of = bundle /\ item.ids.at = Clashes
    /\ item.op = "unpack" /\ ~item.cancelled =>
           Covered(item.dest, item.bundle, item.sel, item.decisions, item.pos)

AskedFor ==
    Asking =>
        /\ \A w \in Works : work[w] = Idle
        /\ bundle # "none"
        /\ queue.at # {} => queue.of = bundle
        /\ queue.at \subseteq Clashes
        /\ \A n \in Clashes \ queue.at : SaidSo(dest, bundle, Order(bundle)[n], decisions)

CareInv ==
    Careful =>
        /\ \A v, w \in Works : v # w => work[v] = Idle \/ work[w] = Idle
        /\ AskedFor
        /\ \A w \in Works : ItemOwn(work[w])

\* An idle item is about nothing.
LEMMA IdleOwn == ItemOwn(Idle) /\ ItemOwn(Idle)'
BY DEF ItemOwn, Idle

\* It holds of a dashboard that was just started.
LEMMA CareInit == ImportInit => CareInv
BY IdleOwn DEF ImportInit, CareInv, AskedFor, Asking, Nowhere

\* A step that leaves all but one item idle and asks nothing.
LEMMA OneItem ==
    ASSUME NEW w \in Works, NEW item, work \in [Works -> Item],
           work' = [work EXCEPT ![w] = item],
           \A v \in Works : v # w => work[v] = Idle,
           ~Asking', ItemOwn(item)'
    PROVE CareInv'
BY IdleOwn DEF CareInv, AskedFor

\* A step that leaves all items idle and asks nothing.
LEMMA NoItem ==
    ASSUME work' = work, \A v \in Works : work[v] = Idle, ~Asking'
    PROVE CareInv'
BY IdleOwn DEF CareInv, AskedFor

\* The keys of the wizard.
LEMMA WizardKeysCare ==
    ASSUME ImportInv, CareInv, Careful, 
           \/ BeginImport \/ ToggleAll \/ EnterSelection \/ Confirm \/ Leave
           \/ ShowProjects \/ ShowHistory
           \/ \E b \in Bundles : EnterPath(b)
           \/ \E s \in SessionIDs : Toggle(s)
           \/ \E d \in Dests : EnterDest(d)
    PROVE CareInv'
<1> USE DEF wizardVars, askVars, diskVars, boundVars, Careful
<1>0. work \in [Works -> Item]
  BY DEF ImportInv, ImportTypeOK
<1>1. CASE ShowProjects \/ ShowHistory
  <2>1. UNCHANGED <<bundle, sel, dest, askVars, work, diskVars, boundVars>>
    BY <1>1 DEF ShowProjects, ShowHistory
  <2> QED
    BY <2>1 DEF CareInv, AskedFor, ItemOwn, Covered, SaidSo, There, Clashes, Asking, Selected
<1>2. CASE BeginImport \/ ToggleAll \/ EnterSelection \/ Leave
           \/ (\E s \in SessionIDs : Toggle(s)) \/ (\E d \in Dests : EnterDest(d))
  <2>1. Key /\ ~Asking /\ work' = work /\ queue' = queue /\ memAsk' = memAsk
    BY <1>2 DEF BeginImport, ToggleAll, EnterSelection, Leave, Toggle, EnterDest, InWizard
  <2> QED
    BY <2>1, NoItem DEF Key, Asking
<1>3. CASE Confirm
  <2>0. PICK item : item = [op |-> "detect", dest |-> dest,
                      ids |-> IF bundle = "none" THEN Nowhere ELSE Selected(bundle, sel),
                      memory |-> bundle # "none" /\ Manifest[bundle].memory]
    OBVIOUS
  <2>1. PICK w \in Works : work' = [work EXCEPT ![w] = item]
    BY <1>3, <2>0 DEF Confirm, StartCmd
  <2>2. Key /\ ~Asking /\ UNCHANGED <<queue, memAsk, bundle, sel, dest>>
    BY <1>3 DEF Confirm, InWizard
  <2>3. ItemOwn(item)'
    BY <2>0, <2>2 DEF ItemOwn, Nowhere, Selected
  <2>4. ~Asking' /\ \A v \in Works : work[v] = Idle
    BY <2>2 DEF Key, Asking
  <2> QED
    BY <1>0, <2>1, <2>3, <2>4, OneItem
<1>4. ASSUME NEW b \in Bundles, EnterPath(b) PROVE CareInv'
  <2>0. PICK item : item = [op |-> "load", bundle |-> b]
    OBVIOUS
  <2>1. PICK w \in Works : work' = [work EXCEPT ![w] = item]
    BY <1>4, <2>0 DEF EnterPath, StartCmd
  <2>2. Key /\ ~Asking /\ UNCHANGED <<queue, memAsk>>
    BY <1>4 DEF EnterPath, InWizard
  <2>3. ItemOwn(item)'
    BY <2>0 DEF ItemOwn
  <2>4. ~Asking' /\ \A v \in Works : work[v] = Idle
    BY <2>2 DEF Key, Asking
  <2> QED
    BY <1>0, <2>1, <2>3, <2>4, OneItem
<1> QED
  BY <1>1, <1>2, <1>3, <1>4

\* The second pass is about what was asked.
LEMMA Pass2Care ==
    ASSUME ImportInv, NEW nextQueue, NEW nextAsk, NEW decided, NEW memDecided,
           bundle # "none", NEW started \in [Works -> Item],
           \A v \in Works : started[v] = Idle,
           RunPass2(decided, memDecided, nextQueue, nextAsk, started),
           UNCHANGED <<bundle, sel, dest>>,
           Covered(dest, bundle, sel, decided, 1)'
    PROVE CareInv'
<1>0. PICK job : job = NewJob(decided, memDecided)
  OBVIOUS
<1>1. PICK w \in Works : work' = [started EXCEPT ![w] = job]
  BY <1>0 DEF RunPass2, NewJob
<1>2. ~Asking'
  BY DEF RunPass2, Asking, Nowhere
<1>3. /\ job.op = "unpack" /\ job.dest = dest /\ job.bundle = bundle /\ job.decisions = decided
      /\ job.sel = sel \cap Range(Order(bundle)) /\ job.pos = 1
  BY <1>0 DEF NewJob
<1>4. \A n \in DOMAIN Order(bundle) : Order(bundle)[n] \in sel <=> Order(bundle)[n] \in job.sel
  BY <1>3 DEF Range
<1>5. Covered(job.dest, job.bundle, job.sel, job.decisions, job.pos)'
  BY <1>3, <1>4 DEF Covered
<1>6. ItemOwn(job)'
  BY <1>3, <1>5 DEF ItemOwn
<1> QED
  BY <1>1, <1>2, <1>6, IdleOwn DEF CareInv, AskedFor

\* The answers to the prompts.
LEMMA AnswersCare ==
    ASSUME ImportInv, CareInv, Careful, NEW d \in Decision, AnswerSession(d) \/ AnswerMemory(d)
    PROVE CareInv'
<1>1. Asking
  BY DEF AnswerSession, AnswerMemory, Asking
<1>2. /\ \A w \in Works : work[w] = Idle
      /\ bundle # "none"
      /\ queue.at # {} => queue.of = bundle
      /\ queue.at \subseteq Clashes
      /\ \A n \in Clashes \ queue.at : SaidSo(dest, bundle, Order(bundle)[n], decisions)
  BY <1>1 DEF CareInv, AskedFor
<1>3. bundle \in Bundles /\ work \in [Works -> Item] /\ dest \in Dests
  BY <1>1, <1>2 DEF ImportInv, ImportTypeOK, DestKnown
<1>4. /\ DOMAIN Order(bundle) \subseteq Nat
      /\ \A n \in DOMAIN Order(bundle) : Order(bundle)[n] \in SessionIDs /\ n >= 1
      /\ \A m, n \in DOMAIN Order(bundle) : Order(bundle)[m] = Order(bundle)[n] => m = n
  BY <1>3, ManifestSeq
<1>5. CASE AnswerMemory(d)
  <2>1. /\ RunPass2(decisions, d, queue, FALSE, work) /\ queue.at = {}
        /\ UNCHANGED <<bundle, sel, dest, decisions, agreed, files>>
    BY <1>5 DEF AnswerMemory, diskVars
  <2>2. Covered(dest, bundle, sel, decisions, 1)'
    BY <1>2, <2>1 DEF Covered, Clashes, SaidSo, There
  <2> QED
    BY <1>2, <1>3, <2>1, <2>2, Pass2Care
<1>6. CASE AnswerSession(d)
  <2> DEFINE s(n) == Order(bundle)[n]
             rest(n) == [queue EXCEPT !.at = @ \ {n}]
  <2>1. PICK n \in queue.at :
              /\ \A m \in queue.at : n <= m
              /\ decisions' = Decided(s(n), d)
              /\ agreed' = IF d = "overwrite" THEN agreed \cup {<<dest, bundle, s(n)>>}
                           ELSE agreed \ {<<dest, bundle, s(n)>>}
              /\ IF d = "cancel"
                 THEN RunPass2(decisions', memDecision, queue, memAsk, work)
                 ELSE IF Answered(rest(n))
                 THEN RunPass2(decisions', memDecision, rest(n), memAsk, work)
                 ELSE queue' = rest(n) /\ UNCHANGED <<memAsk, step, work>>
    BY <1>2, <1>6 DEF AnswerSession
  <2>2. /\ UNCHANGED <<bundle, sel, dest, files>> /\ queue.of = bundle /\ n \in Clashes
        /\ queue \in Places
    BY <1>2, <1>6, <2>1 DEF AnswerSession, diskVars, ImportInv, ImportTypeOK
  <2>3. Clashes' = Clashes
    BY <2>2 DEF Clashes, There
  <2>4. \A m \in Clashes \ queue.at : SaidSo(dest, bundle, s(m), decisions)'
    <3> SUFFICES ASSUME NEW m \in Clashes \ queue.at PROVE SaidSo(dest, bundle, s(m), decisions)'
      OBVIOUS
    <3>1. s(m) # s(n) /\ s(m) \in SessionIDs /\ SaidSo(dest, bundle, s(m), decisions)
      BY <1>2, <1>4, <2>1, <2>2 DEF Clashes
    <3>2. decisions'[s(m)] = decisions[s(m)]
      BY <2>1, <3>1 DEF Decided, ImportInv, ImportTypeOK
    <3>3. <<dest, bundle, s(m)>> \in agreed => <<dest, bundle, s(m)>> \in agreed'
      BY <2>1, <3>1
    <3> QED
      BY <2>2, <3>1, <3>2, <3>3 DEF SaidSo
  <2>5. decisions'[s(n)] = d
    BY <1>4, <2>1, <2>2 DEF Decided, Clashes, ImportInv, ImportTypeOK
  <2>6. d # "cancel" => SaidSo(dest, bundle, s(n), decisions)'
    BY <2>1, <2>2, <2>5 DEF SaidSo, Decision
  <2>7. CASE d = "cancel" \/ Answered(rest(n))
    <3>1. Covered(dest, bundle, sel, decisions, 1)'
      <4> SUFFICES ASSUME NEW m \in DOMAIN Order(bundle), s(m) \in sel, There(dest, s(m))
                   PROVE \/ SaidSo(dest, bundle, s(m), decisions)'
                         \/ \E k \in DOMAIN Order(bundle) :
                               /\ 1 <= k /\ k <= m /\ s(k) \in sel /\ There(dest, s(k))
                               /\ decisions'[s(k)] = "cancel"
        BY <2>2 DEF Covered, There
      <4>1. m \in Clashes
        BY DEF Clashes
      <4>2. CASE m \notin queue.at
        BY <2>4, <4>1, <4>2
      <4>3. CASE m \in queue.at /\ d = "cancel"
        <5>1. n <= m /\ n \in DOMAIN Order(bundle) /\ s(n) \in sel /\ There(dest, s(n)) /\ 1 <= n
          BY <1>4, <2>1, <2>2, <4>3 DEF Clashes
        <5> QED
          BY <2>5, <4>3, <5>1
      <4>4. CASE m \in queue.at /\ d # "cancel"
        <5>1. m = n
          BY <2>2, <2>7, <4>4 DEF Answered, Places
        <5> QED
          BY <2>6, <4>4, <5>1
      <4> QED
        BY <4>2, <4>3, <4>4
    <3>2. \/ RunPass2(decisions', memDecision, queue, memAsk, work)
          \/ RunPass2(decisions', memDecision, rest(n), memAsk, work)
      BY <2>1, <2>7
    <3>3. PICK said : said = decisions'
      OBVIOUS
    <3>4. Covered(dest, bundle, sel, said, 1)'
      BY <3>1, <3>3 DEF Covered, SaidSo
    <3> QED
      BY <1>2, <1>3, <2>2, <3>2, <3>3, <3>4, Pass2Care
  <2>8. CASE d # "cancel" /\ ~Answered(rest(n))
    <3>1. queue' = rest(n) /\ work' = work /\ rest(n).of = bundle /\ rest(n).at = queue.at \ {n}
      BY <2>1, <2>2, <2>8 DEF Places
    <3>2. \A m \in Clashes' \ queue'.at : SaidSo(dest, bundle, Order(bundle)[m], decisions)'
      BY <2>3, <2>4, <2>6, <2>8, <3>1
    <3>3. AskedFor'
      BY <1>2, <2>2, <2>3, <3>1, <3>2 DEF AskedFor
    <3> QED
      BY <1>2, <3>1, <3>3, IdleOwn DEF CareInv
  <2> QED
    BY <2>7, <2>8
<1> QED
  BY <1>5, <1>6

\* Commands that end and messages that are handled.
LEMMA CommandsCare ==
    ASSUME ImportInv, CareInv, Careful, NEW w \in Works,
           \/ LoadManifest(w) \/ ManifestLoaded(w) \/ DetectCollisions(w)
           \/ HandleCollisions(w) \/ HandleCompleted(w)
    PROVE CareInv'
<1>0. /\ work[w] # Idle /\ work \in [Works -> Item] /\ work[w] \in Item
      /\ {path, bundle} \subseteq Bundles \cup {"none"}
  <2>1. work[w].op \in {"load", "loaded", "detect", "collisions", "completed"}
    BY DEF LoadManifest, ManifestLoaded, DetectCollisions, HandleCollisions, HandleCompleted
  <2>2. work[w] # Idle
    BY <2>1 DEF Idle
  <2> QED
    BY <2>2 DEF ImportInv, ImportTypeOK
<1>1. ~Asking /\ (\A v \in Works : v # w => work[v] = Idle) /\ ItemOwn(work[w])
  BY <1>0 DEF CareInv, AskedFor
<1>2. ASSUME NEW item, work' = [work EXCEPT ![w] = item], UNCHANGED <<queue, memAsk>>,
             ItemOwn(item)'
      PROVE CareInv'
  BY <1>0, <1>1, <1>2, OneItem DEF Asking
<1>3. CASE LoadManifest(w)
  <2>0. PICK ok \in BOOLEAN :
           work' = [work EXCEPT ![w] = [op |-> "loaded", bundle |-> work[w].bundle, ok |-> ok]]
    BY <1>3 DEF LoadManifest, Finish
  <2>1. PICK item : item = [op |-> "loaded", bundle |-> work[w].bundle, ok |-> ok]
    OBVIOUS
  <2>2. item.op = "loaded" /\ work' = [work EXCEPT ![w] = item]
    BY <2>0, <2>1
  <2>3. ItemOwn(item)'
    BY <2>2 DEF ItemOwn
  <2> QED
    BY <1>2, <1>3, <2>2, <2>3 DEF LoadManifest, askVars
<1>4. CASE ManifestLoaded(w) \/ HandleCompleted(w)
  <2>1. work' = [work EXCEPT ![w] = Idle] /\ UNCHANGED <<queue, memAsk>>
    BY <1>4 DEF ManifestLoaded, HandleCompleted, Done, askVars
  <2>2. PICK item : item = Idle
    OBVIOUS
  <2> QED
    BY <1>2, <2>1, <2>2, IdleOwn
<1>5. CASE DetectCollisions(w)
  <2>1. PICK item : /\ item = [op |-> "collisions", ids |-> Colliding(work[w].dest, work[w].ids),
                               memory |-> work[w].memory /\ memories[work[w].dest] # {}]
                    /\ work' = [work EXCEPT ![w] = item]
    BY <1>5 DEF DetectCollisions, Finish
  <2>2. UNCHANGED <<queue, memAsk, bundle, sel, dest, files>> /\ work[w].op = "detect"
        /\ work[w].ids \in Places /\ work[w].memory \in BOOLEAN
    BY <1>0, <1>5, ItemKinds DEF DetectCollisions, askVars, wizardVars, diskVars
  <2>3. CASE bundle = "none"
    <3>1. work[w].ids.at = {} /\ ~work[w].memory
      BY <1>1, <2>2, <2>3 DEF ItemOwn
    <3>2. item.ids.at = {} /\ ~item.memory /\ item.op = "collisions"
      BY <2>1, <2>2, <3>1 DEF Colliding, Places
    <3>3. ItemOwn(item)'
      BY <2>2, <2>3, <3>2 DEF ItemOwn
    <3> QED
      BY <1>2, <2>1, <2>2, <3>3
  <2>4. CASE bundle # "none"
    <3>1. work[w].ids = Selected(bundle, sel) /\ work[w].dest = dest
      BY <1>1, <2>2, <2>4 DEF ItemOwn
    <3>2. item.op = "collisions" /\ item.ids = Colliding(dest, Selected(bundle, sel))
      BY <2>1, <3>1
    <3>3. item.ids.of = bundle /\ item.ids.at = Clashes
      BY <3>2 DEF Colliding, Selected, Clashes, There
    <3>4. ItemOwn(item)'
      BY <2>2, <2>4, <3>2, <3>3 DEF ItemOwn, Clashes, There
    <3> QED
      BY <1>2, <2>1, <2>2, <3>4
  <2> QED
    BY <2>3, <2>4
<1>6. CASE HandleCollisions(w)
  <2>1. /\ work[w].op = "collisions" /\ work[w].ids \in Places /\ work[w].memory \in BOOLEAN
        /\ UNCHANGED <<bundle, sel, dest, decisions, agreed, files>>
    BY <1>0, <1>6, ItemKinds DEF HandleCollisions, diskVars
  <2>2. PICK started : started = Done(w)
    OBVIOUS
  <2>3. started \in [Works -> Item] /\ \A v \in Works : started[v] = Idle
    BY <1>0, <1>1, <2>2 DEF Done, Item
  <2>4. CASE bundle = "none"
    <3>1. work[w].ids.at = {} /\ ~work[w].memory
      BY <1>1, <2>1, <2>4 DEF ItemOwn
    <3>2. RunPass2(decisions, memDecision, work[w].ids, FALSE, started)
      BY <1>6, <2>2, <3>1 DEF HandleCollisions
    <3>3. queue' = work[w].ids /\ memAsk' = FALSE /\ work' = started
      BY <2>4, <3>2 DEF RunPass2
    <3>4. ~Asking'
      BY <3>1, <3>3 DEF Asking
    <3> QED
      BY <2>3, <3>3, <3>4, IdleOwn DEF CareInv, AskedFor
  <2>5. CASE bundle # "none"
    <3>1. work[w].ids.of = bundle /\ work[w].ids.at = Clashes
      BY <1>1, <2>1, <2>5 DEF ItemOwn
    <3>2. Clashes' = Clashes
      BY <2>1 DEF Clashes, There
    <3>3. CASE work[w].ids.at = {} /\ ~work[w].memory
      <4>1. RunPass2(decisions, memDecision, work[w].ids, FALSE, started)
        BY <1>6, <2>2, <3>3 DEF HandleCollisions
      <4>2. PICK said : said = decisions
        OBVIOUS
      <4>3. Covered(dest, bundle, sel, said, 1)'
        BY <2>1, <3>1, <3>3 DEF Covered, Clashes, There
      <4> QED
        BY <2>1, <2>3, <2>5, <4>1, <4>2, <4>3, Pass2Care
    <3>4. CASE ~(work[w].ids.at = {} /\ ~work[w].memory)
      <4>1. queue' = work[w].ids /\ work' = started
        BY <1>6, <2>2, <3>4 DEF HandleCollisions
      <4>2. AskedFor'
        BY <2>1, <2>3, <2>5, <3>1, <3>2, <4>1 DEF AskedFor
      <4> QED
        BY <2>3, <4>1, <4>2, IdleOwn DEF CareInv
    <3> QED
      BY <3>3, <3>4
  <2> QED
    BY <2>4, <2>5
<1> QED
  BY <1>3, <1>4, <1>5, <1>6

\* A session that is there is written only as the user agreed.
LEMMA WritesAgreed ==
    ASSUME ImportInv, CareInv, Careful, NEW w \in Works,
           AtSession(w), Current(w) \in work[w].sel, Writes(w, Current(w)),
           There(work[w].dest, Current(w))
    PROVE /\ <<work[w].dest, work[w].bundle, Current(w)>> \in agreed
          /\ work[w].decisions[Current(w)] = "overwrite"
<1> DEFINE job == work[w]
           o == Order(job.bundle)
<1>1. /\ job.decisions \in [SessionIDs -> Decision \cup {"none"}] /\ job.bundle \in Bundles
      /\ Current(w) \in SessionIDs /\ job.pos \in DOMAIN o /\ job.pos \in Nat
      /\ job.op = "unpack" /\ ~job.cancelled
  BY AtPlace DEF AtSession, Unpacking
<1>2. Covered(job.dest, job.bundle, job.sel, job.decisions, job.pos)
  BY <1>1 DEF CareInv, ItemOwn
<1>3. \/ SaidSo(job.dest, job.bundle, Current(w), job.decisions)
      \/ \E m \in DOMAIN o : job.pos <= m /\ m <= job.pos /\ job.decisions[o[m]] = "cancel"
  BY <1>1, <1>2 DEF Covered, Current
<1>4. \A m \in DOMAIN o : job.pos <= m /\ m <= job.pos => m = job.pos
  <2>1. DOMAIN o \subseteq Nat
    BY <1>1, ManifestSeq
  <2> QED
    BY <1>1, <2>1
<1>5. Resolve(job, Current(w)) = "overwrite"
  BY DEF Writes, There
<1>6. job.decisions[Current(w)] \in {"none", "overwrite"}
  BY <1>5 DEF Resolve
<1> QED
  BY <1>3, <1>4, <1>6 DEF SaidSo, Current

\* A place that is neither cancelled nor still to be written is passed.
LEMMA CoverMoves ==
    ASSUME ImportInv, CareInv, Careful, NEW w \in Works, AtSession(w),
           Current(w) \in work[w].sel /\ There(work[w].dest, Current(w)) =>
               work[w].decisions[Current(w)] # "cancel",
           UNCHANGED agreed,
           \A s \in SessionIDs : s # Current(w) =>
               files'[work[w].dest][s] = files[work[w].dest][s]
    PROVE \A d, b, chosen, said, p :
             (d = work[w].dest /\ b = work[w].bundle /\ chosen = work[w].sel
              /\ said = work[w].decisions /\ p = work[w].pos + 1) => Covered(d, b, chosen, said, p)'
<1> SUFFICES ASSUME NEW d, NEW b, NEW chosen, NEW said, NEW p,
                    d = work[w].dest, b = work[w].bundle, chosen = work[w].sel,
                    said = work[w].decisions, p = work[w].pos + 1
             PROVE Covered(d, b, chosen, said, p)'
  OBVIOUS
<1> DEFINE o == Order(b)
           q == work[w].pos
<1>1. /\ b \in Bundles /\ q \in DOMAIN o /\ q \in Nat
      /\ work[w].op = "unpack" /\ ~work[w].cancelled /\ Current(w) = o[q]
  BY AtPlace DEF AtSession, Unpacking, Current
<1>2. /\ DOMAIN o \subseteq Nat /\ \A n \in DOMAIN o : o[n] \in SessionIDs
      /\ \A m, n \in DOMAIN o : o[m] = o[n] => m = n
  BY <1>1, ManifestSeq
<1>3. Covered(d, b, chosen, said, q)
  BY <1>1 DEF CareInv, ItemOwn
<1> SUFFICES ASSUME NEW n \in DOMAIN o, n >= p, o[n] \in chosen, files'[d][o[n]] # "absent"
             PROVE \/ SaidSo(d, b, o[n], said)'
                   \/ \E m \in DOMAIN o :
                          /\ p <= m /\ m <= n /\ o[m] \in chosen /\ files'[d][o[m]] # "absent"
                          /\ said[o[m]] = "cancel"
  BY DEF Covered, There
<1>4. \A m \in DOMAIN o : m # q => files'[d][o[m]] = files[d][o[m]]
  BY <1>1, <1>2
<1>5. n # q /\ n >= q
  BY <1>1, <1>2
<1>6. There(d, o[n])
  BY <1>4, <1>5 DEF There
<1>7. CASE SaidSo(d, b, o[n], said)
  BY <1>7 DEF SaidSo
<1>8. CASE \E m \in DOMAIN o : q <= m /\ m <= n /\ o[m] \in chosen /\ There(d, o[m])
                                /\ said[o[m]] = "cancel"
  <2>1. PICK m \in DOMAIN o : q <= m /\ m <= n /\ o[m] \in chosen /\ There(d, o[m])
                                /\ said[o[m]] = "cancel"
    BY <1>8
  <2>2. m # q
    BY <1>1, <2>1
  <2>3. p <= m
    BY <1>1, <1>2, <2>1, <2>2
  <2> QED
    BY <1>4, <2>1, <2>2, <2>3 DEF There
<1> QED
  BY <1>3, <1>5, <1>6, <1>7, <1>8 DEF Covered

\* The steps of Unpack.
LEMMA UnpackCare ==
    ASSUME ImportInv, CareInv, Careful, NEW w \in Works,
           \/ PassOver(w) \/ WriteSession(w) \/ SkipSession(w) \/ CancelRest(w)
           \/ UnpackFails(w) \/ FinishUnpack(w)
    PROVE CareInv'
<1> DEFINE job == work[w]
<1>0. Unpacking(w)
  BY DEF PassOver, WriteSession, SkipSession, CancelRest, UnpackFails, FinishUnpack, AtSession
<1>1. /\ job \in Job /\ job.op = "unpack" /\ work \in [Works -> Item]
      /\ job.bundle \in Bundles /\ job.dest \in Dests
      /\ AtSession(w) => Current(w) \in SessionIDs
      /\ job.decisions \in [SessionIDs -> Decision \cup {"none"}]
  BY <1>0, AtPlace DEF Unpacking, ImportInv, ImportTypeOK
<1>2. ~Asking /\ (\A v \in Works : v # w => work[v] = Idle)
  <2>1. work[w] # Idle
    BY <1>1 DEF Idle
  <2> QED
    BY <2>1 DEF CareInv, AskedFor
<1>3. ASSUME NEW item, work' = [work EXCEPT ![w] = item], UNCHANGED askVars, ItemOwn(item)'
      PROVE CareInv'
  BY <1>1, <1>2, <1>3, OneItem DEF Asking, askVars
<1>4. ASSUME NEW item, item.op = "completed" PROVE ItemOwn(item)'
  BY <1>4 DEF ItemOwn
<1>5. ASSUME NEW after, AtSession(w), after.op = "unpack", after.dest = job.dest,
             after.bundle = job.bundle, after.sel = job.sel, after.decisions = job.decisions,
             after.pos = job.pos + 1, work' = [work EXCEPT ![w] = after], UNCHANGED askVars,
             Current(w) \in job.sel /\ There(job.dest, Current(w)) =>
                 job.decisions[Current(w)] # "cancel",
             \A s \in SessionIDs : s # Current(w) => files'[job.dest][s] = files[job.dest][s]
      PROVE CareInv'
  <2>1. UNCHANGED agreed
    BY <1>5 DEF askVars
  <2>2. Covered(after.dest, after.bundle, after.sel, after.decisions, after.pos)'
    BY <1>5, <2>1, CoverMoves
  <2>3. ItemOwn(after)'
    BY <1>5, <2>2 DEF ItemOwn
  <2> QED
    BY <1>3, <1>5, <2>3
<1>6. CASE PassOver(w)
  <2>1. PICK after : after = [job EXCEPT !.pos = @ + 1]
    OBVIOUS
  <2>2. /\ after.op = "unpack" /\ after.dest = job.dest /\ after.bundle = job.bundle
        /\ after.sel = job.sel /\ after.decisions = job.decisions /\ after.pos = job.pos + 1
    BY <1>1, <2>1 DEF Job
  <2>3. /\ work' = [work EXCEPT ![w] = after] /\ UNCHANGED <<askVars, files>>
        /\ AtSession(w) /\ Current(w) \notin job.sel
    BY <1>6, <2>1 DEF PassOver, Finish, diskVars
  <2> QED
    BY <1>5, <2>2, <2>3
<1>7. CASE WriteSession(w)
  <2>1. PICK after : after = [job EXCEPT !.pos = @ + 1, !.written = @ + 1]
    OBVIOUS
  <2>2. /\ after.op = "unpack" /\ after.dest = job.dest /\ after.bundle = job.bundle
        /\ after.sel = job.sel /\ after.decisions = job.decisions /\ after.pos = job.pos + 1
    BY <1>1, <2>1 DEF Job
  <2>3. /\ work' = [work EXCEPT ![w] = after] /\ UNCHANGED askVars
        /\ AtSession(w) /\ Current(w) \in job.sel /\ Writes(w, Current(w))
        /\ files' = [files EXCEPT ![job.dest][Current(w)] = job.bundle]
    BY <1>7, <2>1 DEF WriteSession, Finish, Put
  <2>4. There(job.dest, Current(w)) => job.decisions[Current(w)] # "cancel"
    BY <2>3, WritesAgreed
  <2>5. \A s \in SessionIDs : s # Current(w) => files'[job.dest][s] = files[job.dest][s]
    BY <1>1, <2>3 DEF ImportInv, ImportTypeOK
  <2> QED
    BY <1>5, <2>2, <2>3, <2>4, <2>5
<1>8. CASE SkipSession(w)
  <2>1. PICK after : after = [job EXCEPT !.pos = @ + 1, !.skipped = @ + 1]
    OBVIOUS
  <2>2. /\ after.op = "unpack" /\ after.dest = job.dest /\ after.bundle = job.bundle
        /\ after.sel = job.sel /\ after.decisions = job.decisions /\ after.pos = job.pos + 1
    BY <1>1, <2>1 DEF Job
  <2>3. /\ work' = [work EXCEPT ![w] = after] /\ UNCHANGED <<askVars, files>>
        /\ AtSession(w) /\ Resolve(job, Current(w)) = "skip"
    BY <1>8, <2>1 DEF SkipSession, Finish, diskVars
  <2>4. job.decisions[Current(w)] # "cancel"
    BY <2>3 DEF Resolve
  <2> QED
    BY <1>5, <2>2, <2>3, <2>4
<1>9. CASE CancelRest(w)
  <2>1. PICK after : after = [job EXCEPT !.cancelled = TRUE]
    OBVIOUS
  <2>2. after.op = "unpack" /\ after.cancelled
    BY <1>1, <2>1 DEF Job
  <2>3. work' = [work EXCEPT ![w] = after] /\ UNCHANGED askVars
    BY <1>9, <2>1 DEF CancelRest, Finish
  <2>4. ItemOwn(after)'
    BY <2>2 DEF ItemOwn
  <2> QED
    BY <1>3, <2>3, <2>4
<1>10. CASE UnpackFails(w)
  <2>1. PICK item : item = Failed
    OBVIOUS
  <2>2. item.op = "completed" /\ work' = [work EXCEPT ![w] = item] /\ UNCHANGED askVars
    BY <1>10, <2>1 DEF UnpackFails, Finish, Failed
  <2> QED
    BY <1>3, <1>4, <2>2
<1>11. CASE FinishUnpack(w)
  <2>1. PICK item : work' = [work EXCEPT ![w] = item] /\ item.op = "completed"
    <3> DEFINE kept == Manifest[job.bundle].memory /\ memories[job.dest] # {}
                       /\ job.memDecision # "overwrite"
               count == IF job.cancelled THEN CancelledCount(job) ELSE 0
               said == IF ~Manifest[job.bundle].memory THEN "not-included"
                       ELSE IF kept THEN "skipped" ELSE "written"
               item == [op |-> "completed", ok |-> TRUE,
                        written |-> job.written, skipped |-> job.skipped,
                        cancelled |-> count, memory |-> said]
    <3>1. work' = [work EXCEPT ![w] = item]
      BY <1>11 DEF FinishUnpack, Finish
    <3>2. item.op = "completed"
      OBVIOUS
    <3> HIDE DEF item
    <3> QED
      BY <3>1, <3>2
  <2>2. UNCHANGED askVars
    BY <1>11 DEF FinishUnpack
  <2> QED
    BY <1>3, <1>4, <2>1, <2>2
<1> QED
  BY <1>6, <1>7, <1>8, <1>9, <1>10, <1>11

\* What may happen is settled at the start.
LEMMA MishapsStay == [ImportNext]_importVars => mishaps' = mishaps
<1> SUFFICES ASSUME [ImportNext]_importVars PROVE mishaps' = mishaps
  OBVIOUS
<1>1. CASE Keys
  BY <1>1 DEF Keys, BeginImport, ToggleAll, EnterSelection, Confirm, Leave, ShowProjects,
              ShowHistory, EnterPath, Toggle, EnterDest, AnswerSession, AnswerMemory, boundVars
<1>2. ASSUME NEW w \in Works, Handle(w) PROVE mishaps' = mishaps
  BY <1>2 DEF Handle, ManifestLoaded, HandleCollisions, HandleCompleted, boundVars
<1>3. ASSUME NEW w \in Works, Run(w) PROVE mishaps' = mishaps
  BY <1>3 DEF Run, LoadManifest, DetectCollisions, PassOver, WriteSession, SkipSession,
              CancelRest, UnpackFails, FinishUnpack, boundVars
<1>4. ASSUME NEW d \in Dests, NEW s \in SessionIDs, AgentAppears(d, s) PROVE mishaps' = mishaps
  BY <1>4 DEF AgentAppears
<1> QED
  BY <1>1, <1>2, <1>3, <1>4 DEF ImportNext, importVars, boundVars

\* Every step of the import keeps what is known of a user who waits.
LEMMA CareStep == ImportInv /\ CareInv /\ [ImportNext]_importVars => CareInv'
<1> SUFFICES ASSUME ImportInv, CareInv, [ImportNext]_importVars PROVE CareInv'
  OBVIOUS
<1>1. mishaps' = mishaps
  BY MishapsStay
<1>2. CASE ~Careful
  BY <1>1, <1>2 DEF Careful, CareInv
<1>3. CASE Careful
  <2>1. ASSUME NEW d \in Dests, NEW s \in SessionIDs, AgentAppears(d, s) PROVE CareInv'
    BY <1>3, <2>1 DEF AgentAppears, Careful
  <2>2. CASE UNCHANGED importVars
    BY <2>2 DEF importVars, wizardVars, askVars, diskVars, boundVars, CareInv, Careful, AskedFor,
                ItemOwn, Covered, SaidSo, There, Clashes, Asking, Selected
  <2> QED
    BY <1>3, <2>1, <2>2, WizardKeysCare, AnswersCare, CommandsCare, UnpackCare
    DEF ImportNext, Keys, Handle, Run
<1> QED
  BY <1>2, <1>3

\* A step of the wizard is one the contract allows, or none of its business.
LEMMA ContractStep ==
    ASSUME ImportInv, CareInv, Careful, [ImportNext]_importVars
    PROVE Promise!Next \/ UNCHANGED <<files, agreed>>
<1>1. agreed' \in SUBSET Promise!Agreements
  BY ImportInvStep DEF ImportInv, ImportTypeOK, Promise!Agreements
<1>2. CASE files' = files
  BY <1>1, <1>2 DEF Promise!Next, Promise!Decide
<1>3. ASSUME NEW w \in Works, NEW content, AtSession(w), Current(w) \in work[w].sel,
             Writes(w, Current(w)), Put(w, Current(w), content), UNCHANGED agreed,
             content \in {work[w].bundle, "torn"}
      PROVE Promise!Next
  <2> DEFINE d == work[w].dest
             b == work[w].bundle
             s == Current(w)
  <2>1. d \in Dests /\ b \in Bundles /\ s \in SessionIDs
    BY <1>3, AtPlace DEF AtSession
  <2>2. files[d][s] # "absent" => <<d, b, s>> \in agreed
    BY <1>3, WritesAgreed DEF There
  <2>3. files' = [files EXCEPT ![d][s] = content]
    BY <1>3 DEF Put
  <2>4. Promise!Write(d, b, s)
    BY <1>3, <2>2, <2>3 DEF Promise!Write
  <2> QED
    BY <2>1, <2>4 DEF Promise!Next
<1>4. ASSUME NEW w \in Works, WriteSession(w) PROVE Promise!Next
  BY <1>3, <1>4 DEF WriteSession, askVars
<1>5. ASSUME NEW w \in Works, UnpackFails(w) PROVE Promise!Next \/ files' = files
  BY <1>3, <1>5 DEF UnpackFails, askVars, diskVars
<1>6. ASSUME NEW d \in Dests, NEW s \in SessionIDs, AgentAppears(d, s) PROVE Promise!Next
  BY <1>6 DEF AgentAppears, Careful
<1>7. CASE Keys
  BY <1>2, <1>7 DEF Keys, BeginImport, ToggleAll, EnterSelection, Confirm, Leave, ShowProjects,
      ShowHistory, EnterPath, Toggle, EnterDest, AnswerSession, AnswerMemory, diskVars
<1>8. ASSUME NEW w \in Works, Handle(w) PROVE files' = files
  BY <1>8 DEF Handle, ManifestLoaded, HandleCollisions, HandleCompleted, diskVars
<1>9. ASSUME NEW w \in Works, Run(w), ~WriteSession(w), ~UnpackFails(w) PROVE files' = files
  BY <1>9 DEF Run, LoadManifest, DetectCollisions, PassOver, SkipSession, CancelRest,
      FinishUnpack, diskVars
<1>10. CASE UNCHANGED importVars
  BY <1>2, <1>10 DEF importVars, diskVars
<1> QED
  BY <1>2, <1>4, <1>5, <1>6, <1>7, <1>8, <1>9, <1>10 DEF ImportNext

\* The import keeps its contract, for any bundles and destinations: a user who waits for
\* the answers loses no session file they did not agree to lose to this bundle, whatever
\* fails and however often they try (DetectCollisions, the prompts and Unpack).
THEOREM ImportKeepsContract == ImportSpec => ContractKept
<1>1. ImportInit => Promise!Init
  BY DEF ImportInit, Promise!Init
<1>2. ImportInv /\ CareInv /\ [ImportNext]_importVars =>
          [Careful => Promise!Next]_<<files, agreed>>
  BY ContractStep
<1> QED
  BY <1>1, <1>2, ImportInvInit, ImportInvStep, CareInit, CareStep, PTL DEF ImportSpec, ContractKept

\* Only writing replaces a file.
LEMMA UnaskedStays ==
    ASSUME Keys \/ UNCHANGED importVars
    PROVE unasked' = unasked
<1>1. CASE Keys
  BY <1>1 DEF Keys, BeginImport, ToggleAll, EnterSelection, Confirm, Leave, ShowProjects,
      ShowHistory, EnterPath, Toggle, EnterDest, AnswerSession, AnswerMemory, diskVars
<1>2. CASE UNCHANGED importVars
  BY <1>2 DEF importVars, diskVars
<1> QED
  BY <1>1, <1>2

\* The default of the resolver is never used for such a user: "should never happen"
\* (importBundleCmd).
THEOREM WaitingUserIsAsked == ImportSpec => [](Careful => DefaultNeverUsed)
<1> DEFINE I == Careful => DefaultNeverUsed
<1>1. ImportInit => I
  BY DEF ImportInit, DefaultNeverUsed
<1>2. ImportInv /\ CareInv /\ I /\ [ImportNext]_importVars => I'
  <2> SUFFICES ASSUME ImportInv, CareInv, I, [ImportNext]_importVars, Careful' PROVE unasked' = {}
    BY DEF DefaultNeverUsed
  <2>1. Careful
    BY MishapsStay DEF Careful
  <2>2. unasked = {}
    BY <2>1 DEF DefaultNeverUsed
  <2>3. ASSUME NEW w \in Works, NEW content, AtSession(w), Current(w) \in work[w].sel,
               Writes(w, Current(w)), Put(w, Current(w), content)
        PROVE unasked' = unasked
    BY <2>1, <2>3, WritesAgreed DEF Put, There
  <2>4. ASSUME NEW w \in Works, WriteSession(w) PROVE unasked' = unasked
    BY <2>3, <2>4 DEF WriteSession
  <2>5. ASSUME NEW w \in Works, UnpackFails(w) PROVE unasked' = unasked
    BY <2>3, <2>5 DEF UnpackFails, diskVars
  <2>6. ASSUME NEW d \in Dests, NEW s \in SessionIDs, AgentAppears(d, s) PROVE unasked' = unasked
    BY <2>6 DEF AgentAppears
  <2>7. CASE Keys
    BY <2>2, <2>7, UnaskedStays
  <2>8. ASSUME NEW w \in Works, Handle(w) PROVE unasked' = unasked
    BY <2>8 DEF Handle, ManifestLoaded, HandleCollisions, HandleCompleted, diskVars
  <2>9. ASSUME NEW w \in Works, Run(w), ~WriteSession(w), ~UnpackFails(w) PROVE unasked' = unasked
    BY <2>9 DEF Run, LoadManifest, DetectCollisions, PassOver, SkipSession, CancelRest,
        FinishUnpack, diskVars
  <2>10. CASE UNCHANGED importVars
    BY <2>2, <2>10, UnaskedStays
  <2> QED
    BY <2>2, <2>4, <2>5, <2>6, <2>7, <2>8, <2>9, <2>10 DEF ImportNext
<1> QED
  BY <1>1, <1>2, ImportInvInit, ImportInvStep, CareInit, CareStep, PTL DEF ImportSpec

===============================================================================
