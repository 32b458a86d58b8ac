--------------------------- MODULE Sessions_proofs ---------------------------
(***************************************************************************)
(* Type correctness of Sessions; what its keys promise (OwnInv), who seeks *)
(* the process of an entry (SeekInv) and who listens to its watcher        *)
(* (WatchInv).                                                             *)
(***************************************************************************)
EXTENDS Sessions, TLAPS

\* The entry under a key.
LEMMA UsedTerminal ==
  ASSUME TypeOK
  PROVE  /\ \A k \in Used : k \in Keys /\ terms[k] \in Terminal
         /\ \A k \in Keys \ Used : terms[k] = None
  BY DEF TypeOK, Used

\* The session of a process.
LEMMA SessionType == ASSUME TypeOK, NEW p \in Procs PROVE Session(p) \in SessionIDs
  BY SessionsAssumption DEF TypeOK, Session, SessionIDs, Procs

LEMMA AliveProcs == ASSUME TypeOK PROVE alive \subseteq Procs
  BY SessionsAssumption DEF TypeOK, Procs

\* The stages of a chain, by constructor.
LEMMA StageTypes ==
  ASSUME NEW k \in Keys
  PROVE  /\ Idle \in Stage /\ Lost(k) \in Stage
         /\ \A d \in Dirs, x \in SUBSET Procs : Discover(k, d, x) \in Stage
         /\ \A s \in SessionIDs : Found(k, s) \in Stage /\ Wait(k, s) \in Stage
         /\ \A w \in Watchers : Ready(k, w) \in Stage /\ Watch(k, w) \in Stage
         /\ \A e \in Events : Event(k, e) \in Stage
  BY DEF Idle, Lost, Discover, Found, Wait, Ready, Watch, Event, Stage

\* The fields of a chain at a stage.
LEMMA StageFields ==
  ASSUME NEW m \in Stage
  PROVE  /\ m.at \in {"idle", "discover", "found", "wait", "ready", "lost", "watch", "event"}
         /\ m.at = "idle" <=> m = Idle
         /\ m.at # "idle" => m.key \in Keys
         /\ m.at = "discover" => m.dir \in Dirs /\ m.exclude \in SUBSET Procs
         /\ m.at \in {"found", "wait"} => m.sid \in SessionIDs
         /\ m.at \in {"ready", "watch"} => m.watcher \in Watchers
         /\ m.at = "event" => m.state \in Events
  BY DEF Stage, Idle

LEMMA BecomesType ==
  ASSUME TypeOK, NEW c \in Chains, NEW m \in Stage, Becomes(c, m)
  PROVE  chains' \in [Chains -> Stage]
  BY DEF TypeOK, Becomes

\* An entry of which some fields change.
LEMMA TerminalFields ==
  ASSUME NEW e \in Terminal
  PROVE  /\ \A s \in States : [e EXCEPT !.state = s] \in Terminal
         /\ \A p \in Procs, s \in SessionIDs : [e EXCEPT !.pid = p, !.sid = s] \in Terminal
         /\ \A w \in Watchers, s \in SessionIDs, t \in States :
              [e EXCEPT !.sid = s, !.watcher = w, !.state = t] \in Terminal
         /\ \A s \in SessionIDs, t \in States :
              [e EXCEPT !.watcher = NoWatcher, !.state = t, !.sid = s] \in Terminal
  BY DEF Terminal

LEMMA NewTerminals ==
  /\ \A d \in Dirs : Pending(d) \in Terminal
  /\ \A s \in SessionIDs, d \in Dirs : Attached(s, d) \in Terminal
  BY DEF Pending, Attached, Terminal, States, SessionIDs, Procs

-----------------------------------------------------------------------------
LEMMA InitType == Init => TypeOK
  BY SessionsAssumption
     DEF Init, TypeOK, Idle, Stage, NoKill, Kill, Procs

\* A step that leaves the machine and the counts as they are.
LEMMA FrameType ==
  ASSUME TypeOK, UNCHANGED <<born, alive, cwd, current, logs, launches, losses>>,
         terms' \in [Keys -> {None} \cup Terminal], chains' \in [Chains -> Stage],
         live' \subseteq Watchers, scan' \subseteq SessionIDs, kill' \in Kill,
         reading' \subseteq SessionIDs, signals' \subseteq SessionIDs
  PROVE  TypeOK'
  BY DEF TypeOK

LEMMA DiesType ==
  ASSUME TypeOK, NEW p, Dies(p)
  PROVE  /\ alive' \subseteq 1 .. born
         /\ current' \in [Procs -> 1 .. MaxSessions]
         /\ logs' \subseteq SessionIDs
<1>1. 1 \in 1 .. MaxSessions
  BY SessionsAssumption
<1>. QED BY <1>1 DEF Dies, TypeOK

LEMMA MachineType == TypeOK /\ Machine => TypeOK'
<1> SUFFICES ASSUME TypeOK, Machine PROVE TypeOK'
  OBVIOUS
<1>0. alive \subseteq Procs
  BY AliveProcs
<1>1. CASE Born
  <2>1. born + 1 \in 1 .. MaxProcs /\ born' = born + 1
    BY <1>1, SessionsAssumption DEF Born, TypeOK
  <2>2. born \in Nat /\ alive \subseteq 1 .. born /\ alive' = alive \cup {born + 1}
    BY <1>1, SessionsAssumption DEF Born, TypeOK
  <2>3. alive' \subseteq 1 .. born'
    BY <2>1, <2>2
  <2>4. MaxProcs \in Nat
    BY SessionsAssumption
  <2>5. born' \in 0 .. MaxProcs
    BY <2>1, <2>4
  <2>6. UNCHANGED <<terms, chains, live, scan, kill, reading, cwd, current, logs,
                    signals, launches, losses>>
    BY <1>1 DEF Born
  <2>. QED BY <2>3, <2>5, <2>6 DEF TypeOK
<1>2. ASSUME NEW p \in alive, Exit(p) PROVE TypeOK'
  BY <1>2, DiesType DEF Exit, TypeOK
<1>3. ASSUME NEW p \in alive, WriteLog(p) PROVE TypeOK'
  BY <1>0, <1>3, SessionType DEF WriteLog, TypeOK
<1>4. ASSUME NEW p \in alive, Resume(p) PROVE TypeOK'
  <2>1. current[p] + 1 \in 1 .. MaxSessions
    BY <1>0, <1>4, SessionsAssumption DEF Resume, TypeOK
  <2>2. <<p, current[p] + 1>> \in SessionIDs
    BY <1>0, <2>1 DEF SessionIDs
  <2>. QED BY <1>0, <1>4, <2>1, <2>2 DEF Resume, TypeOK
<1>5. ASSUME NEW p \in alive, Prompt(p) PROVE TypeOK'
  BY <1>0, <1>5, SessionType DEF Prompt, TypeOK
<1>. QED BY <1>1, <1>2, <1>3, <1>4, <1>5 DEF Machine

LEMMA LaunchType == ASSUME TypeOK, NEW d \in Dirs, handleLaunchResult(d) PROVE TypeOK'
<1>1. PICK k \in Lowest(FreeKeys, 1), c \in Lowest(FreeChains, 1) :
        /\ terms' = [terms EXCEPT ![k] = Pending(d)]
        /\ chains' = [chains EXCEPT ![c] = Discover(k, d, Tracked)]
  BY DEF handleLaunchResult
<1>2. k \in Keys /\ c \in Chains
  BY DEF Lowest, FreeKeys, FreeChains
<1>3. Tracked \subseteq Procs
  BY UsedTerminal DEF Tracked, Terminal
<1>4. Pending(d) \in Terminal /\ Discover(k, d, Tracked) \in Stage
  BY <1>2, <1>3, StageTypes, NewTerminals
<1>5. launches' \in 0 .. MaxLaunches
  BY SessionsAssumption DEF handleLaunchResult, TypeOK
<1>6. terms' \in [Keys -> {None} \cup Terminal] /\ chains' \in [Chains -> Stage]
  BY <1>1, <1>2, <1>4 DEF TypeOK
<1>. QED BY <1>5, <1>6 DEF handleLaunchResult, TypeOK, machine

LEMMA StepType == ASSUME TypeOK, NEW c \in Chains, Step(c) PROVE TypeOK'
<1> DEFINE m == chains[c]
           k == m.key
           e == terms[k]
<1>0. m \in Stage
  BY DEF TypeOK
<1>1. CASE discover(c)
  <2>1. k \in Keys
    BY <1>0, <1>1, StageFields DEF discover
  <2>2. \A p \in RunsIn(m.dir) : Found(k, Session(p)) \in Stage
    BY <2>1, AliveProcs, SessionType, StageTypes DEF RunsIn
  <2>3. PICK x \in Stage : Becomes(c, x)
    BY <1>1, <2>1, <2>2, StageTypes DEF discover
  <2>4. chains' \in [Chains -> Stage]
    BY <2>3, BecomesType
  <2>. QED BY <1>1, <2>4, FrameType DEF discover, TypeOK, machine
<1>2. CASE handleSessionFound(c)
  <2>1. k \in Keys /\ m.sid \in SessionIDs /\ m.sid[1] \in Procs
    BY <1>0, <1>2, StageFields DEF handleSessionFound, SessionIDs
  <2>2. CASE k \in Used
    <3>1. e \in Terminal
      BY <2>2, UsedTerminal
    <3>2. terms' = [terms EXCEPT ![k] = [e EXCEPT !.pid = m.sid[1], !.sid = m.sid]]
      BY <1>2, <2>2 DEF handleSessionFound, TypeOK
    <3>3. terms' \in [Keys -> {None} \cup Terminal]
      BY <2>1, <3>1, <3>2, TerminalFields DEF TypeOK
    <3>4. chains' \in [Chains -> Stage]
      BY <1>2, <2>1, <2>2, StageTypes, BecomesType DEF handleSessionFound
    <3>. QED BY <1>2, <3>3, <3>4, FrameType DEF handleSessionFound, TypeOK, machine
  <2>3. CASE k \notin Used
    <3>1. chains' \in [Chains -> Stage]
      BY <1>2, <2>1, <2>3, StageTypes, BecomesType DEF handleSessionFound
    <3>. QED BY <1>2, <2>3, <3>1, FrameType DEF handleSessionFound, TypeOK, machine
  <2>. QED BY <2>2, <2>3
<1>3. CASE handleSessionLost(c)
  <2>1. k \in Keys
    BY <1>0, <1>3, StageFields DEF handleSessionLost
  <2>2. chains' \in [Chains -> Stage]
    BY <1>3, <2>1, StageTypes, BecomesType DEF handleSessionLost
  <2>3. terms' \in [Keys -> {None} \cup Terminal]
    <3>1. CASE k \in Used
      <4>1. terms' = [terms EXCEPT ![k] = [e EXCEPT !.state = "ended"]]
        BY <1>3, <3>1 DEF handleSessionLost, TypeOK
      <4>. QED BY <2>1, <3>1, <4>1, UsedTerminal, TerminalFields DEF TypeOK, States
    <3>. QED BY <1>3, <3>1 DEF handleSessionLost, TypeOK
  <2>4. live' \subseteq Watchers
    BY <1>3 DEF handleSessionLost, TypeOK
  <2>. QED BY <1>3, <2>2, <2>3, <2>4, FrameType DEF handleSessionLost, TypeOK, machine
<1>4. CASE waitForLog(c)
  <2>1. k \in Keys /\ m.sid \in SessionIDs /\ m.sid[1] \in Procs
    BY <1>0, <1>4, StageFields DEF waitForLog, SessionIDs
  <2>2. [id |-> c, sid |-> m.sid] \in Watchers
    BY <2>1 DEF Watchers
  <2>3. Session(m.sid[1]) \in SessionIDs
    BY <2>1, SessionType
  <2>4. chains' \in [Chains -> Stage]
    BY <1>4, <2>1, <2>2, <2>3, StageTypes, BecomesType DEF waitForLog
  <2>5. live' \subseteq Watchers
    BY <1>4, <2>2 DEF waitForLog, TypeOK
  <2>. QED BY <1>4, <2>4, <2>5, FrameType DEF waitForLog, TypeOK, machine
<1>5. CASE handleWatcherReady(c)
  <2>1. k \in Keys /\ m.watcher \in Watchers /\ m.watcher.sid \in SessionIDs
    BY <1>0, <1>5, StageFields DEF handleWatcherReady, Watchers
  <2>2. CASE /\ live' = live \ {m.watcher}
             /\ Becomes(c, Idle)
             /\ UNCHANGED terms
    <3>1. chains' \in [Chains -> Stage]
      BY <2>1, <2>2, StageTypes, BecomesType
    <3>. QED BY <1>5, <2>2, <3>1, FrameType DEF handleWatcherReady, TypeOK, machine
  <2>3. CASE /\ k \in Used
             /\ \E s \in IF e.state = "unknown" THEN {"unknown", "active"} ELSE {e.state} :
                   terms' = [terms EXCEPT ![k].sid = m.watcher.sid,
                                          ![k].watcher = m.watcher,
                                          ![k].state = s]
             /\ Becomes(c, Watch(k, m.watcher))
             /\ UNCHANGED live
    <3>1. e \in Terminal
      BY <2>3, UsedTerminal
    <3>2. PICK s \in IF e.state = "unknown" THEN {"unknown", "active"} ELSE {e.state} :
                   terms' = [terms EXCEPT ![k].sid = m.watcher.sid,
                                          ![k].watcher = m.watcher,
                                          ![k].state = s]
      BY <2>3
    <3>3. s \in States
      BY <3>1 DEF Terminal, States
    <3>4. terms' = [terms EXCEPT ![k] = [e EXCEPT !.sid = m.watcher.sid,
                                                  !.watcher = m.watcher, !.state = s]]
      BY <2>1, <3>2 DEF TypeOK
    <3>5. terms' \in [Keys -> {None} \cup Terminal]
      BY <2>1, <3>1, <3>3, <3>4, TerminalFields DEF TypeOK
    <3>6. chains' \in [Chains -> Stage]
      BY <2>1, <2>3, StageTypes, BecomesType
    <3>. QED BY <1>5, <2>3, <3>5, <3>6, FrameType DEF handleWatcherReady, TypeOK, machine
  <2>. QED BY <1>5, <2>2, <2>3 DEF handleWatcherReady
<1>6. CASE watchNext(c)
  <2>1. k \in Keys
    BY <1>0, <1>6, StageFields DEF watchNext
  <2>2. chains' \in [Chains -> Stage]
    BY <1>6, <2>1, StageTypes, BecomesType DEF watchNext
  <2>. QED BY <1>6, <2>2, FrameType DEF watchNext, TypeOK, machine
<1>7. CASE handleAgentEvent(c)
  <2>1. k \in Keys /\ m.state \in Events
    BY <1>0, <1>7, StageFields DEF handleAgentEvent
  <2>2. terms' \in [Keys -> {None} \cup Terminal]
    <3>1. CASE k \in Used /\ m.state # "none"
      <4>1. terms' = [terms EXCEPT ![k] = [e EXCEPT !.state = m.state]]
        BY <1>7, <3>1 DEF handleAgentEvent, TypeOK
      <4>. QED BY <2>1, <3>1, <4>1, UsedTerminal, TerminalFields DEF TypeOK, States, Events
    <3>. QED BY <1>7, <3>1 DEF handleAgentEvent, TypeOK
  <2>3. e.watcher \in {NoWatcher} \cup Watchers
    BY <2>1, UsedTerminal DEF Terminal, None
  <2>4. chains' \in [Chains -> Stage]
    BY <1>7, <2>1, <2>3, StageTypes, BecomesType DEF handleAgentEvent
  <2>5. signals' \subseteq SessionIDs
    BY <1>7 DEF handleAgentEvent, TypeOK
  <2>. QED BY <1>7, <2>2, <2>4, <2>5, FrameType DEF handleAgentEvent, TypeOK
<1>. QED BY <1>1, <1>2, <1>3, <1>4, <1>5, <1>6, <1>7 DEF Step

LEMMA LoseType == ASSUME TypeOK, NEW c \in Chains, Lose(c) PROVE TypeOK'
<1>1. chains[c] \in Stage /\ Idle \in Stage
  BY DEF TypeOK, Idle, Stage
<1>2. chains' \in [Chains -> Stage]
  BY <1>1, BecomesType DEF Lose
<1>3. losses' \in 0 .. MaxLosses
  BY SessionsAssumption DEF Lose, TypeOK
<1>. QED BY <1>2, <1>3 DEF Lose, TypeOK, machine

LEMMA ScanType == TypeOK /\ (Scan \/ loseScan) => TypeOK'
<1> SUFFICES ASSUME TypeOK, Scan \/ loseScan PROVE TypeOK'
  OBVIOUS
<1>1. CASE Scan
  <2>1. scan' \subseteq SessionIDs
    BY <1>1, AliveProcs, SessionType DEF Scan
  <2>. QED BY <1>1, <2>1, FrameType DEF Scan, TypeOK, machine
<1>2. CASE loseScan
  <2>1. losses' \in 0 .. MaxLosses
    BY <1>2, SessionsAssumption DEF loseScan, TypeOK
  <2>. QED BY <1>2, <2>1 DEF loseScan, TypeOK, machine
<1>. QED BY <1>1, <1>2

\* The chains and entries that a handler gives to free ids.
LEMMA LowestFree ==
  /\ \A n : Lowest(FreeKeys, n) \subseteq Keys \ Used
  /\ \A n : \A c \in Lowest(FreeChains, n) : c \in Chains /\ chains[c] = Idle
  BY DEF Lowest, FreeKeys, FreeChains

LEMMA BijectionType ==
  ASSUME NEW S, NEW T, NEW f \in Bijection(S, T)
  PROVE  f \in [S -> T]
  BY DEF Bijection, Injection

LEMMA ExistingType == TypeOK /\ handleExistingSessions => TypeOK'
<1> SUFFICES ASSUME TypeOK, handleExistingSessions PROVE TypeOK'
  OBVIOUS
<1> DEFINE new == {s \in scan : s[1] \notin Tracked /\ cwd[s[1]] \notin PendingDirs}
<1>1. PICK at \in Bijection(Lowest(FreeKeys, Cardinality(new)), new) :
        /\ terms' = [k \in Keys |-> IF k \in DOMAIN at
                                   THEN Attached(at[k], cwd[at[k][1]])
                                   ELSE terms[k]]
        /\ \E by \in Bijection(Lowest(FreeChains, Cardinality(new)), DOMAIN at) :
             chains' = [c \in Chains |-> IF c \in DOMAIN by
                                        THEN Wait(by[c], at[by[c]])
                                        ELSE chains[c]]
  BY DEF handleExistingSessions
<1>2. PICK by \in Bijection(Lowest(FreeChains, Cardinality(new)), DOMAIN at) :
        chains' = [c \in Chains |-> IF c \in DOMAIN by
                                   THEN Wait(by[c], at[by[c]])
                                   ELSE chains[c]]
  BY <1>1
<1>3. at \in [Lowest(FreeKeys, Cardinality(new)) -> new] /\ DOMAIN at \subseteq Keys
  <2>1. at \in [Lowest(FreeKeys, Cardinality(new)) -> new]
    BY BijectionType
  <2>2. Lowest(FreeKeys, Cardinality(new)) \subseteq Keys
    BY LowestFree
  <2>. QED BY <2>1, <2>2
<1>4. \A k \in DOMAIN at : at[k] \in SessionIDs /\ cwd[at[k][1]] \in Dirs
  <2>1. \A s \in SessionIDs : s[1] \in Procs
    BY DEF SessionIDs
  <2>2. new \subseteq SessionIDs
    BY DEF TypeOK
  <2>. QED BY <1>3, <2>1, <2>2 DEF TypeOK
<1>5. \A c \in DOMAIN by : by[c] \in DOMAIN at
  BY BijectionType
<1>6. terms' \in [Keys -> {None} \cup Terminal]
  BY <1>1, <1>4, NewTerminals DEF TypeOK
<1>7. \A c \in DOMAIN by : Wait(by[c], at[by[c]]) \in Stage
  BY <1>3, <1>4, <1>5, StageTypes
<1>8. chains' \in [Chains -> Stage]
  BY <1>2, <1>7 DEF TypeOK
<1>. QED BY <1>6, <1>8, FrameType DEF handleExistingSessions, TypeOK, machine

LEMMA LivenessType ==
  ASSUME TypeOK, NEW gone \in SUBSET Expired, checkSessionLiveness(gone) PROVE TypeOK'
<1>1. PICK by \in Bijection(Lowest(FreeChains, Cardinality(Switched)), Switched) :
        chains' = [c \in Chains |-> IF c \in DOMAIN by
                                   THEN Wait(by[c], Session(terms[by[c]].pid))
                                   ELSE chains[c]]
  BY DEF checkSessionLiveness
<1>2. \A k \in Switched : k \in Keys /\ k \in Used /\ Session(terms[k].pid) \in SessionIDs
  BY AliveProcs, SessionType DEF Switched, Used
<1>3. \A c \in DOMAIN by : by[c] \in Switched
  BY BijectionType
<1>4. chains' \in [Chains -> Stage]
  <2>1. \A c \in DOMAIN by : Wait(by[c], Session(terms[by[c]].pid)) \in Stage
    BY <1>2, <1>3, StageTypes
  <2>. QED BY <1>1, <2>1 DEF TypeOK
<1>5. terms' \in [Keys -> {None} \cup Terminal]
  <2>1. \A k \in Dead : [terms[k] EXCEPT !.state = "ended"] \in Terminal
    BY UsedTerminal, TerminalFields DEF Dead, States
  <2>2. \A k \in Switched : [terms[k] EXCEPT !.watcher = NoWatcher, !.state = "unknown",
                                              !.sid = Session(terms[k].pid)] \in Terminal
    BY <1>2, UsedTerminal, TerminalFields DEF States
  <2>. QED BY <2>1, <2>2 DEF checkSessionLiveness, TypeOK
<1>6. live' \subseteq Watchers /\ signals' \subseteq SessionIDs
  BY DEF checkSessionLiveness, TypeOK
<1>. QED BY <1>4, <1>5, <1>6, FrameType DEF checkSessionLiveness, TypeOK

LEMMA SignalsType == TypeOK /\ (ReadSignals \/ MatchSignals) => TypeOK'
<1> SUFFICES ASSUME TypeOK, ReadSignals \/ MatchSignals PROVE TypeOK'
  OBVIOUS
<1>1. CASE ReadSignals
  BY <1>1, FrameType DEF ReadSignals, TypeOK, machine
<1>2. CASE MatchSignals
  <2> DEFINE of(s) == {k \in Used : terms[k].sid = s}
             matched == {s \in reading : of(s) # {}}
  <2>1. PICK at \in [matched -> Used] :
          terms' = [k \in Keys |-> IF k \in Range(at)
                                   THEN [terms[k] EXCEPT !.state = "permission"]
                                   ELSE terms[k]]
    BY <1>2 DEF MatchSignals
  <2>2. Range(at) \subseteq Used
    BY DEF Range
  <2>3. terms' \in [Keys -> {None} \cup Terminal]
    BY <2>1, <2>2, UsedTerminal, TerminalFields DEF TypeOK, States
  <2>. QED BY <1>2, <2>3, FrameType DEF MatchSignals, TypeOK
<1>. QED BY <1>1, <1>2

LEMMA KillType ==
  TypeOK /\ ((\E k \in Used : showKillTerminalConfirm(k))
             \/ killTerminal \/ handleKillTerminal \/ dropKill) => TypeOK'
<1> SUFFICES ASSUME TypeOK,
                    (\E k \in Used : showKillTerminalConfirm(k))
                    \/ killTerminal \/ handleKillTerminal \/ dropKill
             PROVE  TypeOK'
  OBVIOUS
<1>1. ASSUME NEW k \in Used, showKillTerminalConfirm(k) PROVE TypeOK'
  <2>1. kill' \in Kill
    BY <1>1, UsedTerminal DEF showKillTerminalConfirm, Kill, Terminal
  <2>. QED BY <1>1, <2>1, FrameType DEF showKillTerminalConfirm, TypeOK, machine
<1>2. CASE killTerminal
  <2>1. kill \in Kill /\ kill.at = "asked" /\ kill.pid \in Procs /\ kill # NoKill
    BY <1>2 DEF killTerminal, TypeOK, Kill, NoKill
  <2>2. kill' \in Kill
    BY <1>2, <2>1 DEF killTerminal, Kill, NoKill
  <2>3. /\ alive' \subseteq 1 .. born
        /\ current' \in [Procs -> 1 .. MaxSessions]
        /\ logs' \subseteq SessionIDs
    BY <1>2, DiesType DEF killTerminal
  <2>. QED BY <1>2, <2>2, <2>3 DEF killTerminal, TypeOK
<1>3. CASE handleKillTerminal
  <2>1. kill \in Kill /\ kill.at = "done" /\ kill.key \in Keys
    BY <1>3 DEF handleKillTerminal, TypeOK, Kill, NoKill
  <2>2. terms' \in [Keys -> {None} \cup Terminal]
    <3>1. CASE kill.key \in Used
      <4>1. terms' = [terms EXCEPT ![kill.key] = [terms[kill.key] EXCEPT !.state = "ended"]]
        BY <1>3, <3>1 DEF handleKillTerminal, TypeOK
      <4>. QED BY <2>1, <3>1, <4>1, UsedTerminal, TerminalFields DEF TypeOK, States
    <3>. QED BY <1>3, <3>1 DEF handleKillTerminal, TypeOK
  <2>3. live' \subseteq Watchers /\ kill' \in Kill
    BY <1>3 DEF handleKillTerminal, TypeOK, Kill
  <2>. QED BY <1>3, <2>2, <2>3, FrameType DEF handleKillTerminal, TypeOK, machine
<1>4. CASE dropKill
  <2>1. kill' \in Kill
    BY <1>4 DEF dropKill, Kill
  <2>. QED BY <1>4, <2>1, FrameType DEF dropKill, TypeOK, machine
<1>. QED BY <1>1, <1>2, <1>3, <1>4

LEMMA NextType == TypeOK /\ [Next]_vars => TypeOK'
<1> SUFFICES ASSUME TypeOK, [Next]_vars PROVE TypeOK'
  OBVIOUS
<1>1. CASE UNCHANGED vars
  BY <1>1 DEF TypeOK, vars
<1>. QED
  BY <1>1, MachineType, LaunchType, StepType, LoseType, ScanType, ExistingType,
     LivenessType, SignalsType, KillType DEF Next

THEOREM TypeCorrect == Spec => []TypeOK
  BY InitType, NextType, PTL DEF Spec

-----------------------------------------------------------------------------
(***************************************************************************)
(* Chains carry a key, not an entry.  OwnInv says what makes that safe:    *)
(* whatever is on its way under a key is about the process the entry under *)
(* the key has, unless it is about a dead one and can only come to nothing.*)
(* A dead process stays dead, for all processes known have been born.      *)
(***************************************************************************)

EntryOwn(k) ==
    LET e == terms[k]
    IN  /\ e.pid \in 0 .. born
        /\ e.sid # NoSession => e.sid[1] = e.pid
        /\ e.watcher # NoWatcher => e.watcher.sid[1] = e.pid
        /\ e.state = "ended" => e.pid \notin alive

ChainOwn(m) ==
    LET e == terms[m.key]
    IN  /\ m.at = "discover" => m.key \in Used /\ e.pid = 0 /\ e.state # "ended"
        /\ m.at = "found" => /\ m.key \in Used /\ m.sid[1] \in 1 .. born
                             /\ e.pid = m.sid[1] \/ (e.pid = 0 /\ e.state # "ended")
        /\ m.at = "lost" => m.key \in Used /\ e.pid \notin alive
        /\ m.at = "wait" => e.pid = m.sid[1]
        /\ m.at = "ready" => e.pid = m.watcher.sid[1]
        /\ m.at = "event" => e.pid # 0
        /\ m.at = "watch" => /\ m.watcher.sid[1] \in 1 .. born
                             /\ m.watcher.sid[1] \in alive => e.pid = m.watcher.sid[1]

KillOwn ==
    /\ kill.at \in {"asked", "done"} => kill.pid \in 1 .. born
    /\ kill.at = "asked" /\ kill.pid \in alive => terms[kill.key].pid = kill.pid
    /\ kill.at = "done" => kill.pid \notin alive /\ terms[kill.key].pid = kill.pid

\* The stages that a launch goes through until its process is known.
Seeking == {"discover", "found", "lost"}
SoughtOnce ==
    \A c, d \in Chains :
        /\ chains[c].at \in Seeking /\ chains[d].at \in Seeking
        /\ chains[c].key = chains[d].key
        /\ terms[chains[c].key].pid = 0
        => c = d

OwnInv ==
    /\ \A k \in Keys : EntryOwn(k)
    /\ \A c \in Chains : ChainOwn(chains[c])
    /\ KillOwn
    /\ SoughtOnce
    /\ \A s \in scan : s[1] \in 1 .. born

\* What a step may do without touching what a chain relies on.
KeyKept(k) ==
    /\ terms'[k].pid = terms[k].pid
    /\ k \in Used => k \in Used'
    /\ terms'[k].state = "ended" => terms[k].state = "ended"
WorldKept == born' = born /\ alive' \subseteq alive

LEMMA ChainKept ==
  ASSUME TypeOK, WorldKept, NEW m \in Stage, ChainOwn(m), KeyKept(m.key)
  PROVE  ChainOwn(m)'
  BY DEF ChainOwn, KeyKept, WorldKept

LEMMA EntryKept ==
  ASSUME TypeOK, WorldKept, NEW k \in Keys, EntryOwn(k), terms'[k] = terms[k]
  PROVE  EntryOwn(k)' /\ KeyKept(k)
  BY DEF EntryOwn, KeyKept, WorldKept, Used

\* A kill is settled like a chain; a dead process needs no entry.
LEMMA KillKept ==
  ASSUME TypeOK, WorldKept, KillOwn, kill' = kill,
         kill.at \in {"asked", "done"} =>
            KeyKept(kill.key) \/ (kill.at = "asked" /\ kill.pid \notin alive)
  PROVE  KillOwn'
  BY DEF KillOwn, KeyKept, WorldKept

\* No two chains seek for one key if no chain begins to.
LEMMA SoughtKept ==
  ASSUME TypeOK, SoughtOnce,
         \A c \in Chains : chains'[c].at \in Seeking =>
            \/ terms'[chains'[c].key].pid # 0
            \/ /\ chains[c].at \in Seeking /\ chains'[c].key = chains[c].key
               /\ terms[chains[c].key].pid = 0
  PROVE  SoughtOnce'
  BY DEF SoughtOnce

LEMMA InitOwn == Init => OwnInv
<1> SUFFICES ASSUME Init PROVE OwnInv
  OBVIOUS
<1>1. TypeOK
  BY InitType
<1>2. \A k \in Keys : EntryOwn(k)
  BY DEF Init, EntryOwn, None
<1>3. \A c \in Chains : ChainOwn(chains[c])
  BY DEF Init, ChainOwn, Idle
<1>. QED BY <1>2, <1>3 DEF Init, OwnInv, KillOwn, NoKill, SoughtOnce, Seeking, Idle

\* A step that leaves the entries and the chains as they are.
LEMMA QuietOwn ==
  ASSUME TypeOK, OwnInv, WorldKept, UNCHANGED <<terms, chains>>, KillOwn',
         \A s \in scan' : s[1] \in 1 .. born
  PROVE  OwnInv'
<1>1. \A k \in Keys : EntryOwn(k)'
  BY EntryKept DEF OwnInv
<1>2. ASSUME NEW c \in Chains PROVE ChainOwn(chains[c])'
  <2>1. ChainOwn(chains[c])
    BY DEF OwnInv
  <2>. QED BY <2>1 DEF ChainOwn, WorldKept, Used
<1>3. SoughtOnce'
  BY DEF OwnInv, SoughtOnce
<1>. QED BY <1>1, <1>2, <1>3 DEF OwnInv, WorldKept

LEMMA BornOwn == ASSUME TypeOK, OwnInv, Born PROVE OwnInv'
<1>1. /\ UNCHANGED <<terms, chains, kill, scan>>
      /\ born \in Nat /\ born' = born + 1
      /\ alive' = alive \cup {born + 1}
  BY SessionsAssumption DEF Born, TypeOK
<1>2. \A p \in 0 .. born : p \in 0 .. born' /\ (p \notin alive => p \notin alive')
  BY <1>1
<1>3. ASSUME NEW k \in Keys PROVE EntryOwn(k)'
  BY <1>1, <1>2 DEF OwnInv, EntryOwn
<1>4. ASSUME NEW c \in Chains PROVE ChainOwn(chains[c])'
  <2>1. ChainOwn(chains[c])
    BY DEF OwnInv
  <2>2. chains[c].at \in {"lost", "wait", "ready", "event"} =>
          chains[c].key \in Keys
    BY StageFields DEF TypeOK
  <2>3. chains[c].at = "lost" => terms[chains[c].key].pid \in 0 .. born
    BY <2>2 DEF OwnInv, EntryOwn
  <2>. QED BY <1>1, <1>2, <2>1, <2>3 DEF ChainOwn, Used
<1>5. KillOwn'
  <2>1. kill.at \in {"asked", "done"} => kill.pid \in 1 .. born
    BY DEF OwnInv, KillOwn
  <2>. QED BY <1>1, <1>2, <2>1 DEF OwnInv, KillOwn
<1>6. SoughtOnce'
  BY <1>1 DEF OwnInv, SoughtOnce
<1>7. \A s \in scan' : s[1] \in 1 .. born'
  BY <1>1 DEF OwnInv
<1>. QED BY <1>3, <1>4, <1>5, <1>6, <1>7 DEF OwnInv

LEMMA MachineOwn == ASSUME TypeOK, OwnInv, Machine PROVE OwnInv'
<1>1. ASSUME NEW p \in alive, Exit(p) \/ WriteLog(p) \/ Resume(p) \/ Prompt(p)
      PROVE  OwnInv'
  <2>1. WorldKept /\ UNCHANGED <<terms, chains, kill, scan>>
    BY <1>1 DEF Exit, Dies, WriteLog, Resume, Prompt, WorldKept
  <2>2. KillOwn'
    BY <2>1 DEF OwnInv, KillOwn, WorldKept
  <2>. QED BY <2>1, <2>2, QuietOwn DEF OwnInv
<1>. QED BY <1>1, BornOwn DEF Machine

\* A step of one chain that touches at most the entry under its key.
LEMMA StepOwn ==
  ASSUME TypeOK, OwnInv, WorldKept, UNCHANGED <<kill, scan>>,
         NEW c \in Chains, NEW x \in Stage, Becomes(c, x),
         NEW k \in Keys, \A j \in Keys \ {k} : terms'[j] = terms[j],
         EntryOwn(k)', terms'[k].pid = terms[k].pid \/ terms[k].pid = 0,
         ChainOwn(x)', \A d \in Chains \ {c} : ChainOwn(chains[d])',
         x.at \in Seeking => /\ x.key = k
                             /\ \/ terms'[k].pid # 0
                                \/ chains[c].at \in Seeking /\ chains[c].key = k
  PROVE  OwnInv'
<1>1. chains'[c] = x /\ \A d \in Chains \ {c} : chains'[d] = chains[d]
  BY DEF Becomes, TypeOK
<1>2. \A j \in Keys : EntryOwn(j)'
  BY EntryKept DEF OwnInv
<1>3. \A d \in Chains : ChainOwn(chains[d])'
  BY <1>1 DEF ChainOwn
<1>4. KillOwn'
  <2>1. kill.at \in {"asked", "done"} => kill.key \in Keys /\ kill.pid \in 1 .. born
    BY DEF OwnInv, KillOwn, TypeOK, Kill, NoKill
  <2>2. kill.at \in {"asked", "done"} /\ terms[kill.key].pid = kill.pid =>
          terms'[kill.key].pid = kill.pid
    BY <2>1
  <2>. QED BY <2>1, <2>2 DEF OwnInv, KillOwn, WorldKept
<1>5. SoughtOnce'
  <2>1. ASSUME NEW d \in Chains, chains'[d].at \in Seeking,
               terms'[chains'[d].key].pid = 0
        PROVE  /\ chains[d].at \in Seeking /\ chains'[d].key = chains[d].key
               /\ terms[chains[d].key].pid = 0
    <3>1. chains[d].at \in Seeking /\ chains'[d].key = chains[d].key
      BY <1>1, <2>1
    <3>2. chains[d].key \in Keys
      BY <3>1, StageFields DEF TypeOK, Seeking
    <3>. QED BY <2>1, <3>1, <3>2
  <2>. QED BY <2>1, SoughtKept DEF OwnInv
<1>. QED BY <1>2, <1>3, <1>4, <1>5 DEF OwnInv, WorldKept

\* ... and that leaves the entry its PID.
LEMMA StepKept ==
  ASSUME TypeOK, OwnInv, WorldKept, UNCHANGED <<kill, scan>>,
         NEW c \in Chains, NEW x \in Stage, Becomes(c, x),
         NEW k \in Keys, \A j \in Keys \ {k} : terms'[j] = terms[j],
         KeyKept(k), EntryOwn(k)', ChainOwn(x)',
         x.at \in Seeking => /\ x.key = k
                             /\ \/ terms'[k].pid # 0
                                \/ chains[c].at \in Seeking /\ chains[c].key = k
  PROVE  OwnInv'
<1>1. \A j \in Keys : KeyKept(j)
  BY DEF KeyKept, Used
<1>2. ASSUME NEW d \in Chains \ {c} PROVE ChainOwn(chains[d])'
  <2>1. chains'[d] = chains[d] /\ chains[d] \in Stage /\ ChainOwn(chains[d])
    BY DEF Becomes, TypeOK, OwnInv
  <2>2. CASE chains[d].at = "idle"
    BY <2>1, <2>2 DEF ChainOwn
  <2>3. CASE chains[d].at # "idle"
    <3>1. KeyKept(chains[d].key)
      BY <1>1, <2>1, <2>3, StageFields
    <3>. QED BY <2>1, <3>1 DEF ChainOwn, KeyKept, WorldKept
  <2>. QED BY <2>2, <2>3
<1>. QED BY <1>2, StepOwn DEF KeyKept

\* What the parts of OwnInv say of one key and one chain.
LEMMA OwnFacts ==
  ASSUME TypeOK, OwnInv
  PROVE  /\ alive \subseteq 1 .. born /\ 0 \notin alive
         /\ \A k \in Keys : EntryOwn(k) /\ (terms[k].pid # 0 => k \in Used)
         /\ \A c \in Chains : chains[c] \in Stage /\ ChainOwn(chains[c])
  BY DEF TypeOK, OwnInv, Used, None

\* A chain of a key whose entry stays as it is.
LEMMA OtherKept ==
  ASSUME TypeOK, WorldKept, NEW n \in Stage, ChainOwn(n),
         n.key \in Keys => terms'[n.key] = terms[n.key]
  PROVE  ChainOwn(n)'
<1>1. CASE n.at = "idle"
  BY <1>1 DEF ChainOwn
<1>2. CASE n.at # "idle"
  <2>1. n.key \in Keys
    BY <1>2, StageFields
  <2>2. KeyKept(n.key)
    BY <2>1 DEF KeyKept, Used
  <2>. QED BY <2>2, ChainKept
<1>. QED BY <1>1, <1>2

\* The fields of what the constructors of stages give.
LEMMA StageOwn ==
  ASSUME NEW k, NEW s, NEW w, NEW e
  PROVE  /\ Found(k, s).at = "found" /\ Found(k, s).key = k /\ Found(k, s).sid = s
         /\ Wait(k, s).at = "wait" /\ Wait(k, s).key = k /\ Wait(k, s).sid = s
         /\ Ready(k, w).at = "ready" /\ Ready(k, w).key = k /\ Ready(k, w).watcher = w
         /\ Watch(k, w).at = "watch" /\ Watch(k, w).key = k /\ Watch(k, w).watcher = w
         /\ Event(k, e).at = "event" /\ Event(k, e).key = k
         /\ Lost(k).at = "lost" /\ Lost(k).key = k
         /\ Idle.at = "idle"
  BY DEF Found, Wait, Ready, Watch, Event, Lost, Idle

\* The chain that takes a step, with names that a step does not change.
LEMMA StepOf ==
  ASSUME TypeOK, OwnInv, NEW c \in Chains, Step(c)
  PROVE  \E m \in Stage, k \in Keys : m = chains[c] /\ k = m.key /\ ChainOwn(m)
<1>1. chains[c] \in Stage /\ chains[c].at # "idle" /\ ChainOwn(chains[c])
  BY OwnFacts DEF Step, discover, handleSessionFound, handleSessionLost, waitForLog,
                  handleWatcherReady, watchNext, handleAgentEvent
<1>. QED BY <1>1, StageFields

LEMMA DiscoverOwn == ASSUME TypeOK, OwnInv, NEW c \in Chains, discover(c) PROVE OwnInv'
<1>1. PICK m \in Stage, k \in Keys : m = chains[c] /\ k = m.key /\ ChainOwn(m)
  BY StepOf DEF Step
<1>2. m.at = "discover" /\ k \in Used /\ terms[k].pid = 0 /\ terms[k].state # "ended"
  BY <1>1 DEF ChainOwn, discover
<1>3. WorldKept /\ UNCHANGED <<kill, scan, terms, alive, born>>
  BY DEF discover, machine, WorldKept
<1>4. EntryOwn(k)' /\ KeyKept(k)
  BY <1>3, OwnFacts, EntryKept
<1>5. PICK x \in Stage :
        /\ Becomes(c, x) /\ x.key = k /\ x.at \in {"found", "lost"}
        /\ x.at = "found" => x.sid[1] \in alive
  <2>1. ASSUME NEW p \in RunsIn(m.dir)
        PROVE  /\ Found(k, Session(p)) \in Stage
               /\ Session(p)[1] \in alive
    BY AliveProcs, SessionType, StageTypes DEF RunsIn, Session
  <2>2. Lost(k) \in Stage
    BY StageTypes
  <2>. QED BY <1>1, <2>1, <2>2, StageOwn DEF discover
<1>6. ChainOwn(x)'
  BY <1>2, <1>3, <1>5, OwnFacts DEF ChainOwn, Used
<1>7. chains[c].at \in Seeking /\ chains[c].key = k
  BY <1>1, <1>2 DEF Seeking
<1>. QED BY <1>1, <1>3, <1>4, <1>5, <1>6, <1>7, StepKept

LEMMA WaitOwn == ASSUME TypeOK, OwnInv, NEW c \in Chains, waitForLog(c) PROVE OwnInv'
<1>1. PICK m \in Stage, k \in Keys : m = chains[c] /\ k = m.key /\ ChainOwn(m)
  BY StepOf DEF Step
<1>2. m.at = "wait" /\ m.sid \in SessionIDs /\ m.sid[1] \in Procs
      /\ terms[k].pid = m.sid[1]
  BY <1>1, StageFields DEF ChainOwn, waitForLog, SessionIDs
<1>3. WorldKept /\ UNCHANGED <<kill, scan, terms, alive, born>>
  BY DEF waitForLog, machine, WorldKept
<1>4. EntryOwn(k)' /\ KeyKept(k)
  BY <1>3, OwnFacts, EntryKept
<1>5. k \in Used /\ terms[k].pid \in 1 .. born
  BY <1>2, OwnFacts, SessionsAssumption DEF EntryOwn, Procs, TypeOK
<1>6. PICK x \in Stage :
        /\ Becomes(c, x) /\ x.key = k /\ x.at \in {"found", "lost", "ready"}
        /\ x.at = "lost" => m.sid[1] \notin alive
        /\ x.at = "found" => x.sid[1] = m.sid[1]
        /\ x.at = "ready" => x.watcher.sid = m.sid
  <2>1. CASE m.sid[1] \notin alive /\ Becomes(c, Lost(k))
    BY <2>1, StageTypes, StageOwn
  <2>2. CASE Becomes(c, Found(k, Session(m.sid[1])))
    <3>1. Session(m.sid[1])[1] = m.sid[1] /\ Found(k, Session(m.sid[1])) \in Stage
      BY <1>2, SessionType, StageTypes DEF Session
    <3>. QED BY <2>2, <3>1, StageOwn
  <2>3. CASE Becomes(c, Ready(k, [id |-> c, sid |-> m.sid]))
    <3>1. PICK w \in Watchers : w.sid = m.sid /\ Becomes(c, Ready(k, w))
      BY <1>2, <2>3 DEF Watchers
    <3>2. Ready(k, w) \in Stage
      BY StageTypes
    <3>. QED BY <3>1, <3>2, StageOwn
  <2>. QED BY <1>1, <2>1, <2>2, <2>3 DEF waitForLog
<1>7. ChainOwn(x)'
  BY <1>2, <1>3, <1>5, <1>6 DEF ChainOwn, Used
<1>8. terms'[k].pid # 0
  BY <1>2, <1>3 DEF Procs
<1>. QED BY <1>3, <1>4, <1>6, <1>7, <1>8, StepKept

LEMMA FoundOwn == ASSUME TypeOK, OwnInv, NEW c \in Chains, handleSessionFound(c) PROVE OwnInv'
<1>1. PICK m \in Stage, k \in Keys : m = chains[c] /\ k = m.key /\ ChainOwn(m)
  BY StepOf DEF Step
<1>2. /\ m.at = "found" /\ m.sid \in SessionIDs /\ m.sid[1] \in Procs /\ m.sid # NoSession
      /\ k \in Used /\ m.sid[1] \in 1 .. born
      /\ terms[k].pid = m.sid[1] \/ (terms[k].pid = 0 /\ terms[k].state # "ended")
  BY <1>1, StageFields DEF ChainOwn, handleSessionFound, SessionIDs, NoSession, Procs
<1>3. WorldKept /\ UNCHANGED <<kill, scan, alive, born>>
  BY DEF handleSessionFound, machine, WorldKept
<1>4. /\ terms' = [terms EXCEPT ![k] = [terms[k] EXCEPT !.pid = m.sid[1], !.sid = m.sid]]
      /\ Becomes(c, Wait(k, m.sid))
  BY <1>1, <1>2 DEF handleSessionFound, TypeOK
<1>5. /\ terms'[k] = [terms[k] EXCEPT !.pid = m.sid[1], !.sid = m.sid]
      /\ \A j \in Keys \ {k} : terms'[j] = terms[j]
  BY <1>4 DEF TypeOK
<1>6. /\ terms[k] \in Terminal
      /\ terms'[k].pid = m.sid[1] /\ terms'[k].sid = m.sid
      /\ terms'[k].watcher = terms[k].watcher /\ terms'[k].state = terms[k].state
      /\ k \in Used'
  <2>1. terms[k] \in Terminal
    BY <1>2, UsedTerminal
  <2>2. /\ terms'[k].pid = m.sid[1] /\ terms'[k].sid = m.sid
        /\ terms'[k].watcher = terms[k].watcher /\ terms'[k].state = terms[k].state
    BY <1>5, <2>1 DEF Terminal
  <2>. QED BY <1>2, <2>1, <2>2 DEF Used, None, Procs
<1>7. Wait(k, m.sid) \in Stage /\ ChainOwn(Wait(k, m.sid))'
  <2>1. Wait(k, m.sid) \in Stage
    BY <1>2, StageTypes
  <2>. QED BY <1>6, <2>1, StageOwn DEF ChainOwn
<1>8. Wait(k, m.sid).at \notin Seeking
  BY StageOwn DEF Seeking
<1>9. CASE terms[k].pid = m.sid[1]
  <2>1. KeyKept(k)
    BY <1>6, <1>9 DEF KeyKept
  <2>2. EntryOwn(k)'
    BY <1>3, <1>6, <1>9, OwnFacts DEF EntryOwn
  <2>. QED BY <1>3, <1>4, <1>5, <1>7, <1>8, <2>1, <2>2, StepKept
<1>10. CASE terms[k].pid = 0 /\ terms[k].state # "ended"
  <2>1. terms[k].watcher = NoWatcher
    BY <1>6, <1>10, OwnFacts DEF EntryOwn, Terminal, Watchers, SessionIDs, Procs
  <2>2. EntryOwn(k)'
    BY <1>2, <1>3, <1>6, <1>10, <2>1 DEF EntryOwn
  <2>3. ASSUME NEW d \in Chains \ {c} PROVE ChainOwn(chains[d])'
    <3>1. PICK n \in Stage : n = chains[d] /\ n = chains'[d] /\ ChainOwn(n)
      BY <1>4, OwnFacts DEF Becomes
    <3>2. CASE n.key # k
      <4>1. ChainOwn(n)'
        BY <1>3, <1>5, <3>1, <3>2, OtherKept
      <4>. QED BY <3>1, <4>1 DEF ChainOwn
    <3>3. CASE n.key = k
      <4>1. n.at \notin Seeking
        BY <1>1, <1>2, <1>10, <3>1, <3>3 DEF OwnInv, SoughtOnce, Seeking
      <4>2. n.at \notin {"wait", "ready", "event"}
        BY <1>10, <3>1, <3>3, StageFields DEF ChainOwn, SessionIDs, Watchers, Procs
      <4>3. n.at = "watch" => n.watcher.sid[1] \in 1 .. born /\ n.watcher.sid[1] \notin alive
        BY <1>10, <3>1, <3>3, StageFields DEF ChainOwn, SessionIDs, Watchers, Procs
      <4>. QED BY <1>3, <3>1, <4>1, <4>2, <4>3 DEF ChainOwn, Seeking
    <3>. QED BY <3>2, <3>3
  <2>. QED BY <1>3, <1>4, <1>5, <1>7, <1>8, <1>10, <2>2, <2>3, StepOwn
<1>. QED BY <1>2, <1>9, <1>10

LEMMA LostOwn == ASSUME TypeOK, OwnInv, NEW c \in Chains, handleSessionLost(c) PROVE OwnInv'
<1>1. PICK m \in Stage, k \in Keys : m = chains[c] /\ k = m.key /\ ChainOwn(m)
  BY StepOf DEF Step
<1>2. m.at = "lost" /\ k \in Used /\ terms[k].pid \notin alive
  BY <1>1 DEF ChainOwn, handleSessionLost
<1>3. WorldKept /\ UNCHANGED <<kill, scan, alive, born>>
  BY <1>1, <1>2 DEF handleSessionLost, machine, WorldKept
<1>4. /\ terms' = [terms EXCEPT ![k] = [terms[k] EXCEPT !.state = "ended"]]
      /\ Becomes(c, Idle)
  BY <1>1, <1>2 DEF handleSessionLost, TypeOK
<1>5. /\ terms'[k] = [terms[k] EXCEPT !.state = "ended"]
      /\ \A j \in Keys \ {k} : terms'[j] = terms[j]
  BY <1>4 DEF TypeOK
<1>6. /\ terms'[k].pid = terms[k].pid /\ terms'[k].sid = terms[k].sid
      /\ terms'[k].watcher = terms[k].watcher
      /\ terms[k] \in Terminal /\ terms'[k] \in Terminal /\ k \in Used'
  <2>1. terms[k] \in Terminal /\ terms'[k] \in Terminal
    BY <1>2, <1>5, UsedTerminal, TerminalFields DEF States
  <2>2. terms'[k] # None
    BY <2>1 DEF Terminal, None
  <2>. QED BY <1>5, <2>1, <2>2 DEF Terminal, Used
<1>7. EntryOwn(k)'
  BY <1>2, <1>3, <1>6, OwnFacts DEF EntryOwn
<1>8. Idle \in Stage /\ ChainOwn(Idle)' /\ Idle.at \notin Seeking
  BY StageTypes, StageOwn DEF ChainOwn, Seeking
<1>9. ASSUME NEW d \in Chains \ {c} PROVE ChainOwn(chains[d])'
  <2>1. PICK n \in Stage : n = chains[d] /\ n = chains'[d] /\ ChainOwn(n)
    BY <1>4, OwnFacts DEF Becomes
  <2>2. CASE n.key # k
    <3>1. ChainOwn(n)'
      BY <1>3, <1>5, <2>1, <2>2, OtherKept
    <3>. QED BY <2>1, <3>1 DEF ChainOwn
  <2>3. CASE n.key = k
    <3>1. terms[k].pid = 0 => n.at \notin Seeking
      BY <1>1, <1>2, <2>1, <2>3 DEF OwnInv, SoughtOnce, Seeking
    <3>2. n.at = "discover" => terms[k].pid = 0
      BY <2>1, <2>3 DEF ChainOwn
    <3>. QED BY <1>3, <1>6, <2>1, <2>3, <3>1, <3>2 DEF ChainOwn, Seeking
  <2>. QED BY <2>2, <2>3
<1>. QED BY <1>3, <1>4, <1>5, <1>6, <1>7, <1>8, <1>9, StepOwn

\* The end of a chain.
LEMMA IdleOwn ==
  ASSUME TypeOK, OwnInv, WorldKept, UNCHANGED <<kill, scan, terms>>,
         NEW c \in Chains, chains[c].at # "idle", Becomes(c, Idle)
  PROVE  OwnInv'
<1>1. PICK k \in Keys : k = chains[c].key
  BY OwnFacts, StageFields
<1>2. EntryOwn(k)' /\ KeyKept(k)
  BY OwnFacts, EntryKept
<1>3. Idle \in Stage /\ ChainOwn(Idle)' /\ Idle.at \notin Seeking
  BY <1>1, StageTypes, StageOwn DEF ChainOwn, Seeking
<1>. QED BY <1>2, <1>3, StepKept

LEMMA ReadyOwn == ASSUME TypeOK, OwnInv, NEW c \in Chains, handleWatcherReady(c) PROVE OwnInv'
<1>1. PICK m \in Stage, k \in Keys : m = chains[c] /\ k = m.key /\ ChainOwn(m)
  BY StepOf DEF Step
<1>2. /\ m.at = "ready" /\ m.watcher \in Watchers /\ m.watcher.sid \in SessionIDs
      /\ m.watcher.sid[1] \in Procs /\ terms[k].pid = m.watcher.sid[1]
  BY <1>1, StageFields DEF ChainOwn, handleWatcherReady, Watchers, SessionIDs
<1>3. WorldKept /\ UNCHANGED <<kill, scan, alive, born>>
  BY DEF handleWatcherReady, machine, WorldKept
<1>4. CASE Becomes(c, Idle) /\ UNCHANGED terms
  BY <1>1, <1>2, <1>3, <1>4, IdleOwn
<1>5. CASE /\ k \in Used
           /\ \E s \in IF terms[k].state = "unknown" THEN {"unknown", "active"}
                                                     ELSE {terms[k].state} :
                 terms' = [terms EXCEPT ![k].sid = m.watcher.sid,
                                        ![k].watcher = m.watcher,
                                        ![k].state = s]
           /\ Becomes(c, Watch(k, m.watcher))
  <2>1. PICK s \in IF terms[k].state = "unknown" THEN {"unknown", "active"}
                                                 ELSE {terms[k].state} :
           terms' = [terms EXCEPT ![k] = [terms[k] EXCEPT !.sid = m.watcher.sid,
                                                          !.watcher = m.watcher,
                                                          !.state = s]]
    BY <1>5 DEF TypeOK
  <2>2. /\ terms'[k] = [terms[k] EXCEPT !.sid = m.watcher.sid,
                                        !.watcher = m.watcher, !.state = s]
        /\ \A j \in Keys \ {k} : terms'[j] = terms[j]
    BY <2>1 DEF TypeOK
  <2>3. /\ terms[k] \in Terminal
        /\ terms'[k].pid = terms[k].pid /\ terms'[k].sid = m.watcher.sid
        /\ terms'[k].watcher = m.watcher /\ terms'[k].state = s
    BY <1>5, <2>2, UsedTerminal DEF Terminal
  <2>4. s = "ended" => terms[k].state = "ended"
    BY <2>1
  <2>5. k \in Used'
    BY <1>2, <2>3 DEF Used, None, Procs
  <2>6. KeyKept(k) /\ EntryOwn(k)'
    BY <1>2, <1>3, <2>3, <2>4, <2>5, OwnFacts DEF KeyKept, EntryOwn
  <2>7. m.watcher.sid[1] \in 1 .. born
    BY <1>2, OwnFacts, SessionsAssumption DEF EntryOwn, Procs, TypeOK
  <2>8. /\ Watch(k, m.watcher) \in Stage /\ ChainOwn(Watch(k, m.watcher))'
        /\ Watch(k, m.watcher).at \notin Seeking
    <3>1. PICK w \in Watchers : w = m.watcher
      BY <1>2
    <3>2. /\ Watch(k, w) \in Stage
          /\ Watch(k, w).at = "watch" /\ Watch(k, w).key = k /\ Watch(k, w).watcher = w
      <4>1. Watch(k, w) \in Stage
        BY StageTypes
      <4>. QED BY <4>1 DEF Watch
    <3>. QED BY <1>2, <1>3, <2>3, <2>7, <3>1, <3>2 DEF ChainOwn, Seeking
  <2>. QED BY <1>3, <1>5, <2>2, <2>6, <2>8, StepKept
<1>. QED BY <1>1, <1>4, <1>5 DEF handleWatcherReady

LEMMA WatchOwn == ASSUME TypeOK, OwnInv, NEW c \in Chains, watchNext(c) PROVE OwnInv'
<1>1. PICK m \in Stage, k \in Keys : m = chains[c] /\ k = m.key /\ ChainOwn(m)
  BY StepOf DEF Step
<1>2. /\ m.at = "watch" /\ m.watcher.sid[1] \in Procs
      /\ m.watcher.sid[1] \in alive => terms[k].pid = m.watcher.sid[1]
  BY <1>1, StageFields DEF ChainOwn, watchNext, Watchers, SessionIDs
<1>3. WorldKept /\ UNCHANGED <<kill, scan, alive, born, terms>>
  BY DEF watchNext, machine, WorldKept
<1>4. CASE Becomes(c, Idle)
  BY <1>1, <1>2, <1>3, <1>4, IdleOwn
<1>5. ASSUME m.watcher.sid[1] \in alive, NEW e \in Events, Becomes(c, Event(k, e))
      PROVE  OwnInv'
  <2>1. EntryOwn(k)' /\ KeyKept(k)
    BY <1>3, OwnFacts, EntryKept
  <2>2. Event(k, e) \in Stage /\ Event(k, e).at = "event" /\ Event(k, e).key = k
    <3>1. Event(k, e) \in Stage
      BY StageTypes
    <3>. QED BY <3>1 DEF Event
  <2>3. ChainOwn(Event(k, e))' /\ Event(k, e).at \notin Seeking
    BY <1>2, <1>3, <1>5, <2>2 DEF ChainOwn, Seeking, Procs
  <2>. QED BY <1>3, <1>5, <2>1, <2>2, <2>3, StepKept
<1>. QED BY <1>1, <1>4, <1>5 DEF watchNext

LEMMA EventOwn == ASSUME TypeOK, OwnInv, NEW c \in Chains, handleAgentEvent(c) PROVE OwnInv'
<1>1. PICK m \in Stage, k \in Keys : m = chains[c] /\ k = m.key /\ ChainOwn(m)
  BY StepOf DEF Step
<1>2. m.at = "event" /\ m.state \in Events /\ terms[k].pid # 0 /\ k \in Used
  BY <1>1, StageFields, OwnFacts DEF ChainOwn, handleAgentEvent
<1>3. WorldKept /\ UNCHANGED <<kill, scan, alive, born>>
  BY DEF handleAgentEvent, WorldKept
<1>4. /\ terms' = IF m.state # "none"
                  THEN [terms EXCEPT ![k] = [terms[k] EXCEPT !.state = m.state]]
                  ELSE terms
      /\ Becomes(c, IF terms[k].watcher # NoWatcher THEN Watch(k, terms[k].watcher) ELSE Idle)
  BY <1>1, <1>2 DEF handleAgentEvent, TypeOK
<1>5. \A j \in Keys \ {k} : terms'[j] = terms[j]
  BY <1>4 DEF TypeOK
<1>6. /\ terms[k] \in Terminal
      /\ terms'[k].pid = terms[k].pid /\ terms'[k].sid = terms[k].sid
      /\ terms'[k].watcher = terms[k].watcher
      /\ terms'[k].state = "ended" => terms[k].state = "ended"
  <2>1. terms[k] \in Terminal
    BY <1>2, UsedTerminal
  <2>2. m.state # "none" => terms'[k] = [terms[k] EXCEPT !.state = m.state]
    BY <1>4 DEF TypeOK
  <2>3. m.state = "none" => terms'[k] = terms[k]
    BY <1>4
  <2>. QED BY <1>2, <2>1, <2>2, <2>3 DEF Terminal, Events
<1>7. k \in Used'
  BY <1>2, <1>6 DEF Used, None
<1>8. KeyKept(k) /\ EntryOwn(k)'
  BY <1>3, <1>6, <1>7, OwnFacts DEF KeyKept, EntryOwn
<1>9. PICK x \in Stage : Becomes(c, x) /\ ChainOwn(x)' /\ x.at \notin Seeking
  <2>1. CASE terms[k].watcher = NoWatcher
    BY <1>4, <2>1, StageTypes, StageOwn DEF ChainOwn, Seeking
  <2>2. CASE terms[k].watcher # NoWatcher
    <3>1. PICK w \in Watchers : w = terms[k].watcher
      BY <1>6, <2>2 DEF Terminal
    <3>2. w.sid[1] = terms[k].pid /\ w.sid[1] \in 1 .. born
      BY <1>2, <2>2, <3>1, OwnFacts, SessionsAssumption DEF EntryOwn, TypeOK
    <3>3. /\ Watch(k, w) \in Stage
          /\ Watch(k, w).at = "watch" /\ Watch(k, w).key = k /\ Watch(k, w).watcher = w
      <4>1. Watch(k, w) \in Stage
        BY StageTypes
      <4>. QED BY <4>1 DEF Watch
    <3>4. ChainOwn(Watch(k, w))' /\ Watch(k, w).at \notin Seeking
      BY <1>3, <1>6, <3>2, <3>3 DEF ChainOwn, Seeking
    <3>. QED BY <1>4, <2>2, <3>1, <3>3, <3>4
  <2>. QED BY <2>1, <2>2
<1>. QED BY <1>3, <1>5, <1>8, <1>9, StepKept

LEMMA LoseOwn == ASSUME TypeOK, OwnInv, NEW c \in Chains, Lose(c) PROVE OwnInv'
<1>1. chains[c].at # "idle"
  BY OwnFacts, StageFields DEF Lose
<1>2. WorldKept /\ UNCHANGED <<kill, scan, terms>> /\ Becomes(c, Idle)
  BY DEF Lose, machine, WorldKept
<1>. QED BY <1>1, <1>2, IdleOwn

LEMMA StepsOwn == ASSUME TypeOK, OwnInv, NEW c \in Chains, Step(c) \/ Lose(c) PROVE OwnInv'
  BY DiscoverOwn, FoundOwn, LostOwn, WaitOwn, ReadyOwn, WatchOwn, EventOwn, LoseOwn DEF Step

-----------------------------------------------------------------------------
\* The handlers of ticks and keys change several entries.  An entry is either
\* kept, or keeps its PID, or is one that nothing on its way relies on.
KeyKeeps(k) ==
    KeyKept(k) \/ (terms[k].pid # 0 /\ terms'[k].pid = terms[k].pid /\ k \in Used')
Unrelied(k) ==
    /\ \A c \in Chains : chains[c].at # "idle" /\ chains[c].key = k =>
        chains[c].at = "watch" /\ chains[c].watcher.sid[1] \notin alive
    /\ kill.at \in {"asked", "done"} /\ kill.key = k =>
        kill.at = "asked" /\ kill.pid \notin alive

LEMMA ChainKeeps ==
  ASSUME TypeOK, OwnInv, WorldKept, NEW c \in Chains, chains'[c] = chains[c],
         \A k \in Keys : KeyKeeps(k) \/ Unrelied(k)
  PROVE  ChainOwn(chains[c])'
<1>1. PICK n \in Stage : n = chains[c] /\ n = chains'[c] /\ ChainOwn(n)
  BY OwnFacts
<1>2. CASE n.at = "idle"
  BY <1>1, <1>2 DEF ChainOwn
<1>3. CASE n.at # "idle" /\ KeyKept(n.key)
  BY <1>1, <1>3, ChainKept DEF ChainOwn
<1>4. CASE /\ n.at # "idle" /\ terms[n.key].pid # 0
           /\ terms'[n.key].pid = terms[n.key].pid /\ n.key \in Used'
  BY <1>1, <1>4, StageFields DEF ChainOwn, WorldKept
<1>5. CASE n.at # "idle" /\ Unrelied(n.key)
  BY <1>1, <1>5 DEF ChainOwn, WorldKept, Unrelied
<1>. QED BY <1>1, <1>2, <1>3, <1>4, <1>5, StageFields DEF KeyKeeps

LEMMA KillKeeps ==
  ASSUME TypeOK, OwnInv, WorldKept, kill' = kill,
         \A k \in Keys : KeyKeeps(k) \/ Unrelied(k)
  PROVE  KillOwn'
<1>1. kill.at \in {"asked", "done"} => kill.key \in Keys
  BY DEF TypeOK, Kill, NoKill
<1>2. kill.at \in {"asked", "done"} =>
        \/ terms'[kill.key].pid = terms[kill.key].pid
        \/ kill.at = "asked" /\ kill.pid \notin alive
  BY <1>1 DEF KeyKeeps, KeyKept, Unrelied
<1>. QED BY <1>2 DEF OwnInv, KillOwn, WorldKept

\* A chain that begins is no search, or it is the launch's under a key that no
\* chain relies on.
LEMMA SoughtKeeps ==
  ASSUME TypeOK, OwnInv, \A k \in Keys : KeyKeeps(k) \/ Unrelied(k),
         \A c \in Chains : chains'[c] = chains[c] \/ chains'[c].at = "wait"
  PROVE  SoughtOnce'
<1>1. ASSUME NEW c \in Chains, chains'[c].at \in Seeking, terms'[chains'[c].key].pid = 0
      PROVE  /\ chains[c].at \in Seeking /\ chains'[c].key = chains[c].key
             /\ terms[chains[c].key].pid = 0
  <2>1. chains'[c] = chains[c]
    BY <1>1 DEF Seeking
  <2>2. PICK k \in Keys : k = chains[c].key
    BY <1>1, <2>1, OwnFacts, StageFields DEF Seeking
  <2>3. ~Unrelied(k)
    BY <1>1, <2>1, <2>2 DEF Unrelied, Seeking
  <2>4. terms'[k].pid = terms[k].pid
    BY <2>2, <2>3 DEF KeyKeeps, KeyKept
  <2>. QED BY <1>1, <2>1, <2>2, <2>4
<1>. QED BY <1>1, SoughtKept DEF OwnInv

LEMMA EntriesOwn ==
  ASSUME TypeOK, OwnInv, WorldKept, KillOwn', SoughtOnce',
         \A k \in Keys : EntryOwn(k)',
         \A k \in Keys : KeyKeeps(k) \/ Unrelied(k),
         \A c \in Chains : chains'[c] = chains[c] \/ ChainOwn(chains[c])',
         \A s \in scan' : s \in scan
  PROVE  OwnInv'
<1>1. \A c \in Chains : ChainOwn(chains[c])'
  BY ChainKeeps
<1>. QED BY <1>1 DEF OwnInv, WorldKept

\* A free key.
LEMMA FreeUnrelied ==
  ASSUME TypeOK, OwnInv, NEW k \in Keys \ Used
  PROVE  Unrelied(k) /\ terms[k].pid = 0
<1>1. terms[k].pid = 0
  BY UsedTerminal DEF None
<1>2. ASSUME NEW c \in Chains, chains[c].at # "idle", chains[c].key = k
      PROVE  chains[c].at = "watch" /\ chains[c].watcher.sid[1] \notin alive
  <2>1. PICK n \in Stage : n = chains[c] /\ ChainOwn(n)
    BY OwnFacts
  <2>2. n.at \notin {"discover", "found", "lost", "event"}
    BY <1>1, <1>2, <2>1 DEF ChainOwn
  <2>3. n.at \notin {"wait", "ready"}
    BY <1>1, <1>2, <2>1, StageFields DEF ChainOwn, SessionIDs, Watchers, Procs
  <2>4. n.at = "watch"
    BY <1>2, <2>1, <2>2, <2>3, StageFields
  <2>5. n.watcher.sid[1] \in Procs
    BY <2>4, StageFields DEF SessionIDs, Watchers
  <2>. QED BY <1>1, <1>2, <2>1, <2>4, <2>5 DEF ChainOwn, Procs
<1>3. kill.at \in {"asked", "done"} /\ kill.key = k =>
        kill.at = "asked" /\ kill.pid \notin alive
  BY <1>1 DEF OwnInv, KillOwn
<1>. QED BY <1>1, <1>2, <1>3 DEF Unrelied

LEMMA LaunchOwn == ASSUME TypeOK, OwnInv, NEW d \in Dirs, handleLaunchResult(d) PROVE OwnInv'
<1>1. PICK k \in Lowest(FreeKeys, 1), c \in Lowest(FreeChains, 1) :
        /\ terms' = [terms EXCEPT ![k] = Pending(d)]
        /\ chains' = [chains EXCEPT ![c] = Discover(k, d, Tracked)]
  BY DEF handleLaunchResult
<1>2. k \in Keys \ Used /\ c \in Chains /\ chains[c] = Idle
  BY LowestFree
<1>3. WorldKept /\ UNCHANGED <<kill, scan, alive, born>>
  BY DEF handleLaunchResult, machine, WorldKept
<1>4. /\ terms'[k] = Pending(d) /\ chains'[c] = Discover(k, d, Tracked)
      /\ \A j \in Keys \ {k} : terms'[j] = terms[j]
      /\ \A b \in Chains \ {c} : chains'[b] = chains[b]
  BY <1>1, <1>2 DEF TypeOK
<1>5. terms[k].pid = 0 /\ Unrelied(k)
  BY <1>2, FreeUnrelied
<1>6. /\ terms'[k].pid = 0 /\ terms'[k].sid = NoSession /\ terms'[k].watcher = NoWatcher
      /\ terms'[k].state = "unknown" /\ k \in Used'
  <2>1. terms'[k] # None
    BY <1>4 DEF Pending, None
  <2>. QED BY <1>2, <1>4, <2>1 DEF Pending, Used
<1>7. \A j \in Keys : KeyKeeps(j) \/ Unrelied(j)
  BY <1>4, <1>5 DEF KeyKeeps, KeyKept, Used
<1>8. ASSUME NEW j \in Keys PROVE EntryOwn(j)'
  <2>1. CASE j = k
    BY <1>3, <1>6, <2>1, SessionsAssumption DEF EntryOwn, TypeOK
  <2>2. CASE j # k
    BY <1>3, <1>4, <2>2, EntryKept, OwnFacts
  <2>. QED BY <2>1, <2>2
<1>9. /\ chains'[c].at = "discover" /\ chains'[c].key = k
  BY <1>4 DEF Discover
<1>10. ChainOwn(chains[c])'
  BY <1>6, <1>9 DEF ChainOwn
<1>11. SoughtOnce'
  <2>1. \A b \in Chains \ {c} : chains[b].at \in Seeking => chains[b].key # k
    BY <1>5 DEF Unrelied, Seeking
  <2>2. ASSUME NEW a \in Chains, NEW b \in Chains,
               chains'[a].at \in Seeking, chains'[b].at \in Seeking,
               chains'[a].key = chains'[b].key, terms'[chains'[a].key].pid = 0
        PROVE  a = b
    <3>1. CASE chains'[a].key = k
      BY <1>4, <2>1, <2>2, <3>1
    <3>2. CASE chains'[a].key # k
      <4>1. a # c /\ b # c
        BY <1>9, <2>2, <3>2
      <4>2. chains[a].key \in Keys /\ terms'[chains[a].key] = terms[chains[a].key]
        BY <1>4, <2>2, <3>2, <4>1, OwnFacts, StageFields DEF Seeking
      <4>. QED BY <1>4, <2>2, <4>1, <4>2 DEF OwnInv, SoughtOnce
    <3>. QED BY <3>1, <3>2
  <2>. QED BY <2>2 DEF SoughtOnce
<1>12. KillOwn'
  BY <1>3, <1>7, KillKeeps
<1>. QED BY <1>3, <1>4, <1>7, <1>8, <1>10, <1>11, <1>12, EntriesOwn

LEMMA ScanOwn == ASSUME TypeOK, OwnInv, Scan \/ loseScan PROVE OwnInv'
<1>1. WorldKept /\ UNCHANGED <<terms, chains, kill, alive, born>>
  BY DEF Scan, loseScan, machine, WorldKept
<1>2. \A s \in scan' : s[1] \in 1 .. born
  BY OwnFacts DEF Scan, loseScan, Session
<1>3. KillOwn'
  BY <1>1 DEF OwnInv, KillOwn
<1>. QED BY <1>1, <1>2, <1>3, QuietOwn

LEMMA ExistingOwn == ASSUME TypeOK, OwnInv, handleExistingSessions PROVE OwnInv'
<1> DEFINE new == {s \in scan : s[1] \notin Tracked /\ cwd[s[1]] \notin PendingDirs}
<1>1. PICK at \in Bijection(Lowest(FreeKeys, Cardinality(new)), new) :
        /\ terms' = [k \in Keys |-> IF k \in DOMAIN at
                                   THEN Attached(at[k], cwd[at[k][1]])
                                   ELSE terms[k]]
        /\ \E by \in Bijection(Lowest(FreeChains, Cardinality(new)), DOMAIN at) :
             chains' = [c \in Chains |-> IF c \in DOMAIN by
                                        THEN Wait(by[c], at[by[c]])
                                        ELSE chains[c]]
  BY DEF handleExistingSessions
<1>2. PICK by \in Bijection(Lowest(FreeChains, Cardinality(new)), DOMAIN at) :
        chains' = [c \in Chains |-> IF c \in DOMAIN by
                                   THEN Wait(by[c], at[by[c]])
                                   ELSE chains[c]]
  BY <1>1
<1>3. WorldKept /\ UNCHANGED <<kill, alive, born>> /\ scan' = {}
  BY DEF handleExistingSessions, machine, WorldKept
<1>4. /\ DOMAIN at \subseteq Keys \ Used
      /\ \A k \in DOMAIN at : at[k] \in SessionIDs /\ at[k][1] \in 1 .. born
  <2>1. at \in [Lowest(FreeKeys, Cardinality(new)) -> new]
    BY BijectionType
  <2>2. Lowest(FreeKeys, Cardinality(new)) \subseteq Keys \ Used
    BY LowestFree
  <2>3. \A s \in new : s \in SessionIDs /\ s[1] \in 1 .. born
    BY DEF OwnInv, TypeOK
  <2>. QED BY <2>1, <2>2, <2>3
<1>5. \A c \in DOMAIN by : by[c] \in DOMAIN at
  BY BijectionType
<1>6. \A k \in Keys : k \notin DOMAIN at => terms'[k] = terms[k]
  BY <1>1
<1>7. ASSUME NEW k \in DOMAIN at
      PROVE  /\ terms'[k].pid = at[k][1] /\ terms'[k].sid = at[k]
             /\ terms'[k].watcher = NoWatcher /\ terms'[k].state = "unknown"
  BY <1>1, <1>4 DEF Attached
<1>8. \A k \in Keys : KeyKeeps(k) \/ Unrelied(k)
  BY <1>4, <1>6, FreeUnrelied DEF KeyKeeps, KeyKept, Used
<1>9. ASSUME NEW k \in Keys PROVE EntryOwn(k)'
  <2>1. CASE k \in DOMAIN at
    <3>1. at[k][1] \in 0 .. born
      BY <1>4, <2>1, SessionsAssumption DEF TypeOK
    <3>. QED BY <1>3, <1>7, <2>1, <3>1 DEF EntryOwn
  <2>2. CASE k \notin DOMAIN at
    BY <1>3, <1>6, <2>2, EntryKept, OwnFacts
  <2>. QED BY <2>1, <2>2
<1>10. ASSUME NEW c \in Chains, c \in DOMAIN by
       PROVE  ChainOwn(chains[c])' /\ chains'[c].at = "wait"
  <2>1. chains'[c] = Wait(by[c], at[by[c]]) /\ by[c] \in DOMAIN at
    BY <1>2, <1>5, <1>10
  <2>2. /\ chains'[c].at = "wait" /\ chains'[c].key = by[c]
        /\ chains'[c].sid = at[by[c]]
    BY <2>1 DEF Wait
  <2>3. terms'[by[c]].pid = at[by[c]][1]
    BY <1>7, <2>1
  <2>. QED BY <2>2, <2>3 DEF ChainOwn
<1>11. \A c \in Chains : c \notin DOMAIN by => chains'[c] = chains[c]
  BY <1>2
<1>12. KillOwn'
  BY <1>3, <1>8, KillKeeps
<1>13. SoughtOnce'
  BY <1>8, <1>10, <1>11, SoughtKeeps
<1>. QED BY <1>3, <1>8, <1>9, <1>10, <1>11, <1>12, <1>13, EntriesOwn

\* An entry that has ended and is settled.
LEMMA ExpiredUnrelied ==
  ASSUME TypeOK, OwnInv, NEW k \in Expired
  PROVE  Unrelied(k)
<1>1. k \in Keys /\ k \in Used /\ terms[k].state = "ended" /\ Settled(k)
  BY DEF Expired, EndedKeys, Used
<1>2. terms[k].pid \notin alive
  BY <1>1, OwnFacts DEF EntryOwn
<1>3. ASSUME NEW c \in Chains, chains[c].at # "idle", chains[c].key = k
      PROVE  chains[c].at = "watch" /\ chains[c].watcher.sid[1] \notin alive
  <2>1. PICK n \in Stage : n = chains[c] /\ ChainOwn(n)
    BY OwnFacts
  <2>2. n # Idle
    BY <1>3, <2>1, StageOwn
  <2>3. n.at \notin {"found", "lost", "ready", "event"} /\ (n.at = "wait" => n.sid[1] \in alive)
    BY <1>1, <1>3, <2>1, <2>2 DEF Settled
  <2>4. n.at \notin {"discover", "wait"}
    BY <1>1, <1>2, <1>3, <2>1, <2>3 DEF ChainOwn
  <2>5. n.at = "watch"
    BY <1>3, <2>1, <2>3, <2>4, StageFields
  <2>. QED BY <1>2, <1>3, <2>1, <2>5 DEF ChainOwn
<1>4. kill.at \in {"asked", "done"} /\ kill.key = k =>
        kill.at = "asked" /\ kill.pid \notin alive
  BY <1>1, <1>2 DEF OwnInv, KillOwn, Settled
<1>. QED BY <1>3, <1>4 DEF Unrelied

LEMMA LivenessOwn ==
  ASSUME TypeOK, OwnInv, NEW gone \in SUBSET Expired, checkSessionLiveness(gone)
  PROVE  OwnInv'
<1>1. PICK by \in Bijection(Lowest(FreeChains, Cardinality(Switched)), Switched) :
        chains' = [c \in Chains |-> IF c \in DOMAIN by
                                   THEN Wait(by[c], Session(terms[by[c]].pid))
                                   ELSE chains[c]]
  BY DEF checkSessionLiveness
<1>2. WorldKept /\ UNCHANGED <<kill, scan, alive, born>>
  BY DEF checkSessionLiveness, WorldKept
<1>3. /\ \A k \in Keys : k \in gone => terms'[k] = None
      /\ \A k \in Keys \ gone : k \in Dead =>
            terms'[k] = [terms[k] EXCEPT !.state = "ended"]
      /\ \A k \in Keys \ gone : k \in Switched =>
            terms'[k] = [terms[k] EXCEPT !.watcher = NoWatcher, !.state = "unknown",
                                         !.sid = Session(terms[k].pid)]
      /\ \A k \in Keys \ gone : k \notin Dead \cup Switched => terms'[k] = terms[k]
  BY DEF checkSessionLiveness, Dead, Switched
<1>4. /\ Dead \cup Switched \subseteq Used /\ Used \subseteq Keys
      /\ gone \cap (Dead \cup Switched) = {} /\ gone \subseteq Keys
  BY DEF Expired, EndedKeys, Dead, Switched, Used
<1>5. ASSUME NEW k \in Dead
      PROVE  /\ terms[k].pid # 0 /\ terms'[k].pid = terms[k].pid /\ k \in Used'
             /\ EntryOwn(k)'
  <2>1. terms[k] \in Terminal /\ terms'[k] = [terms[k] EXCEPT !.state = "ended"]
    BY <1>3, <1>4, UsedTerminal
  <2>2. /\ terms'[k].pid = terms[k].pid /\ terms'[k].sid = terms[k].sid
        /\ terms'[k].watcher = terms[k].watcher
    BY <2>1 DEF Terminal
  <2>3. terms[k].pid # 0 /\ terms[k].pid \notin alive
    BY DEF Dead
  <2>4. k \in Used'
    BY <1>4, <2>2, <2>3 DEF Used, None
  <2>5. EntryOwn(k)'
    BY <1>2, <1>4, <2>2, <2>3, OwnFacts DEF EntryOwn
  <2>. QED BY <2>2, <2>3, <2>4, <2>5
<1>6. ASSUME NEW k \in Switched
      PROVE  /\ terms[k].pid # 0 /\ terms'[k].pid = terms[k].pid /\ k \in Used'
             /\ EntryOwn(k)'
  <2>1. /\ terms[k] \in Terminal
        /\ terms'[k] = [terms[k] EXCEPT !.watcher = NoWatcher, !.state = "unknown",
                                        !.sid = Session(terms[k].pid)]
    BY <1>3, <1>4, UsedTerminal
  <2>2. /\ terms'[k].pid = terms[k].pid /\ terms'[k].sid = Session(terms[k].pid)
        /\ terms'[k].watcher = NoWatcher /\ terms'[k].state = "unknown"
    BY <2>1 DEF Terminal
  <2>3. terms[k].pid # 0
    BY OwnFacts DEF Switched
  <2>4. k \in Used'
    BY <1>4, <2>2, <2>3 DEF Used, None
  <2>5. EntryOwn(k)'
    BY <1>2, <1>4, <2>2, OwnFacts DEF EntryOwn, Session
  <2>. QED BY <2>2, <2>3, <2>4, <2>5
<1>7. ASSUME NEW k \in Keys PROVE EntryOwn(k)' /\ (KeyKeeps(k) \/ Unrelied(k))
  <2>1. CASE k \in gone
    <3>1. EntryOwn(k)'
      <4>1. terms'[k] = None
        BY <1>3, <2>1
      <4>2. 0 \in 0 .. born /\ 0 \notin alive
        BY OwnFacts, SessionsAssumption DEF TypeOK
      <4>. QED BY <1>2, <4>1, <4>2 DEF EntryOwn, None
    <3>. QED BY <2>1, <3>1, ExpiredUnrelied
  <2>2. CASE k \in Dead \cup Switched
    BY <1>5, <1>6, <2>2 DEF KeyKeeps
  <2>3. CASE k \notin gone \cup Dead \cup Switched
    <3>1. terms'[k] = terms[k]
      BY <1>3, <2>3
    <3>. QED BY <1>2, <3>1, EntryKept, OwnFacts DEF KeyKeeps
  <2>. QED BY <2>1, <2>2, <2>3
<1>8. ASSUME NEW c \in Chains, c \in DOMAIN by
      PROVE  ChainOwn(chains[c])' /\ chains'[c].at = "wait"
  <2>1. by[c] \in Switched
    BY <1>8, BijectionType
  <2>2. PICK k \in Switched : k = by[c]
    BY <2>1
  <2>3. chains'[c] = Wait(k, Session(terms[k].pid))
    BY <1>1, <1>8, <2>2
  <2>4. /\ chains'[c].at = "wait" /\ chains'[c].key = k
        /\ chains'[c].sid = Session(terms[k].pid)
    BY <2>3 DEF Wait
  <2>. QED BY <1>6, <2>4 DEF ChainOwn, Session
<1>9. \A c \in Chains : c \notin DOMAIN by => chains'[c] = chains[c]
  BY <1>1
<1>10. KillOwn'
  BY <1>2, <1>7, KillKeeps
<1>11. SoughtOnce'
  BY <1>7, <1>8, <1>9, SoughtKeeps
<1>. QED BY <1>2, <1>7, <1>8, <1>9, <1>10, <1>11, EntriesOwn

LEMMA SignalsOwn == ASSUME TypeOK, OwnInv, ReadSignals \/ MatchSignals PROVE OwnInv'
<1>1. WorldKept /\ UNCHANGED <<kill, scan, alive, born, chains>>
  BY DEF ReadSignals, MatchSignals, machine, WorldKept
<1>2. CASE ReadSignals
  <2>1. UNCHANGED terms
    BY <1>2 DEF ReadSignals
  <2>2. KillOwn'
    BY <1>1, <2>1 DEF OwnInv, KillOwn
  <2>. QED BY <1>1, <2>1, <2>2, QuietOwn DEF OwnInv
<1>3. CASE MatchSignals
  <2> DEFINE of(s) == {k \in Used : terms[k].sid = s}
             matched == {s \in reading : of(s) # {}}
  <2>1. PICK at \in [matched -> Used] :
          terms' = [k \in Keys |-> IF k \in Range(at)
                                   THEN [terms[k] EXCEPT !.state = "permission"]
                                   ELSE terms[k]]
    BY <1>3 DEF MatchSignals
  <2>2. Range(at) \subseteq Used
    BY DEF Range
  <2>3. ASSUME NEW k \in Keys
        PROVE  /\ terms'[k].pid = terms[k].pid /\ terms'[k].sid = terms[k].sid
               /\ terms'[k].watcher = terms[k].watcher
               /\ terms'[k].state = "ended" => terms[k].state = "ended"
               /\ k \in Used => k \in Used'
    <3>1. CASE k \notin Range(at)
      BY <2>1, <3>1 DEF Used
    <3>2. CASE k \in Range(at)
      <4>1. terms[k] \in Terminal /\ terms'[k] = [terms[k] EXCEPT !.state = "permission"]
        BY <2>1, <2>2, <3>2, UsedTerminal
      <4>. QED BY <4>1 DEF Terminal, Used, None
    <3>. QED BY <3>1, <3>2
  <2>4. \A k \in Keys : KeyKeeps(k)
    BY <2>3 DEF KeyKeeps, KeyKept
  <2>5. \A k \in Keys : EntryOwn(k)'
    BY <1>1, <2>3, OwnFacts DEF EntryOwn
  <2>6. SoughtOnce'
    BY <1>1, <2>4, SoughtKeeps
  <2>7. KillOwn'
    BY <1>1, <2>4, KillKeeps
  <2>. QED BY <1>1, <2>4, <2>5, <2>6, <2>7, EntriesOwn
<1>. QED BY <1>2, <1>3

LEMMA KillsOwn ==
  ASSUME TypeOK, OwnInv,
         (\E k \in Used : showKillTerminalConfirm(k))
         \/ killTerminal \/ handleKillTerminal \/ dropKill
  PROVE  OwnInv'
<1>1. ASSUME NEW k \in Used, showKillTerminalConfirm(k) PROVE OwnInv'
  <2>1. WorldKept /\ UNCHANGED <<terms, chains, scan>>
    BY <1>1 DEF showKillTerminalConfirm, machine, WorldKept
  <2>2. terms[k].pid \in 1 .. born
    BY <1>1, OwnFacts, SessionsAssumption DEF showKillTerminalConfirm, EntryOwn, Used, TypeOK
  <2>3. KillOwn'
    BY <1>1, <2>1, <2>2 DEF showKillTerminalConfirm, KillOwn, WorldKept
  <2>. QED BY <2>1, <2>3, QuietOwn DEF OwnInv
<1>2. CASE killTerminal
  <2>1. WorldKept /\ UNCHANGED <<terms, chains, scan>> /\ alive' = alive \ {kill.pid}
    BY <1>2 DEF killTerminal, Dies, WorldKept
  <2>2. kill \in Kill /\ kill.at = "asked" /\ kill # NoKill
    BY <1>2 DEF killTerminal, TypeOK, NoKill
  <2>3. KillOwn'
    <3>1. CASE kill.pid \in alive
      <4>1. kill'.at = "done" /\ kill'.pid = kill.pid /\ kill'.key = kill.key
        BY <1>2, <2>2, <3>1 DEF killTerminal, Kill
      <4>. QED BY <2>1, <2>2, <3>1, <4>1 DEF OwnInv, KillOwn, WorldKept
    <3>2. CASE kill.pid \notin alive
      BY <1>2, <3>2 DEF killTerminal, KillOwn, NoKill
    <3>. QED BY <3>1, <3>2
  <2>. QED BY <2>1, <2>3, QuietOwn DEF OwnInv
<1>3. CASE handleKillTerminal
  <2>1. PICK k \in Keys : k = kill.key
    BY <1>3 DEF handleKillTerminal, TypeOK, Kill, NoKill
  <2>2. terms[k].pid \in 1 .. born /\ terms[k].pid \notin alive /\ terms[k].pid # 0 /\ k \in Used
    BY <1>3, <2>1, OwnFacts DEF handleKillTerminal, OwnInv, KillOwn
  <2>3. WorldKept /\ UNCHANGED <<chains, scan, alive, born>> /\ kill' = NoKill
    BY <1>3 DEF handleKillTerminal, machine, WorldKept
  <2>4. /\ terms'[k] = [terms[k] EXCEPT !.state = "ended"]
        /\ \A j \in Keys \ {k} : terms'[j] = terms[j]
    BY <1>3, <2>1, <2>2 DEF handleKillTerminal, TypeOK
  <2>5. /\ terms'[k].pid = terms[k].pid /\ terms'[k].sid = terms[k].sid
        /\ terms'[k].watcher = terms[k].watcher /\ k \in Used'
    <3>1. terms[k] \in Terminal
      BY <2>2, UsedTerminal
    <3>2. /\ terms'[k].pid = terms[k].pid /\ terms'[k].sid = terms[k].sid
          /\ terms'[k].watcher = terms[k].watcher
      BY <2>4, <3>1 DEF Terminal
    <3>. QED BY <2>2, <3>2 DEF Used, None
  <2>6. \A j \in Keys : KeyKeeps(j)
    BY <2>2, <2>4, <2>5 DEF KeyKeeps, KeyKept, Used
  <2>7. ASSUME NEW j \in Keys PROVE EntryOwn(j)'
    <3>1. CASE j = k
      <4>1. EntryOwn(k)
        BY OwnFacts
      <4>. QED BY <2>2, <2>3, <2>5, <3>1, <4>1 DEF EntryOwn
    <3>2. CASE j # k
      BY <2>3, <2>4, <3>2, OwnFacts, EntryKept
    <3>. QED BY <3>1, <3>2
  <2>8. KillOwn' /\ SoughtOnce'
    BY <2>3, <2>6, SoughtKeeps DEF KillOwn, NoKill
  <2>. QED BY <2>3, <2>6, <2>7, <2>8, EntriesOwn
<1>4. CASE dropKill
  <2>1. WorldKept /\ UNCHANGED <<terms, chains, scan>> /\ KillOwn'
    BY <1>4 DEF dropKill, machine, WorldKept, KillOwn, NoKill
  <2>. QED BY <2>1, QuietOwn DEF OwnInv
<1>. QED BY <1>1, <1>2, <1>3, <1>4

LEMMA NextOwn == TypeOK /\ OwnInv /\ [Next]_vars => OwnInv'
<1> SUFFICES ASSUME TypeOK, OwnInv, [Next]_vars PROVE OwnInv'
  OBVIOUS
<1>1. CASE UNCHANGED vars
  <2>1. WorldKept /\ UNCHANGED <<terms, chains, scan>> /\ KillOwn'
    BY <1>1 DEF vars, WorldKept, OwnInv, KillOwn
  <2>. QED BY <2>1, QuietOwn DEF OwnInv
<1>2. CASE \/ Machine \/ Scan \/ loseScan \/ handleExistingSessions
           \/ ReadSignals \/ MatchSignals
  BY <1>2, MachineOwn, ScanOwn, ExistingOwn, SignalsOwn
<1>3. ASSUME NEW d \in Dirs, handleLaunchResult(d) PROVE OwnInv'
  BY <1>3, LaunchOwn
<1>4. ASSUME NEW c \in Chains, Step(c) \/ Lose(c) PROVE OwnInv'
  BY <1>4, StepsOwn
<1>5. ASSUME NEW gone \in SUBSET Expired, checkSessionLiveness(gone) PROVE OwnInv'
  BY <1>5, LivenessOwn
<1>6. CASE (\E k \in Used : showKillTerminalConfirm(k))
           \/ killTerminal \/ handleKillTerminal \/ dropKill
  BY <1>6, KillsOwn
<1>. QED BY <1>1, <1>2, <1>3, <1>4, <1>5, <1>6 DEF Next

\* No running process is ever shown as ended, however the messages of the
\* chains, the ticks and the kill key of several users of a tracking key meet.
THEOREM EndedSafe == Spec => []EndedIsDead
<1>1. TypeOK /\ OwnInv => EndedIsDead
  BY DEF OwnInv, EntryOwn, EndedIsDead, Used
<1>. QED BY <1>1, InitType, NextType, InitOwn, NextOwn, PTL DEF Spec
-----------------------------------------------------------------------------
(***************************************************************************)
(* A process has one entry and a launch a search.  A discovery leaves out  *)
(* the PIDs tracked when it was launched; nothing of its directory is      *)
(* attached meanwhile, for the directory is pending.  So what it finds is  *)
(* tracked nowhere else, as long as it is the only discovery.              *)
(***************************************************************************)

Searches(m) == m.at \in {"discover", "found"} /\ terms[m.key].pid = 0
Alone(m) ==
    /\ m.at = "discover" =>
        /\ terms[m.key].dir = m.dir
        /\ \A j \in Used : terms[j].pid # 0 /\ cwd[terms[j].pid] = m.dir
                            => terms[j].pid \in m.exclude
    /\ m.at = "found" /\ terms[m.key].pid = 0 =>
        /\ cwd[m.sid[1]] = terms[m.key].dir
        /\ \A j \in Used : terms[j].pid # m.sid[1]

OnceInv ==
    /\ \A s, t \in scan : s[1] = t[1] => s = t
    /\ launches < 2 =>
        /\ TrackedOnce
        /\ \A c \in Chains : Alone(chains[c])
        /\ \A c, d \in Chains : Searches(chains[c]) /\ Searches(chains[d]) => c = d
        /\ launches = 0 => \A c \in Chains : ~Searches(chains[c])

SeekInv == OnceInv /\ PendingIsSought

\* PendingIsSought, said of the chains.
LEMMA PendingBy ==
  PendingIsSought <=>
    (losses = 0 => \A k \in Used : terms[k].pid = 0 /\ terms[k].state # "ended" =>
        \E c \in Chains : chains[c].at \in Seeking /\ chains[c].key = k)
  BY DEF PendingIsSought, At, Seeking

\* A step of which a search and an entry without PID take no notice.
EntryStays(k) ==
    k \in Used' =>
        /\ k \in Used
        /\ terms'[k].pid = terms[k].pid /\ terms'[k].dir = terms[k].dir
        /\ terms[k].pid = 0 /\ terms[k].state = "ended" => terms'[k].state = "ended"
SearchStays(c) ==
    \/ chains'[c] = chains[c]
    \/ /\ chains'[c].at \in {"discover", "found"} => terms'[chains'[c].key].pid # 0
       /\ chains[c].at \in Seeking /\ terms[chains[c].key].pid = 0 =>
            terms'[chains[c].key].state = "ended" \/ losses' # 0

LEMMA PendingQuiet ==
  ASSUME TypeOK, TypeOK', PendingIsSought, losses' = 0 => losses = 0,
         \A k \in Keys : EntryStays(k), \A c \in Chains : SearchStays(c)
  PROVE  PendingIsSought'
<1>1. ASSUME losses' = 0, NEW k \in Used', terms'[k].pid = 0, terms'[k].state # "ended"
      PROVE  \E c \in Chains : chains'[c].at \in Seeking /\ chains'[c].key = k
  <2>1. k \in Keys
    BY DEF Used
  <2>2. k \in Used /\ terms[k].pid = 0 /\ terms[k].state # "ended"
    BY <1>1, <2>1 DEF EntryStays
  <2>3. PICK c \in Chains : chains[c].at \in Seeking /\ chains[c].key = k
    BY <1>1, <2>2, PendingBy
  <2>4. chains'[c] = chains[c]
    BY <1>1, <2>2, <2>3 DEF SearchStays
  <2>. QED BY <2>3, <2>4
<1>. QED BY <1>1 DEF PendingIsSought, At, Seeking

LEMMA OnceQuiet ==
  ASSUME TypeOK, TypeOK', OwnInv', OnceInv, cwd' = cwd, launches' = launches,
         \A s, t \in scan' : s[1] = t[1] => s = t,
         \A k \in Keys : EntryStays(k), \A c \in Chains : SearchStays(c)
  PROVE  OnceInv'
<1> SUFFICES ASSUME launches < 2
             PROVE  /\ TrackedOnce'
                    /\ \A c \in Chains : Alone(chains[c])'
                    /\ \A c, d \in Chains :
                         Searches(chains[c])' /\ Searches(chains[d])' => c = d
                    /\ launches = 0 => \A c \in Chains : ~Searches(chains[c])'
  BY DEF OnceInv
<1>1. \A k \in Used' : k \in Used /\ terms'[k].pid = terms[k].pid /\ terms'[k].dir = terms[k].dir
  BY DEF EntryStays, Used
<1>2. TrackedOnce'
  BY <1>1 DEF OnceInv, TrackedOnce
<1>3. ASSUME NEW c \in Chains, Searches(chains[c])'
      PROVE  /\ chains'[c] = chains[c] /\ Searches(chains[c])
             /\ chains[c].key \in Used' /\ chains[c].key \in Used
  <2>1. chains'[c] = chains[c]
    BY <1>3 DEF Searches, SearchStays
  <2>2. ChainOwn(chains[c])'
    BY DEF OwnInv
  <2>3. chains[c].key \in Used'
    BY <1>3, <2>1, <2>2 DEF Searches, ChainOwn
  <2>. QED BY <1>1, <1>3, <2>1, <2>3 DEF Searches
<1>4. ASSUME NEW c \in Chains PROVE Alone(chains[c])'
  <2>1. CASE ~Searches(chains[c])'
    <3>1. ChainOwn(chains[c])'
      BY DEF OwnInv
    <3>. QED BY <2>1, <3>1 DEF Searches, ChainOwn, Alone
  <2>2. CASE Searches(chains[c])'
    <3>1. Alone(chains[c])
      BY DEF OnceInv
    <3>. QED BY <1>1, <1>3, <2>2, <3>1 DEF Alone
  <2>. QED BY <2>1, <2>2
<1>. QED BY <1>2, <1>3, <1>4 DEF OnceInv

\* A step of chain c that changes at most the entry under its key.
LEMMA SeekStep ==
  ASSUME TypeOK, TypeOK', OwnInv', SeekInv, UNCHANGED <<cwd, launches, scan>>,
         losses' = losses \/ losses' # 0,
         NEW c \in Chains, NEW x, Becomes(c, x), SearchStays(c),
         NEW k \in Keys, EntryStays(k), \A j \in Keys \ {k} : terms'[j] = terms[j]
  PROVE  SeekInv'
<1>1. \A j \in Keys : EntryStays(j)
  BY DEF EntryStays, Used
<1>2. \A d \in Chains : SearchStays(d)
  BY DEF SearchStays, Becomes, TypeOK
<1>3. \A s, t \in scan' : s[1] = t[1] => s = t
  BY DEF SeekInv, OnceInv
<1>4. OnceInv'
  BY <1>1, <1>2, <1>3, OnceQuiet DEF SeekInv
<1>5. PendingIsSought'
  BY <1>1, <1>2, PendingQuiet DEF SeekInv
<1>. QED BY <1>4, <1>5 DEF SeekInv

\* A step that leaves the entries and the chains as they are.
LEMMA SeekQuiet ==
  ASSUME TypeOK, TypeOK', OwnInv', SeekInv, UNCHANGED <<terms, chains, cwd, launches>>,
         losses' = losses \/ losses' # 0,
         \A s, t \in scan' : s[1] = t[1] => s = t
  PROVE  SeekInv'
<1>1. \A j \in Keys : EntryStays(j)
  BY DEF EntryStays, Used
<1>2. \A d \in Chains : SearchStays(d)
  BY DEF SearchStays
<1>3. OnceInv'
  BY <1>1, <1>2, OnceQuiet DEF SeekInv
<1>4. PendingIsSought'
  BY <1>1, <1>2, PendingQuiet DEF SeekInv
<1>. QED BY <1>3, <1>4 DEF SeekInv

LEMMA InitSeek == Init => SeekInv
<1> SUFFICES ASSUME Init PROVE SeekInv
  OBVIOUS
<1>1. Used = {} /\ scan = {} /\ \A c \in Chains : chains[c].at = "idle"
  BY DEF Init, Used, Idle
<1>. QED BY <1>1 DEF SeekInv, OnceInv, TrackedOnce, Alone, Searches, PendingIsSought
-----------------------------------------------------------------------------
LEMMA SeekMachine ==
  ASSUME TypeOK, TypeOK', OwnInv', SeekInv, Machine \/ UNCHANGED vars PROVE SeekInv'
<1>1. UNCHANGED <<terms, chains, cwd, launches, losses, scan>>
  BY DEF Machine, Born, Exit, Dies, WriteLog, Resume, Prompt, vars
<1>. QED BY <1>1, SeekQuiet DEF SeekInv, OnceInv

LEMMA SeekScan ==
  ASSUME TypeOK, TypeOK', OwnInv', SeekInv, Scan \/ loseScan PROVE SeekInv'
<1>1. UNCHANGED <<terms, chains, cwd, launches>>
  BY DEF Scan, loseScan, machine
<1>2. losses' = losses \/ losses' # 0
  BY SessionsAssumption DEF Scan, loseScan, TypeOK
<1>3. \A s, t \in scan' : s[1] = t[1] => s = t
  BY DEF Scan, loseScan, Session
<1>. QED BY <1>1, <1>2, <1>3, SeekQuiet

LEMMA SeekLaunch ==
  ASSUME TypeOK, TypeOK', OwnInv, OwnInv', SeekInv, NEW d \in Dirs, handleLaunchResult(d)
  PROVE  SeekInv'
<1>1. PICK k \in Lowest(FreeKeys, 1), c \in Lowest(FreeChains, 1) :
        /\ terms' = [terms EXCEPT ![k] = Pending(d)]
        /\ chains' = [chains EXCEPT ![c] = Discover(k, d, Tracked)]
  BY DEF handleLaunchResult
<1>2. /\ k \in Keys /\ k \notin Used /\ c \in Chains /\ chains[c] = Idle
      /\ UNCHANGED <<scan, cwd, losses>> /\ launches' = launches + 1 /\ launches \in Nat
  BY LowestFree, SessionsAssumption DEF handleLaunchResult, machine, TypeOK
<1>3. /\ terms'[k] = Pending(d) /\ chains'[c] = Discover(k, d, Tracked)
      /\ \A j \in Keys \ {k} : terms'[j] = terms[j]
      /\ \A b \in Chains \ {c} : chains'[b] = chains[b]
  BY <1>1, <1>2 DEF TypeOK
<1>4. /\ terms'[k].pid = 0 /\ terms'[k].dir = d
      /\ chains'[c].at = "discover" /\ chains'[c].key = k /\ chains'[c].dir = d
      /\ chains'[c].exclude = Tracked /\ chains[c].at = "idle"
  BY <1>2, <1>3 DEF Pending, Discover, Idle
<1>5. \A j \in Used' : j # k => j \in Used /\ terms'[j] = terms[j]
  BY <1>3 DEF Used
<1>6. PendingIsSought'
  <2>1. ASSUME losses' = 0, NEW j \in Used', terms'[j].pid = 0, terms'[j].state # "ended"
        PROVE  \E b \in Chains : chains'[b].at \in Seeking /\ chains'[b].key = j
    <3>1. CASE j = k
      BY <1>2, <1>4, <3>1 DEF Seeking
    <3>2. CASE j # k
      <4>1. PICK b \in Chains : chains[b].at \in Seeking /\ chains[b].key = j
        BY <1>2, <1>5, <2>1, <3>2, PendingBy DEF SeekInv
      <4>2. b # c
        BY <1>4, <4>1 DEF Seeking
      <4>. QED BY <1>3, <4>1, <4>2
    <3>. QED BY <3>1, <3>2
  <2>. QED BY <2>1 DEF PendingIsSought, At, Seeking
<1>7. OnceInv'
  <2> SUFFICES ASSUME launches' < 2
               PROVE  /\ TrackedOnce'
                      /\ \A b \in Chains : Alone(chains[b])'
                      /\ \A a, b \in Chains :
                           Searches(chains[a])' /\ Searches(chains[b])' => a = b
    BY <1>2 DEF SeekInv, OnceInv
  <2>1. launches = 0
    BY <1>2
  <2>2. \A b \in Chains : ~Searches(chains[b])
    BY <2>1 DEF SeekInv, OnceInv
  <2>3. TrackedOnce'
    BY <1>4, <1>5, <2>1 DEF SeekInv, OnceInv, TrackedOnce
  <2>4. ASSUME NEW b \in Chains \ {c}, Searches(chains[b])' PROVE FALSE
    <3>1. chains'[b] = chains[b] /\ ChainOwn(chains[b])
      BY <1>3 DEF OwnInv
    <3>2. chains[b].key \in Used
      BY <2>4, <3>1 DEF Searches, ChainOwn
    <3>3. terms'[chains[b].key] = terms[chains[b].key]
      BY <1>2, <1>3, <3>2 DEF Used
    <3>. QED BY <2>2, <2>4, <3>1, <3>3 DEF Searches
  <2>5. ASSUME NEW b \in Chains \ {c} PROVE Alone(chains[b])'
    <3>1. ChainOwn(chains[b])'
      BY DEF OwnInv
    <3>. QED BY <2>4, <3>1 DEF Alone, Searches, ChainOwn
  <2>6. Alone(chains[c])'
    <3>1. \A j \in Used' : terms'[j].pid # 0 => terms'[j].pid \in Tracked
      BY <1>4, <1>5 DEF Tracked
    <3>. QED BY <1>4, <3>1 DEF Alone
  <2>. QED BY <2>3, <2>4, <2>5, <2>6
<1>. QED BY <1>6, <1>7 DEF SeekInv

LEMMA SeekDiscover ==
  ASSUME TypeOK, TypeOK', OwnInv, OwnInv', SeekInv, NEW c \in Chains, discover(c)
  PROVE  SeekInv'
<1>1. PICK m \in Stage, k \in Keys : m = chains[c] /\ k = m.key /\ ChainOwn(m)
  BY StepOf DEF Step
<1>2. m.at = "discover" /\ k \in Used /\ terms[k].pid = 0
  BY <1>1 DEF ChainOwn, discover
<1>3. UNCHANGED <<terms, cwd, launches, losses, scan>>
  BY DEF discover, machine
<1>4. PICK x :
        /\ Becomes(c, x) /\ x.key = k /\ x.at \in {"found", "lost"}
        /\ x.at = "found" => /\ x.sid[1] \in alive /\ cwd[x.sid[1]] = m.dir
                             /\ x.sid[1] \notin m.exclude
  <2>1. ASSUME NEW p \in RunsIn(m.dir) \ m.exclude
        PROVE  /\ Session(p)[1] \in alive /\ cwd[Session(p)[1]] = m.dir
               /\ Session(p)[1] \notin m.exclude
    BY DEF RunsIn, Session
  <2>. QED BY <1>1, <2>1, StageOwn DEF discover
<1>5. chains'[c] = x /\ \A b \in Chains \ {c} : chains'[b] = chains[b]
  BY <1>4 DEF Becomes, TypeOK
<1>6. Used' = Used
  BY <1>3 DEF Used
<1>7. PendingIsSought'
  <2>1. ASSUME losses' = 0, NEW j \in Used', terms'[j].pid = 0, terms'[j].state # "ended"
        PROVE  \E b \in Chains : chains'[b].at \in Seeking /\ chains'[b].key = j
    <3>1. PICK b \in Chains : chains[b].at \in Seeking /\ chains[b].key = j
      BY <1>3, <1>6, <2>1, PendingBy DEF SeekInv
    <3>. QED BY <1>1, <1>4, <1>5, <3>1 DEF Seeking
  <2>. QED BY <2>1 DEF PendingIsSought, At, Seeking
<1>8. OnceInv'
  <2> SUFFICES ASSUME launches < 2
               PROVE  /\ TrackedOnce'
                      /\ \A b \in Chains : Alone(chains[b])'
                      /\ \A a, b \in Chains :
                           Searches(chains[a])' /\ Searches(chains[b])' => a = b
                      /\ launches = 0 => \A b \in Chains : ~Searches(chains[b])'
    BY <1>3 DEF SeekInv, OnceInv
  <2>1. TrackedOnce'
    BY <1>3, <1>6 DEF SeekInv, OnceInv, TrackedOnce
  <2>2. \A b \in Chains : Searches(chains[b])' => Searches(chains[b])
    BY <1>1, <1>2, <1>3, <1>5 DEF Searches
  <2>3. ASSUME NEW b \in Chains \ {c} PROVE Alone(chains[b])'
    <3>1. Alone(chains[b])
      BY DEF SeekInv, OnceInv
    <3>. QED BY <1>3, <1>5, <1>6, <3>1 DEF Alone
  <2>4. Alone(chains[c])'
    <3>1. Alone(m)
      BY <1>1 DEF SeekInv, OnceInv
    <3>2. x.at = "found" => x.sid[1] # 0
      BY <1>4, OwnFacts
    <3>. QED BY <1>1, <1>2, <1>3, <1>4, <1>5, <1>6, <3>1, <3>2 DEF Alone
  <2>. QED BY <2>1, <2>2, <2>3, <2>4 DEF SeekInv, OnceInv
<1>. QED BY <1>7, <1>8 DEF SeekInv

LEMMA SeekFound ==
  ASSUME TypeOK, TypeOK', OwnInv, OwnInv', SeekInv, NEW c \in Chains, handleSessionFound(c)
  PROVE  SeekInv'
<1>1. PICK m \in Stage, k \in Keys : m = chains[c] /\ k = m.key /\ ChainOwn(m)
  BY StepOf DEF Step
<1>2. /\ m.at = "found" /\ m.sid \in SessionIDs /\ m.sid[1] \in Procs /\ m.sid[1] # 0
      /\ k \in Used
      /\ terms[k].pid = m.sid[1] \/ (terms[k].pid = 0 /\ terms[k].state # "ended")
  BY <1>1, StageFields DEF ChainOwn, handleSessionFound, SessionIDs, Procs
<1>3. UNCHANGED <<cwd, launches, losses, scan>>
  BY DEF handleSessionFound, machine
<1>4. /\ terms' = [terms EXCEPT ![k] = [terms[k] EXCEPT !.pid = m.sid[1], !.sid = m.sid]]
      /\ Becomes(c, Wait(k, m.sid))
  BY <1>1, <1>2 DEF handleSessionFound, TypeOK
<1>5. /\ terms'[k] = [terms[k] EXCEPT !.pid = m.sid[1], !.sid = m.sid]
      /\ \A j \in Keys \ {k} : terms'[j] = terms[j]
      /\ chains'[c] = Wait(k, m.sid) /\ \A b \in Chains \ {c} : chains'[b] = chains[b]
  BY <1>4 DEF TypeOK, Becomes
<1>6. /\ terms'[k].pid = m.sid[1] /\ terms'[k].dir = terms[k].dir
      /\ terms'[k].state = terms[k].state /\ Wait(k, m.sid).at = "wait"
  BY <1>2, <1>5, UsedTerminal, StageOwn DEF Terminal
<1>7. \A j \in Used' : j \in Used /\ (j # k => terms'[j] = terms[j])
  BY <1>2, <1>5 DEF Used
<1>8. CASE terms[k].pid = m.sid[1]
  <2>1. SearchStays(c)
    BY <1>1, <1>2, <1>5, <1>6, <1>8 DEF SearchStays
  <2>2. EntryStays(k)
    BY <1>2, <1>6, <1>8 DEF EntryStays
  <2>. QED BY <1>3, <1>4, <1>5, <2>1, <2>2, SeekStep
<1>9. CASE terms[k].pid = 0 /\ terms[k].state # "ended"
  <2>1. PendingIsSought'
    <3>1. ASSUME losses' = 0, NEW j \in Used', terms'[j].pid = 0, terms'[j].state # "ended"
          PROVE  \E b \in Chains : chains'[b].at \in Seeking /\ chains'[b].key = j
      <4>1. j # k /\ j \in Used /\ terms'[j] = terms[j]
        BY <1>2, <1>6, <1>7, <3>1
      <4>2. PICK b \in Chains : chains[b].at \in Seeking /\ chains[b].key = j
        BY <1>3, <3>1, <4>1, PendingBy DEF SeekInv
      <4>3. b # c
        BY <1>1, <4>1, <4>2
      <4>. QED BY <1>5, <4>2, <4>3
    <3>. QED BY <3>1 DEF PendingIsSought, At, Seeking
  <2>2. OnceInv'
    <3> SUFFICES ASSUME launches < 2
                 PROVE  /\ TrackedOnce'
                        /\ \A b \in Chains : Alone(chains[b])'
                        /\ \A b \in Chains : ~Searches(chains[b])'
      BY <1>3 DEF SeekInv, OnceInv
    <3>1. Alone(m) /\ Searches(m)
      BY <1>1, <1>2, <1>9 DEF SeekInv, OnceInv, Searches
    <3>2. \A j \in Used : terms[j].pid # m.sid[1]
      BY <1>1, <1>2, <1>9, <3>1 DEF Alone
    <3>3. TrackedOnce'
      <4>1. TrackedOnce
        BY DEF SeekInv, OnceInv
      <4>2. \A j \in Used' : j # k => j \in Used /\ terms'[j].pid = terms[j].pid
        BY <1>7
      <4>. QED BY <1>2, <1>6, <3>2, <4>1, <4>2 DEF TrackedOnce
    <3>4. ASSUME NEW b \in Chains, Searches(chains[b])' PROVE FALSE
      <4>1. b # c
        BY <1>5, <1>6, <3>4 DEF Searches
      <4>2. chains'[b] = chains[b] /\ ChainOwn(chains[b])
        BY <1>5, <4>1 DEF OwnInv
      <4>3. chains[b].key # k
        BY <1>1, <1>2, <1>6, <3>4, <4>2 DEF Searches
      <4>4. terms'[chains[b].key] = terms[chains[b].key]
        BY <1>5, <3>4, <4>2, <4>3 DEF Searches, ChainOwn, Used
      <4>5. Searches(chains[b])
        BY <3>4, <4>2, <4>4 DEF Searches
      <4>. QED BY <1>1, <3>1, <4>1, <4>5 DEF SeekInv, OnceInv
    <3>5. ASSUME NEW b \in Chains PROVE Alone(chains[b])'
      <4>1. ChainOwn(chains[b])'
        BY DEF OwnInv
      <4>. QED BY <3>4, <4>1 DEF Alone, Searches, ChainOwn
    <3>. QED BY <3>3, <3>4, <3>5
  <2>. QED BY <2>1, <2>2 DEF SeekInv
<1>. QED BY <1>2, <1>8, <1>9

LEMMA SeekLost ==
  ASSUME TypeOK, TypeOK', OwnInv, OwnInv', SeekInv, NEW c \in Chains, handleSessionLost(c)
  PROVE  SeekInv'
<1>1. PICK m \in Stage, k \in Keys : m = chains[c] /\ k = m.key /\ ChainOwn(m)
  BY StepOf DEF Step
<1>2. m.at = "lost" /\ k \in Used
  BY <1>1 DEF ChainOwn, handleSessionLost
<1>3. UNCHANGED <<cwd, launches, losses, scan>>
  BY <1>1, <1>2 DEF handleSessionLost, machine
<1>4. /\ terms' = [terms EXCEPT ![k] = [terms[k] EXCEPT !.state = "ended"]]
      /\ Becomes(c, Idle)
  BY <1>1, <1>2 DEF handleSessionLost, TypeOK
<1>5. /\ terms'[k] = [terms[k] EXCEPT !.state = "ended"]
      /\ \A j \in Keys \ {k} : terms'[j] = terms[j]
      /\ chains'[c].at = "idle"
  BY <1>4, StageOwn DEF TypeOK, Becomes
<1>6. /\ terms'[k].pid = terms[k].pid /\ terms'[k].dir = terms[k].dir
      /\ terms'[k].state = "ended"
  BY <1>2, <1>5, UsedTerminal DEF Terminal
<1>7. SearchStays(c) /\ EntryStays(k)
  BY <1>1, <1>2, <1>5, <1>6 DEF SearchStays, EntryStays
<1>. QED BY <1>3, <1>4, <1>5, <1>7, SeekStep

LEMMA SeekWait ==
  ASSUME TypeOK, TypeOK', OwnInv, OwnInv', SeekInv, NEW c \in Chains, waitForLog(c)
  PROVE  SeekInv'
<1>1. PICK m \in Stage, k \in Keys : m = chains[c] /\ k = m.key /\ ChainOwn(m)
  BY StepOf DEF Step
<1>2. m.at = "wait" /\ terms[k].pid # 0
  BY <1>1, StageFields DEF ChainOwn, waitForLog, SessionIDs, Procs
<1>3. UNCHANGED <<terms, cwd, launches, losses, scan>>
  BY DEF waitForLog, machine
<1>4. PICK x : Becomes(c, x) /\ x.key = k
  BY <1>1, StageOwn DEF waitForLog
<1>5. chains'[c] = x
  BY <1>4 DEF Becomes, TypeOK
<1>6. SearchStays(c) /\ EntryStays(k)
  BY <1>1, <1>2, <1>3, <1>4, <1>5 DEF SearchStays, EntryStays, Seeking, Used
<1>. QED BY <1>3, <1>4, <1>6, SeekStep

LEMMA SeekReady ==
  ASSUME TypeOK, TypeOK', OwnInv, OwnInv', SeekInv, NEW c \in Chains, handleWatcherReady(c)
  PROVE  SeekInv'
<1>1. PICK m \in Stage, k \in Keys : m = chains[c] /\ k = m.key /\ ChainOwn(m)
  BY StepOf DEF Step
<1>2. m.at = "ready" /\ terms[k].pid # 0 /\ k \in Used
  <2>1. m.at = "ready" /\ m.watcher \in Watchers /\ terms[k].pid = m.watcher.sid[1]
    BY <1>1, StageFields DEF ChainOwn, handleWatcherReady
  <2>2. m.watcher.sid[1] \in Procs
    BY <2>1 DEF Watchers, SessionIDs
  <2>. QED BY <2>1, <2>2, OwnFacts DEF Procs
<1>3. UNCHANGED <<cwd, launches, losses, scan>>
  BY DEF handleWatcherReady, machine
<1>4. PICK x : Becomes(c, x) /\ x.at \in {"idle", "watch"}
  <2>1. Becomes(c, Idle) \/ Becomes(c, Watch(k, m.watcher))
    BY <1>1 DEF handleWatcherReady
  <2>2. Idle.at = "idle" /\ Watch(k, m.watcher).at = "watch"
    BY DEF Idle, Watch
  <2>. QED BY <2>1, <2>2
<1>5. chains'[c] = x
  BY <1>4 DEF Becomes, TypeOK
<1>6. SearchStays(c)
  BY <1>1, <1>2, <1>4, <1>5 DEF SearchStays, Seeking
<1>7. CASE UNCHANGED terms
  <2>1. EntryStays(k)
    BY <1>7 DEF EntryStays, Used
  <2>. QED BY <1>3, <1>4, <1>6, <1>7, <2>1, SeekStep
<1>8. ASSUME NEW s, terms' = [terms EXCEPT ![k].sid = m.watcher.sid,
                                           ![k].watcher = m.watcher, ![k].state = s]
      PROVE  SeekInv'
  <2>1. terms[k] \in Terminal
    BY <1>2, UsedTerminal
  <2>2. /\ terms'[k] = [terms[k] EXCEPT !.sid = m.watcher.sid, !.watcher = m.watcher,
                                       !.state = s]
        /\ \A j \in Keys \ {k} : terms'[j] = terms[j]
    BY <1>8 DEF TypeOK
  <2>3. terms'[k].pid = terms[k].pid /\ terms'[k].dir = terms[k].dir
    BY <2>1, <2>2 DEF Terminal
  <2>4. EntryStays(k)
    BY <1>2, <2>3 DEF EntryStays
  <2>. QED BY <1>3, <1>4, <1>6, <2>2, <2>4, SeekStep
<1>. QED BY <1>1, <1>7, <1>8 DEF handleWatcherReady

LEMMA SeekWatch ==
  ASSUME TypeOK, TypeOK', OwnInv, OwnInv', SeekInv, NEW c \in Chains, watchNext(c)
  PROVE  SeekInv'
<1>1. PICK m \in Stage, k \in Keys : m = chains[c] /\ k = m.key /\ ChainOwn(m)
  BY StepOf DEF Step
<1>2. m.at = "watch" /\ UNCHANGED <<terms, cwd, launches, losses, scan>>
  BY <1>1 DEF watchNext, machine
<1>3. PICK x : Becomes(c, x) /\ x.at \in {"idle", "event"}
  BY <1>1, StageOwn DEF watchNext
<1>4. chains'[c] = x
  BY <1>3 DEF Becomes, TypeOK
<1>5. SearchStays(c) /\ EntryStays(k)
  BY <1>1, <1>2, <1>3, <1>4 DEF SearchStays, EntryStays, Seeking, Used
<1>. QED BY <1>2, <1>3, <1>5, SeekStep

LEMMA SeekEvent ==
  ASSUME TypeOK, TypeOK', OwnInv, OwnInv', SeekInv, NEW c \in Chains, handleAgentEvent(c)
  PROVE  SeekInv'
<1>1. PICK m \in Stage, k \in Keys : m = chains[c] /\ k = m.key /\ ChainOwn(m)
  BY StepOf DEF Step
<1>2. m.at = "event" /\ terms[k].pid # 0 /\ k \in Used
  BY <1>1, OwnFacts DEF ChainOwn, handleAgentEvent
<1>3. UNCHANGED <<cwd, launches, losses, scan>>
  BY DEF handleAgentEvent
<1>4. PICK x : Becomes(c, x) /\ x.at \in {"idle", "watch"}
  BY <1>1, StageOwn DEF handleAgentEvent
<1>5. chains'[c] = x
  BY <1>4 DEF Becomes, TypeOK
<1>6. SearchStays(c)
  BY <1>1, <1>2, <1>4, <1>5 DEF SearchStays, Seeking
<1>7. \/ UNCHANGED terms
      \/ terms' = [terms EXCEPT ![k] = [terms[k] EXCEPT !.state = m.state]]
  BY <1>1 DEF handleAgentEvent, TypeOK
<1>8. EntryStays(k) /\ \A j \in Keys \ {k} : terms'[j] = terms[j]
  <2>1. terms[k] \in Terminal
    BY <1>2, UsedTerminal
  <2>2. terms'[k].pid = terms[k].pid /\ terms'[k].dir = terms[k].dir
    BY <1>7, <2>1 DEF Terminal, TypeOK
  <2>. QED BY <1>2, <1>7, <2>2 DEF EntryStays, TypeOK
<1>. QED BY <1>3, <1>4, <1>6, <1>8, SeekStep

LEMMA SeekLose ==
  ASSUME TypeOK, TypeOK', OwnInv, OwnInv', SeekInv, NEW c \in Chains, Lose(c)
  PROVE  SeekInv'
<1>1. PICK k \in Keys : k = chains[c].key
  BY OwnFacts, StageFields DEF Lose
<1>2. UNCHANGED <<terms, cwd, launches, scan>> /\ losses' # 0 /\ Becomes(c, Idle)
  BY SessionsAssumption DEF Lose, machine, TypeOK
<1>3. chains'[c].at = "idle"
  BY <1>2, StageOwn DEF Becomes, TypeOK
<1>4. SearchStays(c) /\ EntryStays(k)
  BY <1>2, <1>3 DEF SearchStays, EntryStays, Used
<1>. QED BY <1>2, <1>4, SeekStep

LEMMA SeekExisting ==
  ASSUME TypeOK, TypeOK', OwnInv, OwnInv', SeekInv, handleExistingSessions
  PROVE  SeekInv'
<1> DEFINE new == {s \in scan : s[1] \notin Tracked /\ cwd[s[1]] \notin PendingDirs}
           n == Cardinality(new)
<1>1. PICK at \in Bijection(Lowest(FreeKeys, n), new) :
        /\ terms' = [k \in Keys |-> IF k \in DOMAIN at
                                   THEN Attached(at[k], cwd[at[k][1]])
                                   ELSE terms[k]]
        /\ \E by \in Bijection(Lowest(FreeChains, n), DOMAIN at) :
             chains' = [c \in Chains |-> IF c \in DOMAIN by
                                        THEN Wait(by[c], at[by[c]])
                                        ELSE chains[c]]
  BY DEF handleExistingSessions
<1>2. PICK by \in Bijection(Lowest(FreeChains, n), DOMAIN at) :
        chains' = [c \in Chains |-> IF c \in DOMAIN by
                                   THEN Wait(by[c], at[by[c]])
                                   ELSE chains[c]]
  BY <1>1
<1>3. UNCHANGED <<cwd, launches, losses>> /\ scan' = {}
  BY DEF handleExistingSessions, machine
<1>4. /\ DOMAIN at = Lowest(FreeKeys, n)
      /\ \A k \in DOMAIN at : at[k] \in new
      /\ \A j, k \in DOMAIN at : at[j] = at[k] => j = k
  BY DEF Bijection, Injection, IsInjective
<1>5. DOMAIN at \subseteq Keys \ Used
  BY <1>4, LowestFree
<1>6. \A k \in Keys : k \notin DOMAIN at => terms'[k] = terms[k]
  BY <1>1
<1>7. ASSUME NEW k \in DOMAIN at
      PROVE  /\ terms'[k].pid = at[k][1] /\ at[k][1] # 0 /\ at[k] \in scan
             /\ cwd[at[k][1]] \notin PendingDirs /\ at[k][1] \notin Tracked
  <2>1. at[k] \in new /\ at[k] \in SessionIDs
    BY <1>4 DEF TypeOK
  <2>2. terms'[k].pid = at[k][1]
    BY <1>1, <1>5 DEF Attached
  <2>. QED BY <2>1, <2>2 DEF SessionIDs, Procs
<1>8. \A k \in Used' : k \in Keys /\ (k \notin DOMAIN at => k \in Used)
  BY <1>6 DEF Used
<1>9. ASSUME NEW c \in Chains, chains'[c].at \in Seeking PROVE chains'[c] = chains[c]
  <2>1. CASE c \in DOMAIN by
    <3>1. chains'[c].at = "wait"
      BY <1>2, <2>1, StageOwn
    <3>. QED BY <1>9, <3>1 DEF Seeking
  <2>. QED BY <1>2, <2>1
<1>10. ASSUME NEW c \in Chains, chains[c].at \in Seeking PROVE chains'[c] = chains[c]
  <2>1. DOMAIN by = Lowest(FreeChains, n)
    BY DEF Bijection, Injection
  <2>2. c \notin DOMAIN by
    BY <1>10, <2>1, LowestFree, StageOwn DEF Seeking
  <2>. QED BY <1>2, <2>2
<1>11. ASSUME NEW k \in Used
       PROVE  k \notin DOMAIN at /\ terms'[k] = terms[k] /\ k \in Used'
  <2>1. k \notin DOMAIN at
    BY <1>5
  <2>. QED BY <1>6, <2>1 DEF Used
<1>12. PendingIsSought'
  <2>1. ASSUME losses' = 0, NEW j \in Used', terms'[j].pid = 0, terms'[j].state # "ended"
        PROVE  \E b \in Chains : chains'[b].at \in Seeking /\ chains'[b].key = j
    <3>1. j \in Used
      BY <1>7, <1>8, <2>1
    <3>2. PICK b \in Chains : chains[b].at \in Seeking /\ chains[b].key = j
      BY <1>3, <1>11, <2>1, <3>1, PendingBy DEF SeekInv
    <3>. QED BY <1>10, <3>2
  <2>. QED BY <2>1 DEF PendingIsSought, At, Seeking
<1>13. OnceInv'
  <2> SUFFICES ASSUME launches < 2
               PROVE  /\ TrackedOnce'
                      /\ \A b \in Chains : Alone(chains[b])'
                      /\ \A b \in Chains : Searches(chains[b])' => Searches(chains[b])
                                                                 /\ chains'[b] = chains[b]
    BY <1>3 DEF SeekInv, OnceInv
  <2>1. \A j, k \in Used : terms[j].pid = terms[k].pid /\ terms[j].pid # 0 => j = k
    BY DEF SeekInv, OnceInv, TrackedOnce
  <2>2. \A j \in Used : terms[j].pid # 0 => terms[j].pid \in Tracked
    BY DEF Tracked
  <2>3. \A j, k \in DOMAIN at : terms'[j].pid = terms'[k].pid => j = k
    <3>1. \A s, t \in scan : s[1] = t[1] => s = t
      BY DEF SeekInv, OnceInv
    <3>. QED BY <1>4, <1>7, <3>1
  <2>4. \A j \in Used', k \in Used' : terms'[j].pid = terms'[k].pid /\ terms'[j].pid # 0 => j = k
    BY <1>7, <1>8, <1>11, <2>1, <2>2, <2>3
  <2>5. TrackedOnce'
    BY <2>4 DEF TrackedOnce
  <2>6. ASSUME NEW b \in Chains, Searches(chains[b])'
        PROVE  /\ Searches(chains[b]) /\ chains'[b] = chains[b] /\ chains[b].key \in Used
               /\ terms'[chains[b].key] = terms[chains[b].key]
    <3>1. chains'[b] = chains[b] /\ ChainOwn(chains[b])
      BY <1>9, <2>6 DEF Searches, Seeking, OwnInv
    <3>2. chains[b].key \in Used
      BY <2>6, <3>1 DEF Searches, ChainOwn
    <3>. QED BY <1>11, <2>6, <3>1, <3>2 DEF Searches
  <2>7. ASSUME NEW b \in Chains PROVE Alone(chains[b])'
    <3>1. CASE ~Searches(chains[b])'
      <4>1. ChainOwn(chains[b])'
        BY DEF OwnInv
      <4>. QED BY <3>1, <4>1 DEF Alone, Searches, ChainOwn
    <3>2. CASE Searches(chains[b])'
      <4>1. PICK m \in Stage, k \in Keys :
              /\ m = chains[b] /\ m = chains'[b] /\ k = m.key /\ Alone(m)
              /\ Searches(m) /\ k \in Used /\ terms'[k] = terms[k]
        <5>1. chains[b].key \in Keys
          BY <2>6, <3>2 DEF Used
        <5>2. Alone(chains[b])
          BY DEF SeekInv, OnceInv
        <5>3. Searches(chains[b]) /\ chains'[b] = chains[b] /\ chains[b].key \in Used
              /\ terms'[chains[b].key] = terms[chains[b].key]
          BY <2>6, <3>2
        <5>. QED BY <5>1, <5>2, <5>3, OwnFacts
      <4>2. terms[k].dir \in PendingDirs
        BY <4>1 DEF PendingDirs, Searches
      <4>3. ASSUME NEW j \in Used'
            PROVE  \/ j \in Used /\ terms'[j] = terms[j]
                   \/ /\ cwd[terms'[j].pid] # terms[k].dir
                      /\ j \in DOMAIN at
        BY <1>7, <1>8, <1>11, <4>2
      <4>. QED BY <1>3, <4>1, <4>3 DEF Alone, Searches
    <3>. QED BY <3>1, <3>2
  <2>. QED BY <2>5, <2>6, <2>7
<1>. QED BY <1>12, <1>13 DEF SeekInv

\* The ticks and the kill key: an entry stays, goes, or keeps its PID.
LEMMA SeekTick ==
  ASSUME TypeOK, TypeOK', OwnInv', SeekInv, UNCHANGED <<cwd, launches, losses, scan>>,
         \A k \in Keys : EntryStays(k), \A c \in Chains : SearchStays(c)
  PROVE  SeekInv'
<1>1. \A s, t \in scan' : s[1] = t[1] => s = t
  BY DEF SeekInv, OnceInv
<1>2. OnceInv'
  BY <1>1, OnceQuiet DEF SeekInv
<1>3. PendingIsSought'
  BY PendingQuiet DEF SeekInv
<1>. QED BY <1>2, <1>3 DEF SeekInv

LEMMA SeekLiveness ==
  ASSUME TypeOK, TypeOK', OwnInv, OwnInv', SeekInv,
         NEW gone \in SUBSET Expired, checkSessionLiveness(gone)
  PROVE  SeekInv'
<1>1. PICK by \in Bijection(Lowest(FreeChains, Cardinality(Switched)), Switched) :
        chains' = [c \in Chains |-> IF c \in DOMAIN by
                                   THEN Wait(by[c], Session(terms[by[c]].pid))
                                   ELSE chains[c]]
  BY DEF checkSessionLiveness
<1>2. UNCHANGED <<cwd, launches, losses, scan>>
  BY DEF checkSessionLiveness
<1>3. /\ \A k \in Keys : k \in gone => terms'[k] = None
      /\ \A k \in Keys \ gone : k \in Dead =>
            terms'[k] = [terms[k] EXCEPT !.state = "ended"]
      /\ \A k \in Keys \ gone : k \in Switched =>
            terms'[k] = [terms[k] EXCEPT !.watcher = NoWatcher, !.state = "unknown",
                                         !.sid = Session(terms[k].pid)]
      /\ \A k \in Keys \ gone : k \notin Dead \cup Switched => terms'[k] = terms[k]
  BY DEF checkSessionLiveness, Dead, Switched
<1>4. \A k \in Dead \cup Switched : k \in Used /\ k \in Keys /\ k \notin gone /\ terms[k].pid # 0
  BY OwnFacts DEF Dead, Switched, Expired, EndedKeys, Used
<1>5. ASSUME NEW k \in Keys PROVE EntryStays(k)
  <2>1. CASE k \in gone
    <3>1. k \notin Used'
      BY <1>3, <2>1 DEF Used
    <3>. QED BY <3>1 DEF EntryStays
  <2>2. CASE k \in Dead \cup Switched
    <3>1. terms[k] \in Terminal
      BY <1>4, <2>2, UsedTerminal
    <3>2. terms'[k].pid = terms[k].pid /\ terms'[k].dir = terms[k].dir
      BY <1>3, <1>4, <2>2, <3>1 DEF Terminal
    <3>. QED BY <1>4, <2>2, <3>2 DEF EntryStays
  <2>3. CASE k \notin gone \cup Dead \cup Switched
    BY <1>3, <2>3 DEF EntryStays, Used
  <2>. QED BY <2>1, <2>2, <2>3
<1>6. ASSUME NEW c \in Chains PROVE SearchStays(c)
  <2>1. CASE c \in DOMAIN by
    <3>1. c \in Lowest(FreeChains, Cardinality(Switched))
      BY <2>1 DEF Bijection, Injection
    <3>2. chains[c].at = "idle"
      BY <3>1, LowestFree, StageOwn
    <3>3. chains'[c].at = "wait"
      BY <1>1, <2>1, StageOwn
    <3>. QED BY <3>2, <3>3 DEF SearchStays, Seeking
  <2>2. CASE c \notin DOMAIN by
    BY <1>1, <2>2 DEF SearchStays
  <2>. QED BY <2>1, <2>2
<1>. QED BY <1>2, <1>5, <1>6, SeekTick

LEMMA SeekSignals ==
  ASSUME TypeOK, TypeOK', OwnInv, OwnInv', SeekInv, ReadSignals \/ MatchSignals
  PROVE  SeekInv'
<1>1. CASE ReadSignals
  <2>1. UNCHANGED <<terms, chains, cwd, launches, losses, scan>>
    BY <1>1 DEF ReadSignals, machine
  <2>. QED BY <2>1, SeekQuiet DEF SeekInv, OnceInv
<1>2. CASE MatchSignals
  <2> DEFINE of(s) == {k \in Used : terms[k].sid = s}
             matched == {s \in reading : of(s) # {}}
  <2>1. UNCHANGED <<chains, cwd, launches, losses, scan>>
    BY <1>2 DEF MatchSignals
  <2>2. PICK at \in [matched -> Used] :
          /\ \A s \in matched : at[s] \in of(s)
          /\ terms' = [k \in Keys |-> IF k \in Range(at)
                                   THEN [terms[k] EXCEPT !.state = "permission"]
                                   ELSE terms[k]]
    BY <1>2 DEF MatchSignals
  <2>3. ASSUME NEW k \in Keys PROVE EntryStays(k)
    <3>1. CASE k \notin Range(at)
      BY <2>2, <3>1 DEF EntryStays, Used
    <3>2. CASE k \in Range(at)
      <4>1. PICK s \in matched : k = at[s]
        BY <3>2 DEF Range
      <4>2. k \in Used /\ terms[k].sid = s /\ s \in SessionIDs
        BY <2>2, <4>1 DEF TypeOK
      <4>3. s # NoSession /\ s[1] # 0
        BY <4>2 DEF SessionIDs, NoSession, Procs
      <4>4. terms[k].pid # 0
        BY <4>2, <4>3, OwnFacts DEF EntryOwn
      <4>5. terms'[k].pid = terms[k].pid /\ terms'[k].dir = terms[k].dir
        BY <2>2, <3>2, <4>2, UsedTerminal DEF Terminal
      <4>. QED BY <4>2, <4>4, <4>5 DEF EntryStays
    <3>. QED BY <3>1, <3>2
  <2>4. \A c \in Chains : SearchStays(c)
    BY <2>1 DEF SearchStays
  <2>. QED BY <2>1, <2>3, <2>4, SeekTick
<1>. QED BY <1>1, <1>2

LEMMA SeekKills ==
  ASSUME TypeOK, TypeOK', OwnInv, OwnInv', SeekInv,
         (\E k \in Used : showKillTerminalConfirm(k))
         \/ killTerminal \/ handleKillTerminal \/ dropKill
  PROVE  SeekInv'
<1>1. UNCHANGED <<chains, cwd, launches, losses, scan>>
  BY DEF showKillTerminalConfirm, killTerminal, Dies, handleKillTerminal, dropKill, machine
<1>2. CASE UNCHANGED terms
  BY <1>1, <1>2, SeekQuiet DEF SeekInv, OnceInv
<1>3. CASE handleKillTerminal /\ kill.key \in Used
  <2>1. PICK k \in Keys : k = kill.key /\ k \in Used
    BY <1>3 DEF Used
  <2>2. /\ terms'[k] = [terms[k] EXCEPT !.state = "ended"]
        /\ \A j \in Keys \ {k} : terms'[j] = terms[j]
    BY <1>3, <2>1 DEF handleKillTerminal, TypeOK
  <2>3. /\ terms'[k].pid = terms[k].pid /\ terms'[k].dir = terms[k].dir
        /\ terms'[k].state = "ended"
    BY <2>1, <2>2, UsedTerminal DEF Terminal
  <2>4. \A j \in Keys : EntryStays(j)
    BY <2>1, <2>2, <2>3 DEF EntryStays, Used
  <2>5. \A c \in Chains : SearchStays(c)
    BY <1>1 DEF SearchStays
  <2>. QED BY <1>1, <2>4, <2>5, SeekTick
<1>. QED BY <1>2, <1>3
         DEF showKillTerminalConfirm, killTerminal, handleKillTerminal, dropKill

LEMMA NextSeek == TypeOK /\ TypeOK' /\ OwnInv /\ OwnInv' /\ SeekInv /\ [Next]_vars => SeekInv'
<1> SUFFICES ASSUME TypeOK, TypeOK', OwnInv, OwnInv', SeekInv, [Next]_vars PROVE SeekInv'
  OBVIOUS
<1>1. CASE Machine \/ UNCHANGED vars
  BY <1>1, SeekMachine
<1>2. CASE Scan \/ loseScan \/ handleExistingSessions \/ ReadSignals \/ MatchSignals
  BY <1>2, SeekScan, SeekExisting, SeekSignals
<1>3. ASSUME NEW d \in Dirs, handleLaunchResult(d) PROVE SeekInv'
  BY <1>3, SeekLaunch
<1>4. ASSUME NEW c \in Chains, Step(c) \/ Lose(c) PROVE SeekInv'
  BY <1>4, SeekDiscover, SeekFound, SeekLost, SeekWait, SeekReady, SeekWatch, SeekEvent,
     SeekLose DEF Step
<1>5. ASSUME NEW gone \in SUBSET Expired, checkSessionLiveness(gone) PROVE SeekInv'
  BY <1>5, SeekLiveness
<1>6. CASE (\E k \in Used : showKillTerminalConfirm(k))
           \/ killTerminal \/ handleKillTerminal \/ dropKill
  BY <1>6, SeekKills
<1>. QED BY <1>1, <1>2, <1>3, <1>4, <1>5, <1>6 DEF Next

\* A process found by a launch's discovery, by the session scan or through
\* /resume has one entry, and no launch's entry is left with nobody seeking
\* its process, whatever the order in which the messages are handled.
THEOREM EntriesSought == Spec => []EntriesAreSought
<1>1. SeekInv => EntriesAreSought
  BY DEF SeekInv, OnceInv, EntriesAreSought, TrackedOnce
<1>. QED BY <1>1, InitType, NextType, InitOwn, NextOwn, InitSeek, NextSeek, PTL DEF Spec
-----------------------------------------------------------------------------
(***************************************************************************)
(* An entry's watcher is replaced only by the chain that made the new one, *)
(* for a chain takes no id that some watcher has: whoever listens to the   *)
(* entry's watcher goes on, and so does whoever follows its session.       *)
(***************************************************************************)

\* Some watcher has id c.
WatcherOf(c) ==
    \/ \E w \in live : w.id = c
    \/ \E k \in Keys : terms[k].watcher.id = c
    \/ \E d \in Chains : chains[d].at \in {"ready", "watch"} /\ chains[d].watcher.id = c

\* A chain that may still make its watcher has made none.
Early == {"discover", "found", "wait"}
FreshIds == \A c \in Chains : chains[c].at \in Early => ~WatcherOf(c)

Listens(m, k) ==
    /\ m.at \in {"event", "watch"} /\ m.key = k
    /\ m.at = "watch" => m.watcher = terms[k].watcher
Follows(m, k) ==
    /\ m.at \in {"found", "lost", "wait", "ready"} /\ m.key = k
    /\ m.at = "wait" => m.sid = terms[k].sid
    /\ m.at = "ready" => m.watcher.sid = terms[k].sid
KeptAt(k) ==
    terms[k].watcher \in live =>
        /\ \E c \in Chains : Listens(chains[c], k)
        /\ \/ terms[k].watcher.sid = terms[k].sid
           \/ \E c \in Chains : Follows(chains[c], k)

WatchInv == FreshIds /\ (losses = 0 => \A k \in Keys : KeptAt(k))

LEMMA NoWatcherNew == NoWatcher \notin Watchers /\ NoWatcher.id \notin Chains
  BY DEF NoWatcher, Watchers, Chains

\* Ids are new as long as a step takes watchers from where there are some and gives
\* only chains work whose id is new.
LEMMA FreshKept ==
  ASSUME FreshIds,
         \A w \in live' : WatcherOf(w.id),
         \A k \in Keys : \/ terms'[k].watcher.id = NoWatcher.id
                         \/ WatcherOf(terms'[k].watcher.id),
         \A d \in Chains : chains'[d].at \in {"ready", "watch"} => WatcherOf(chains'[d].watcher.id),
         \A d \in Chains : chains'[d].at \in Early => chains[d].at \in Early \/ ~WatcherOf(d)
  PROVE  FreshIds'
<1> SUFFICES ASSUME NEW c \in Chains, chains'[c].at \in Early, WatcherOf(c)' PROVE FALSE
  BY DEF FreshIds
<1>1. ~WatcherOf(c)
  BY DEF FreshIds
<1>2. c # NoWatcher.id
  BY NoWatcherNew
<1>3. CASE \E w \in live' : w.id = c
  BY <1>1, <1>3
<1>4. CASE \E k \in Keys : terms'[k].watcher.id = c
  BY <1>1, <1>2, <1>4
<1>5. CASE \E d \in Chains : chains'[d].at \in {"ready", "watch"} /\ chains'[d].watcher.id = c
  BY <1>1, <1>5
<1>. QED BY <1>3, <1>4, <1>5 DEF WatcherOf

\* What is a watcher somewhere.
LEMMA WatcherSome ==
  /\ \A w \in live : WatcherOf(w.id)
  /\ \A k \in Keys : WatcherOf(terms[k].watcher.id)
  /\ \A d \in Chains : chains[d].at \in {"ready", "watch"} => WatcherOf(chains[d].watcher.id)
  BY DEF WatcherOf

\* The handlers of ticks and keys: watchers are only taken away, and what a chain
\* does is left to it.
LEMMA WatchTick ==
  ASSUME TypeOK, TypeOK', WatchInv, live' \subseteq live, losses' = 0 => losses = 0,
         \A k \in Keys : \/ terms'[k].watcher = NoWatcher
                         \/ /\ terms'[k].watcher = terms[k].watcher
                            /\ terms'[k].sid = terms[k].sid,
         \A c \in Chains : \/ chains'[c] = chains[c]
                           \/ losses' # 0 /\ chains'[c].at = "idle"
                           \/ /\ chains[c].at = "idle" /\ ~WatcherOf(c)
                              /\ chains'[c].at \in Early
  PROVE  WatchInv'
<1>1. FreshIds'
  <2>1. \A d \in Chains : chains'[d].at \in {"ready", "watch"} => WatcherOf(chains'[d].watcher.id)
    BY WatcherSome DEF Early
  <2>2. \A k \in Keys : terms'[k].watcher.id = NoWatcher.id \/ WatcherOf(terms'[k].watcher.id)
    BY WatcherSome
  <2>3. \A w \in live' : WatcherOf(w.id)
    BY WatcherSome
  <2>4. \A d \in Chains : chains'[d].at \in Early => chains[d].at \in Early \/ ~WatcherOf(d)
    BY DEF Early
  <2>. QED BY <2>1, <2>2, <2>3, <2>4, FreshKept DEF WatchInv
<1>2. ASSUME losses' = 0, NEW k \in Keys PROVE KeptAt(k)'
  <2>1. KeptAt(k) /\ losses = 0
    BY <1>2 DEF WatchInv
  <2>2. CASE terms'[k].watcher = NoWatcher
    <3>1. terms'[k].watcher \notin live'
      BY <2>2, NoWatcherNew DEF TypeOK
    <3>. QED BY <3>1 DEF KeptAt
  <2>3. CASE terms'[k].watcher = terms[k].watcher /\ terms'[k].sid = terms[k].sid
    <3>1. \A c \in Chains : chains[c].at # "idle" => chains'[c] = chains[c]
      BY <1>2
    <3>2. \A c \in Chains : Listens(chains[c], k) => Listens(chains[c], k)'
      BY <2>3, <3>1 DEF Listens
    <3>3. \A c \in Chains : Follows(chains[c], k) => Follows(chains[c], k)'
      BY <2>3, <3>1 DEF Follows
    <3>. QED BY <2>1, <2>3, <3>2, <3>3 DEF KeptAt
  <2>. QED BY <2>2, <2>3
<1>. QED BY <1>1, <1>2 DEF WatchInv

\* A step of chain c concerns its key.
LEMMA WatchStep ==
  ASSUME TypeOK, TypeOK', WatchInv, FreshIds', losses' = losses,
         NEW c \in Chains, NEW m, m = chains[c], NEW x, Becomes(c, x),
         NEW k \in Keys, k = m.key, \A j \in Keys \ {k} : terms'[j] = terms[j],
         \A w \in live' \ live : w.id = c /\ m.at \in Early,
         losses = 0 => KeptAt(k)'
  PROVE  WatchInv'
<1>1. \A d \in Chains \ {c} : chains'[d] = chains[d]
  BY DEF Becomes, TypeOK
<1>2. ASSUME losses' = 0, NEW j \in Keys \ {k} PROVE KeptAt(j)'
  <2>1. KeptAt(j) /\ terms'[j] = terms[j]
    BY <1>2 DEF WatchInv
  <2>2. terms[j].watcher \in live' => terms[j].watcher \in live
    BY WatcherSome DEF WatchInv, FreshIds
  <2>3. \A d \in Chains : Listens(chains[d], j) => Listens(chains[d], j)'
    BY <1>1, <2>1 DEF Listens
  <2>4. \A d \in Chains : Follows(chains[d], j) => Follows(chains[d], j)'
    BY <1>1, <2>1 DEF Follows
  <2>. QED BY <2>1, <2>2, <2>3, <2>4 DEF KeptAt
<1>. QED BY <1>2 DEF WatchInv

\* ... one that makes no watcher.
LEMMA FreshStep ==
  ASSUME TypeOK, FreshIds, NEW c \in Chains, NEW x, Becomes(c, x), live' \subseteq live,
         \A k \in Keys : \/ terms'[k].watcher = terms[k].watcher
                         \/ chains[c].at = "ready" /\ terms'[k].watcher = chains[c].watcher,
         x.at \in {"ready", "watch"} => WatcherOf(x.watcher.id),
         x.at \in Early => chains[c].at \in Early
  PROVE  FreshIds'
<1>1. chains'[c] = x /\ \A d \in Chains \ {c} : chains'[d] = chains[d]
  BY DEF Becomes, TypeOK
<1>2. \A d \in Chains : chains'[d].at \in {"ready", "watch"} => WatcherOf(chains'[d].watcher.id)
  BY <1>1, WatcherSome
<1>3. \A k \in Keys : WatcherOf(terms'[k].watcher.id)
  BY WatcherSome
<1>4. \A w \in live' : WatcherOf(w.id)
  BY WatcherSome
<1>5. \A d \in Chains : chains'[d].at \in Early => chains[d].at \in Early
  BY <1>1
<1>. QED BY <1>2, <1>3, <1>4, <1>5, FreshKept

LEMMA InitWatch == Init => WatchInv
<1> SUFFICES ASSUME Init PROVE WatchInv
  OBVIOUS
<1>1. live = {} /\ \A c \in Chains : chains[c].at = "idle"
  BY DEF Init, Idle
<1>. QED BY <1>1 DEF WatchInv, FreshIds, KeptAt, Early

-----------------------------------------------------------------------------
LEMMA WatchDiscover ==
  ASSUME TypeOK, TypeOK', OwnInv, WatchInv, NEW c \in Chains, discover(c) PROVE WatchInv'
<1>1. PICK m \in Stage, k \in Keys : m = chains[c] /\ k = m.key /\ ChainOwn(m)
  BY StepOf DEF Step
<1>2. m.at = "discover" /\ UNCHANGED <<terms, live, losses>>
  BY <1>1 DEF discover, machine
<1>3. PICK x : Becomes(c, x) /\ x.at \in {"found", "lost"} /\ x.key = k
  BY <1>1, StageOwn DEF discover
<1>4. FreshIds'
  BY <1>1, <1>2, <1>3, FreshStep DEF WatchInv, Early
<1>5. ASSUME losses = 0 PROVE KeptAt(k)'
  <2>1. KeptAt(k)
    BY <1>5 DEF WatchInv
  <2>2. \A d \in Chains : d # c => chains'[d] = chains[d]
    BY <1>3 DEF Becomes, TypeOK
  <2>3. \A d \in Chains : Listens(chains[d], k) => Listens(chains[d], k)'
    BY <1>1, <1>2, <2>2 DEF Listens
  <2>4. \A d \in Chains : Follows(chains[d], k) => Follows(chains[d], k)'
    BY <1>1, <1>2, <2>2 DEF Follows
  <2>. QED BY <1>2, <2>1, <2>3, <2>4 DEF KeptAt
<1>. QED BY <1>1, <1>2, <1>3, <1>4, <1>5, WatchStep

LEMMA WatchWait ==
  ASSUME TypeOK, TypeOK', OwnInv, WatchInv, NEW c \in Chains, waitForLog(c) PROVE WatchInv'
<1>1. PICK m \in Stage, k \in Keys : m = chains[c] /\ k = m.key /\ ChainOwn(m)
  BY StepOf DEF Step
<1>2. m.at = "wait" /\ UNCHANGED <<terms, losses>>
  BY <1>1 DEF waitForLog, machine
<1>3. ~WatcherOf(c)
  BY <1>1, <1>2 DEF WatchInv, FreshIds, Early
<1>4. PICK x :
        /\ Becomes(c, x) /\ x.at \in {"found", "lost", "ready"} /\ x.key = k
        /\ x.at = "ready" => x.watcher.sid = m.sid /\ x.watcher.id = c
        /\ \A w \in live' \ live : w.id = c /\ x.at = "ready"
  <2>1. CASE Becomes(c, Lost(k)) /\ UNCHANGED live
    BY <2>1, StageOwn
  <2>2. CASE Becomes(c, Found(k, Session(m.sid[1]))) /\ UNCHANGED live
    BY <2>2, StageOwn
  <2>3. CASE Becomes(c, Ready(k, [id |-> c, sid |-> m.sid]))
             /\ live' = live \cup {[id |-> c, sid |-> m.sid]}
    <3>1. PICK w : /\ w.sid = m.sid /\ w.id = c /\ Becomes(c, Ready(k, w))
                   /\ live' = live \cup {w}
      BY <2>3
    <3>. QED BY <3>1, StageOwn
  <2>. QED BY <1>1, <2>1, <2>2, <2>3 DEF waitForLog
<1>5. chains'[c] = x /\ \A d \in Chains \ {c} : chains'[d] = chains[d]
  BY <1>4 DEF Becomes, TypeOK
<1>6. FreshIds'
  <2> SUFFICES ASSUME NEW d \in Chains, chains'[d].at \in Early, WatcherOf(d)' PROVE FALSE
    BY DEF FreshIds
  <2>1. ~WatcherOf(d) /\ (d = c => x.at # "ready")
    BY <1>1, <1>2, <1>5 DEF WatchInv, FreshIds, Early
  <2>2. ~\E w \in live' : w.id = d
    BY <1>4, <2>1 DEF WatcherOf
  <2>3. ~\E j \in Keys : terms'[j].watcher.id = d
    BY <1>2, <2>1 DEF WatcherOf
  <2>4. ~\E b \in Chains : chains'[b].at \in {"ready", "watch"} /\ chains'[b].watcher.id = d
    BY <1>4, <1>5, <2>1 DEF WatcherOf
  <2>. QED BY <2>2, <2>3, <2>4 DEF WatcherOf
<1>7. ASSUME losses = 0 PROVE KeptAt(k)'
  <2>1. KeptAt(k)
    BY <1>7 DEF WatchInv
  <2>2. \A d \in Chains : Listens(chains[d], k) => Listens(chains[d], k)'
    BY <1>1, <1>2, <1>5 DEF Listens
  <2>3. \A d \in Chains : Follows(chains[d], k) => Follows(chains[d], k)'
    BY <1>1, <1>2, <1>4, <1>5 DEF Follows
  <2>4. terms[k].watcher \in live' => terms[k].watcher \in live
    BY <1>3, <1>4 DEF WatcherOf
  <2>. QED BY <1>2, <2>1, <2>2, <2>3, <2>4 DEF KeptAt
<1>8. \A w \in live' \ live : w.id = c /\ m.at \in Early
  BY <1>2, <1>4 DEF Early
<1>. QED BY <1>1, <1>2, <1>4, <1>6, <1>7, <1>8, WatchStep

LEMMA WatchFound ==
  ASSUME TypeOK, TypeOK', OwnInv, WatchInv, NEW c \in Chains, handleSessionFound(c)
  PROVE  WatchInv'
<1>1. PICK m \in Stage, k \in Keys : m = chains[c] /\ k = m.key /\ ChainOwn(m)
  BY StepOf DEF Step
<1>2. m.at = "found" /\ k \in Used /\ UNCHANGED <<live, losses>>
  BY <1>1 DEF handleSessionFound, machine, ChainOwn
<1>3. /\ terms' = [terms EXCEPT ![k] = [terms[k] EXCEPT !.pid = m.sid[1], !.sid = m.sid]]
      /\ Becomes(c, Wait(k, m.sid))
  BY <1>1, <1>2 DEF handleSessionFound, TypeOK
<1>4. /\ terms'[k] = [terms[k] EXCEPT !.pid = m.sid[1], !.sid = m.sid]
      /\ \A j \in Keys \ {k} : terms'[j] = terms[j]
      /\ chains'[c] = Wait(k, m.sid) /\ \A b \in Chains \ {c} : chains'[b] = chains[b]
  BY <1>3 DEF TypeOK, Becomes
<1>5. terms'[k].sid = m.sid /\ terms'[k].watcher = terms[k].watcher
  BY <1>2, <1>4, UsedTerminal DEF Terminal
<1>6. PICK x : /\ x = Wait(k, m.sid) /\ x.at = "wait" /\ x.key = k /\ x.sid = m.sid
  BY StageOwn
<1>7. FreshIds'
  BY <1>1, <1>2, <1>3, <1>4, <1>5, <1>6, FreshStep DEF WatchInv, Early
<1>8. ASSUME losses = 0 PROVE KeptAt(k)'
  <2>1. KeptAt(k)
    BY <1>8 DEF WatchInv
  <2>2. \A d \in Chains : Listens(chains[d], k) => Listens(chains[d], k)'
    BY <1>1, <1>2, <1>4, <1>5 DEF Listens
  <2>3. Follows(chains[c], k)'
    BY <1>4, <1>5, <1>6 DEF Follows
  <2>. QED BY <1>2, <1>5, <2>1, <2>2, <2>3 DEF KeptAt
<1>. QED BY <1>1, <1>2, <1>3, <1>4, <1>7, <1>8, WatchStep

LEMMA WatchLost ==
  ASSUME TypeOK, TypeOK', OwnInv, WatchInv, NEW c \in Chains, handleSessionLost(c)
  PROVE  WatchInv'
<1>1. PICK m \in Stage, k \in Keys : m = chains[c] /\ k = m.key /\ ChainOwn(m)
  BY StepOf DEF Step
<1>2. /\ m.at = "lost" /\ k \in Used /\ UNCHANGED losses
      /\ live' = live \ {terms[k].watcher}
  BY <1>1 DEF handleSessionLost, machine, ChainOwn
<1>3. /\ terms' = [terms EXCEPT ![k] = [terms[k] EXCEPT !.state = "ended"]]
      /\ Becomes(c, Idle)
  BY <1>1, <1>2 DEF handleSessionLost, TypeOK
<1>4. /\ terms'[k] = [terms[k] EXCEPT !.state = "ended"]
      /\ \A j \in Keys \ {k} : terms'[j] = terms[j]
  BY <1>3 DEF TypeOK
<1>5. terms'[k].watcher = terms[k].watcher
  BY <1>2, <1>4, UsedTerminal DEF Terminal
<1>6. FreshIds'
  BY <1>2, <1>3, <1>4, <1>5, StageOwn, FreshStep DEF WatchInv, Early
<1>7. KeptAt(k)'
  BY <1>2, <1>5 DEF KeptAt
<1>. QED BY <1>1, <1>2, <1>3, <1>4, <1>6, <1>7, WatchStep

LEMMA WatchReady ==
  ASSUME TypeOK, TypeOK', OwnInv, WatchInv, NEW c \in Chains, handleWatcherReady(c)
  PROVE  WatchInv'
<1>1. PICK m \in Stage, k \in Keys : m = chains[c] /\ k = m.key /\ ChainOwn(m)
  BY StepOf DEF Step
<1>2. /\ m.at = "ready" /\ UNCHANGED losses /\ live' \subseteq live
      /\ m.watcher \in Watchers /\ WatcherOf(m.watcher.id)
  BY <1>1, StageFields, WatcherSome DEF handleWatcherReady, machine
<1>3. CASE /\ k \notin Used \/ terms[k].sid \notin {NoSession, m.watcher.sid}
           /\ Becomes(c, Idle) /\ UNCHANGED terms
  <2>1. FreshIds'
    BY <1>2, <1>3, StageOwn, FreshStep DEF WatchInv, Early
  <2>2. ASSUME losses = 0 PROVE KeptAt(k)'
    <3>1. KeptAt(k)
      BY <2>2 DEF WatchInv
    <3>2. CASE k \notin Used
      <4>1. terms[k].watcher = NoWatcher
        BY <3>2, UsedTerminal DEF None
      <4>. QED BY <1>3, <4>1, NoWatcherNew DEF KeptAt, TypeOK
    <3>3. CASE terms[k].sid # m.watcher.sid
      <4>1. \A d \in Chains : d # c => chains'[d] = chains[d]
        BY <1>3 DEF Becomes, TypeOK
      <4>2. \A d \in Chains : Listens(chains[d], k) => Listens(chains[d], k)'
        BY <1>1, <1>2, <1>3, <4>1 DEF Listens
      <4>3. \A d \in Chains : Follows(chains[d], k) => Follows(chains[d], k)'
        BY <1>1, <1>2, <1>3, <3>3, <4>1 DEF Follows
      <4>. QED BY <1>2, <1>3, <3>1, <4>2, <4>3 DEF KeptAt
    <3>. QED BY <1>3, <3>2, <3>3
  <2>. QED BY <1>1, <1>2, <1>3, <2>1, <2>2, WatchStep
<1>4. ASSUME k \in Used, Becomes(c, Watch(k, m.watcher)),
             NEW s, terms' = [terms EXCEPT ![k].sid = m.watcher.sid,
                                           ![k].watcher = m.watcher, ![k].state = s]
      PROVE  WatchInv'
  <2>1. /\ terms'[k] = [terms[k] EXCEPT !.sid = m.watcher.sid, !.watcher = m.watcher,
                                       !.state = s]
        /\ \A j \in Keys \ {k} : terms'[j] = terms[j]
    BY <1>4 DEF TypeOK
  <2>2. terms'[k].sid = m.watcher.sid /\ terms'[k].watcher = m.watcher
    <3>1. terms[k] \in Terminal
      BY <1>4, UsedTerminal
    <3>. QED BY <2>1, <3>1 DEF Terminal
  <2>3. PICK x : /\ x = Watch(k, m.watcher) /\ x.at = "watch" /\ x.key = k
                 /\ x.watcher = m.watcher
    <3>1. PICK w : w = m.watcher
      OBVIOUS
    <3>2. Watch(k, w).at = "watch" /\ Watch(k, w).key = k /\ Watch(k, w).watcher = w
      BY DEF Watch
    <3>. QED BY <3>1, <3>2
  <2>4. Becomes(c, x) /\ chains'[c] = x
    BY <1>4, <2>3 DEF Becomes, TypeOK
  <2>5. FreshIds'
    <3>1. \A j \in Keys : \/ terms'[j].watcher = terms[j].watcher
                          \/ chains[c].at = "ready" /\ terms'[j].watcher = chains[c].watcher
      BY <1>1, <1>2, <2>1, <2>2
    <3>2. x.at \notin Early /\ WatcherOf(x.watcher.id)
      BY <1>2, <2>3 DEF Early
    <3>. QED BY <1>2, <2>4, <3>1, <3>2, FreshStep DEF WatchInv
  <2>6. Listens(chains[c], k)'
    BY <2>2, <2>3, <2>4 DEF Listens
  <2>7. KeptAt(k)'
    BY <2>2, <2>6 DEF KeptAt
  <2>. QED BY <1>1, <1>2, <2>1, <2>4, <2>5, <2>7, WatchStep
<1>. QED BY <1>1, <1>3, <1>4 DEF handleWatcherReady

LEMMA WatchOnce ==
  ASSUME TypeOK, TypeOK', OwnInv, WatchInv, NEW c \in Chains, watchNext(c) PROVE WatchInv'
<1>1. PICK m \in Stage, k \in Keys : m = chains[c] /\ k = m.key /\ ChainOwn(m)
  BY StepOf DEF Step
<1>2. m.at = "watch" /\ UNCHANGED <<terms, live, losses>>
  BY <1>1 DEF watchNext, machine
<1>3. PICK x : /\ Becomes(c, x)
               /\ \/ x.at = "event" /\ x.key = k
                  \/ x.at = "idle" /\ m.watcher \notin live
  BY <1>1, StageOwn DEF watchNext
<1>4. FreshIds'
  BY <1>2, <1>3, FreshStep DEF WatchInv, Early
<1>5. ASSUME losses = 0 PROVE KeptAt(k)'
  <2>1. KeptAt(k)
    BY <1>5 DEF WatchInv
  <2>2. chains'[c] = x /\ \A d \in Chains : d # c => chains'[d] = chains[d]
    BY <1>3 DEF Becomes, TypeOK
  <2>3. terms[k].watcher \in live =>
          \A d \in Chains : Listens(chains[d], k) => Listens(chains[d], k)'
    BY <1>1, <1>2, <1>3, <2>2 DEF Listens
  <2>4. \A d \in Chains : Follows(chains[d], k) => Follows(chains[d], k)'
    BY <1>1, <1>2, <2>2 DEF Follows
  <2>. QED BY <1>2, <2>1, <2>3, <2>4 DEF KeptAt
<1>. QED BY <1>1, <1>2, <1>3, <1>4, <1>5, WatchStep

LEMMA WatchEvent ==
  ASSUME TypeOK, TypeOK', OwnInv, WatchInv, NEW c \in Chains, handleAgentEvent(c)
  PROVE  WatchInv'
<1>1. PICK m \in Stage, k \in Keys : m = chains[c] /\ k = m.key /\ ChainOwn(m)
  BY StepOf DEF Step
<1>2. m.at = "event" /\ k \in Used /\ UNCHANGED <<live, losses>>
  BY <1>1, OwnFacts DEF handleAgentEvent, ChainOwn
<1>3. /\ terms' = IF m.state # "none"
                  THEN [terms EXCEPT ![k] = [terms[k] EXCEPT !.state = m.state]]
                  ELSE terms
      /\ Becomes(c, IF terms[k].watcher # NoWatcher THEN Watch(k, terms[k].watcher) ELSE Idle)
  BY <1>1, <1>2 DEF handleAgentEvent, TypeOK
<1>4. /\ \A j \in Keys \ {k} : terms'[j] = terms[j]
      /\ terms'[k] = terms[k] \/ terms'[k] = [terms[k] EXCEPT !.state = m.state]
  BY <1>3 DEF TypeOK
<1>5. terms'[k].sid = terms[k].sid /\ terms'[k].watcher = terms[k].watcher
  BY <1>2, <1>4, UsedTerminal DEF Terminal
<1>6. PICK x : /\ Becomes(c, x)
               /\ \/ x.at = "watch" /\ x.key = k /\ x.watcher = terms[k].watcher
                  \/ x.at = "idle" /\ terms[k].watcher = NoWatcher
  <2>1. CASE terms[k].watcher = NoWatcher
    BY <1>3, <2>1, StageOwn
  <2>2. CASE terms[k].watcher # NoWatcher
    <3>1. PICK w : w = terms[k].watcher
      OBVIOUS
    <3>2. Becomes(c, Watch(k, w))
      BY <1>3, <2>2, <3>1
    <3>3. Watch(k, w).at = "watch" /\ Watch(k, w).key = k /\ Watch(k, w).watcher = w
      BY DEF Watch
    <3>. QED BY <3>1, <3>2, <3>3
  <2>. QED BY <2>1, <2>2
<1>7. FreshIds'
  BY <1>2, <1>4, <1>5, <1>6, WatcherSome, FreshStep DEF WatchInv, Early
<1>8. ASSUME losses = 0 PROVE KeptAt(k)'
  <2>1. KeptAt(k)
    BY <1>8 DEF WatchInv
  <2>2. chains'[c] = x /\ \A d \in Chains : d # c => chains'[d] = chains[d]
    BY <1>6 DEF Becomes, TypeOK
  <2>3. CASE x.at = "watch"
    <3>1. Listens(chains[c], k)'
      BY <1>5, <1>6, <2>2, <2>3 DEF Listens
    <3>2. \A d \in Chains : Follows(chains[d], k) => Follows(chains[d], k)'
      BY <1>1, <1>2, <1>5, <2>2 DEF Follows
    <3>. QED BY <1>2, <1>5, <2>1, <3>1, <3>2 DEF KeptAt
  <2>4. CASE x.at = "idle"
    BY <1>5, <1>6, <2>4, NoWatcherNew DEF KeptAt, TypeOK
  <2>. QED BY <1>6, <2>3, <2>4
<1>. QED BY <1>1, <1>2, <1>4, <1>6, <1>7, <1>8, WatchStep

LEMMA WatchChain ==
  ASSUME TypeOK, TypeOK', OwnInv, WatchInv, NEW c \in Chains, Step(c) PROVE WatchInv'
  BY WatchDiscover, WatchFound, WatchLost, WatchWait, WatchReady, WatchOnce, WatchEvent DEF Step

\* A chain that is given work is free: see FreeChains.
LEMMA FreeChain ==
  ASSUME NEW c, (\E n : c \in Lowest(FreeChains, n)) \/ c \in FreeChains
  PROVE  c \in Chains /\ chains[c].at = "idle" /\ ~WatcherOf(c)
  BY StageOwn DEF Lowest, FreeChains, WatcherOf

LEMMA WatchQuiet ==
  ASSUME TypeOK, TypeOK', WatchInv, UNCHANGED <<terms, chains, live>>,
         losses' = losses \/ losses' # 0
  PROVE  WatchInv'
  BY WatchTick

LEMMA WatchLaunch ==
  ASSUME TypeOK, TypeOK', WatchInv, NEW d \in Dirs, handleLaunchResult(d) PROVE WatchInv'
<1>1. PICK k \in Lowest(FreeKeys, 1), c \in Lowest(FreeChains, 1) :
        /\ terms' = [terms EXCEPT ![k] = Pending(d)]
        /\ chains' = [chains EXCEPT ![c] = Discover(k, d, Tracked)]
  BY DEF handleLaunchResult
<1>2. /\ k \in Keys /\ c \in Chains /\ chains[c].at = "idle" /\ ~WatcherOf(c)
      /\ UNCHANGED <<live, losses>>
  BY LowestFree, FreeChain DEF handleLaunchResult
<1>3. terms'[k].watcher = NoWatcher /\ \A j \in Keys \ {k} : terms'[j] = terms[j]
  BY <1>1, <1>2 DEF Pending, TypeOK
<1>4. chains'[c].at = "discover" /\ \A b \in Chains \ {c} : chains'[b] = chains[b]
  BY <1>1, <1>2 DEF Discover, TypeOK
<1>. QED BY <1>2, <1>3, <1>4, WatchTick DEF Early

LEMMA WatchExisting ==
  ASSUME TypeOK, TypeOK', WatchInv, handleExistingSessions PROVE WatchInv'
<1> DEFINE new == {s \in scan : s[1] \notin Tracked /\ cwd[s[1]] \notin PendingDirs}
           n == Cardinality(new)
<1>1. PICK at \in Bijection(Lowest(FreeKeys, n), new) :
        /\ terms' = [k \in Keys |-> IF k \in DOMAIN at
                                   THEN Attached(at[k], cwd[at[k][1]])
                                   ELSE terms[k]]
        /\ \E by \in Bijection(Lowest(FreeChains, n), DOMAIN at) :
             chains' = [c \in Chains |-> IF c \in DOMAIN by
                                        THEN Wait(by[c], at[by[c]])
                                        ELSE chains[c]]
  BY DEF handleExistingSessions
<1>2. PICK by \in Bijection(Lowest(FreeChains, n), DOMAIN at) :
        chains' = [c \in Chains |-> IF c \in DOMAIN by
                                   THEN Wait(by[c], at[by[c]])
                                   ELSE chains[c]]
  BY <1>1
<1>3. UNCHANGED <<live, losses>>
  BY DEF handleExistingSessions
<1>4. ASSUME NEW k \in Keys
      PROVE  terms'[k].watcher = NoWatcher \/ terms'[k] = terms[k]
  BY <1>1 DEF Attached
<1>5. ASSUME NEW c \in Chains
      PROVE  \/ chains'[c] = chains[c]
             \/ /\ chains[c].at = "idle" /\ ~WatcherOf(c)
                /\ chains'[c].at \in Early
  <2>1. CASE c \in DOMAIN by
    <3>1. c \in Lowest(FreeChains, n)
      BY <2>1 DEF Bijection, Injection
    <3>2. chains'[c].at = "wait"
      BY <1>2, <2>1, StageOwn
    <3>. QED BY <3>1, <3>2, FreeChain DEF Early
  <2>2. CASE c \notin DOMAIN by
    BY <1>2, <2>2
  <2>. QED BY <2>1, <2>2
<1>. QED BY <1>3, <1>4, <1>5, WatchTick

LEMMA WatchLiveness ==
  ASSUME TypeOK, TypeOK', WatchInv,
         NEW gone \in SUBSET Expired, checkSessionLiveness(gone)
  PROVE  WatchInv'
<1>1. PICK by \in Bijection(Lowest(FreeChains, Cardinality(Switched)), Switched) :
        chains' = [c \in Chains |-> IF c \in DOMAIN by
                                   THEN Wait(by[c], Session(terms[by[c]].pid))
                                   ELSE chains[c]]
  BY DEF checkSessionLiveness
<1>2. live' \subseteq live /\ UNCHANGED losses
  BY DEF checkSessionLiveness
<1>3. ASSUME NEW k \in Keys
      PROVE  \/ terms'[k].watcher = NoWatcher
             \/ /\ terms'[k].watcher = terms[k].watcher
                /\ terms'[k].sid = terms[k].sid
  <2>1. CASE k \in gone
    BY <2>1 DEF checkSessionLiveness, None
  <2>2. CASE k \notin gone /\ k \in Dead
    <3>1. terms[k] \in Terminal
      BY <2>2, UsedTerminal DEF Dead
    <3>2. terms'[k] = [terms[k] EXCEPT !.state = "ended"]
      BY <2>2 DEF checkSessionLiveness
    <3>. QED BY <3>1, <3>2 DEF Terminal
  <2>3. CASE k \notin gone /\ k \notin Dead /\ k \in Switched
    <3>1. terms[k] \in Terminal
      BY <2>3, UsedTerminal DEF Switched
    <3>2. terms'[k] = [terms[k] EXCEPT !.watcher = NoWatcher, !.state = "unknown",
                                       !.sid = Session(terms[k].pid)]
      BY <2>3 DEF checkSessionLiveness
    <3>. QED BY <3>1, <3>2 DEF Terminal
  <2>4. CASE k \notin gone /\ k \notin Dead /\ k \notin Switched
    BY <2>4 DEF checkSessionLiveness
  <2>. QED BY <2>1, <2>2, <2>3, <2>4
<1>4. ASSUME NEW c \in Chains
      PROVE  \/ chains'[c] = chains[c]
             \/ /\ chains[c].at = "idle" /\ ~WatcherOf(c)
                /\ chains'[c].at \in Early
  <2>1. CASE c \in DOMAIN by
    <3>1. c \in Lowest(FreeChains, Cardinality(Switched))
      BY <2>1 DEF Bijection, Injection
    <3>2. chains'[c].at = "wait"
      BY <1>1, <2>1, StageOwn
    <3>. QED BY <3>1, <3>2, FreeChain DEF Early
  <2>2. CASE c \notin DOMAIN by
    BY <1>1, <2>2
  <2>. QED BY <2>1, <2>2
<1>. QED BY <1>2, <1>3, <1>4, WatchTick

LEMMA WatchSignals ==
  ASSUME TypeOK, TypeOK', WatchInv, ReadSignals \/ MatchSignals PROVE WatchInv'
<1>1. CASE ReadSignals
  BY <1>1, WatchQuiet DEF ReadSignals
<1>2. CASE MatchSignals
  <2> DEFINE of(s) == {k \in Used : terms[k].sid = s}
             matched == {s \in reading : of(s) # {}}
  <2>1. PICK at \in [matched -> Used] :
          terms' = [k \in Keys |-> IF k \in Range(at)
                                   THEN [terms[k] EXCEPT !.state = "permission"]
                                   ELSE terms[k]]
    BY <1>2 DEF MatchSignals
  <2>2. Range(at) \subseteq Used
    BY DEF Range
  <2>3. ASSUME NEW k \in Keys
        PROVE  terms'[k].watcher = terms[k].watcher /\ terms'[k].sid = terms[k].sid
    <3>1. CASE k \notin Range(at)
      BY <2>1, <3>1
    <3>2. CASE k \in Range(at)
      <4>1. terms[k] \in Terminal /\ terms'[k] = [terms[k] EXCEPT !.state = "permission"]
        BY <2>1, <2>2, <3>2, UsedTerminal
      <4>. QED BY <4>1 DEF Terminal
    <3>. QED BY <3>1, <3>2
  <2>. QED BY <1>2, <2>3, WatchTick DEF MatchSignals
<1>. QED BY <1>1, <1>2

LEMMA WatchKills ==
  ASSUME TypeOK, TypeOK', WatchInv,
         (\E k \in Used : showKillTerminalConfirm(k))
         \/ killTerminal \/ handleKillTerminal \/ dropKill
  PROVE  WatchInv'
<1>1. UNCHANGED <<chains, losses>> /\ live' \subseteq live
  BY DEF showKillTerminalConfirm, killTerminal, handleKillTerminal, dropKill, machine
<1>2. CASE UNCHANGED terms
  BY <1>1, <1>2, WatchTick
<1>3. CASE handleKillTerminal /\ kill.key \in Used
  <2>1. PICK k \in Keys : k = kill.key /\ k \in Used
    BY <1>3 DEF Used
  <2>2. /\ terms'[k] = [terms[k] EXCEPT !.state = "ended"]
        /\ \A j \in Keys \ {k} : terms'[j] = terms[j]
    BY <1>3, <2>1 DEF handleKillTerminal, TypeOK
  <2>3. terms'[k].watcher = terms[k].watcher /\ terms'[k].sid = terms[k].sid
    BY <2>1, <2>2, UsedTerminal DEF Terminal
  <2>. QED BY <1>1, <2>2, <2>3, WatchTick
<1>. QED BY <1>2, <1>3
         DEF showKillTerminalConfirm, killTerminal, handleKillTerminal, dropKill, machine

LEMMA WatchLose ==
  ASSUME TypeOK, TypeOK', WatchInv, NEW c \in Chains, Lose(c) PROVE WatchInv'
<1>1. UNCHANGED <<terms, live>> /\ losses' # 0 /\ Becomes(c, Idle)
  BY SessionsAssumption DEF Lose, machine, TypeOK
<1>2. chains'[c].at = "idle" /\ \A b \in Chains \ {c} : chains'[b] = chains[b]
  BY <1>1, StageOwn DEF Becomes, TypeOK
<1>. QED BY <1>1, <1>2, WatchTick

LEMMA NextWatch == TypeOK /\ TypeOK' /\ OwnInv /\ WatchInv /\ [Next]_vars => WatchInv'
<1> SUFFICES ASSUME TypeOK, TypeOK', OwnInv, WatchInv, [Next]_vars PROVE WatchInv'
  OBVIOUS
<1>1. CASE Machine \/ UNCHANGED vars
  <2>1. UNCHANGED <<terms, chains, live, losses>>
    BY <1>1 DEF Machine, Born, Exit, WriteLog, Resume, Prompt, vars
  <2>. QED BY <2>1, WatchQuiet
<1>2. CASE Scan \/ loseScan
  <2>1. UNCHANGED <<terms, chains, live>> /\ (losses' = losses \/ losses' # 0)
    BY <1>2, SessionsAssumption DEF Scan, loseScan, machine, TypeOK
  <2>. QED BY <2>1, WatchQuiet
<1>3. CASE handleExistingSessions \/ ReadSignals \/ MatchSignals
  BY <1>3, WatchExisting, WatchSignals
<1>4. ASSUME NEW d \in Dirs, handleLaunchResult(d) PROVE WatchInv'
  BY <1>4, WatchLaunch
<1>5. ASSUME NEW c \in Chains, Step(c) \/ Lose(c) PROVE WatchInv'
  BY <1>5, WatchChain, WatchLose
<1>6. ASSUME NEW gone \in SUBSET Expired, checkSessionLiveness(gone) PROVE WatchInv'
  BY <1>6, WatchLiveness
<1>7. CASE (\E k \in Used : showKillTerminalConfirm(k))
           \/ killTerminal \/ handleKillTerminal \/ dropKill
  BY <1>7, WatchKills
<1>. QED BY <1>1, <1>2, <1>3, <1>4, <1>5, <1>6, <1>7 DEF Next

\* As long as no command fails and no message is swallowed, an entry's watcher has
\* a goroutine that goes on listening to it, and one that has left the entry's
\* session behind is about to be replaced: handleWatcherReady, handleAgentEvent and
\* checkSessionLiveness never leave a session unwatched, in whichever order they run.
THEOREM WatchKept == Spec => []WatchIsKept
<1>1. WatchInv => WatchIsKept
  <2> SUFFICES ASSUME WatchInv PROVE WatchIsKept
    OBVIOUS
  <2>1. WatchContinues
    <3> SUFFICES ASSUME losses = 0, NEW k \in Used, terms[k].watcher \in live
                 PROVE  \/ At(k, {"event"}) # {}
                        \/ \E c \in At(k, {"watch"}) : chains[c].watcher = terms[k].watcher
      BY DEF WatchContinues
    <3>1. PICK c \in Chains : Listens(chains[c], k)
      BY DEF WatchInv, KeptAt, Used
    <3>. QED BY <3>1 DEF Listens, At
  <2>2. WatchesOwnSession
    <3> SUFFICES ASSUME losses = 0, NEW k \in Used, terms[k].watcher \in live,
                        terms[k].watcher.sid # terms[k].sid
                 PROVE  At(k, {"found", "wait", "ready", "lost"}) # {}
      BY DEF WatchesOwnSession
    <3>1. PICK c \in Chains : Follows(chains[c], k)
      BY DEF WatchInv, KeptAt, Used
    <3>. QED BY <3>1 DEF Follows, At
  <2>. QED BY <2>1, <2>2 DEF WatchIsKept
<1>. QED BY <1>1, InitType, NextType, InitOwn, NextOwn, InitWatch, NextWatch, PTL DEF Spec

=============================================================================
