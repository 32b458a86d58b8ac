------------------------------ MODULE Sessions ------------------------------
(***************************************************************************)
(* Session tracking: internal/tui/session.go, the launch, event and kill   *)
(* handlers of model.go, internal/watcher.                                 *)
(*                                                                         *)
(* Work on a session is a chain: a command runs in a goroutine and posts   *)
(* one message, the handler of the message returns the next command.       *)
(*     discover -> found -> wait -> ready -> watch -> event -> watch ...   *)
(* A chain carries the tracking key it was started for, never the entry:   *)
(* a handler acts upon whatever is under that key when it runs.            *)
(*                                                                         *)
(* The notifier and the texts shown are left out, so Working, Streaming    *)
(* and Waiting are one state, and so is the desktop agent, whose key is    *)
(* never nextTrackingKey's.                                                *)
(***************************************************************************)
EXTENDS Integers, FiniteSets, Functions

CONSTANTS
    Dirs,         \* work directories: the project's and its worktrees
    MaxProcs,     \* processes started during a behaviour, in this order
    MaxSessions,  \* sessions one process is switched through by /resume
    Resuming,     \* the processes in which /resume is used
    MaxKeys,      \* tracking keys of the project: "zpit", "zpit#2", ...
    MaxChains,    \* chains going on at once
    MaxLaunches,  \* terminals launched
    MaxLosses,    \* commands that fail, messages that an overlay swallows
    Prompting     \* the processes that ask for permissions

ASSUME SessionsAssumption ==
    /\ {MaxProcs, MaxKeys, MaxChains, MaxLaunches, MaxLosses} \subseteq Nat
    /\ MaxSessions \in Nat \ {0}
    /\ Resuming \cup Prompting \subseteq 1 .. MaxProcs

VARIABLES
    terms,     \* AppState.activeTerminals
    chains,    \* the commands that run and the messages not yet handled
    live,      \* the watchers not stopped
    scan,      \* entries of the session scan not yet handled
    kill,      \* the kill dialog, command or message
    reading,   \* the signals a permission check has read and not matched yet
    born,      \* the machine: processes 1..born have been started,
    alive,     \*   those still running,
    cwd,       \*   their directories,
    current,   \*   the session each is in, as its {pid}.json says,
    logs,      \*   the sessions whose JSONL log exists,
    signals,   \*   the permission signal files
    launches,  \* counts of launches
    losses     \*   and losses, for the bounds
vars == <<terms, chains, live, scan, kill, reading, born, alive, cwd, current,
          logs, signals, launches, losses>>
machine == <<born, alive, cwd, current, logs, signals>>

Procs == 1 .. MaxProcs
Keys == 1 .. MaxKeys
Chains == 1 .. MaxChains
\* <<p, n>>: the n-th session of process p.
SessionIDs == Procs \X (1 .. MaxSessions)
NoSession == <<0, 0>>
States == {"unknown", "active", "permission", "ended"}

\* A watcher is known by the chain that made it, and tails one session's log.
Watchers == [id : Chains, sid : SessionIDs]
NoWatcher == [id |-> 0, sid |-> NoSession]

\* type ActiveTerminal; PID 0 is a launch whose process is still sought.
Terminal == [pid : {0} \cup Procs, sid : {NoSession} \cup SessionIDs, dir : Dirs,
             state : States, watcher : {NoWatcher} \cup Watchers]
None == [pid |-> 0, sid |-> NoSession, state |-> "none", watcher |-> NoWatcher]
Pending(d) == [pid |-> 0, sid |-> NoSession, dir |-> d,
               state |-> "unknown", watcher |-> NoWatcher]
Attached(s, d) == [pid |-> s[1], sid |-> s, dir |-> d,
                   state |-> "unknown", watcher |-> NoWatcher]

\* The stages of a chain: commands, and the messages they end with.
Idle == [at |-> "idle"]
Discover(k, d, tracked) == [at |-> "discover", key |-> k, dir |-> d, exclude |-> tracked]
Found(k, s) == [at |-> "found", key |-> k, sid |-> s]
Wait(k, s) == [at |-> "wait", key |-> k, sid |-> s]
Ready(k, w) == [at |-> "ready", key |-> k, watcher |-> w]
Lost(k) == [at |-> "lost", key |-> k]
Watch(k, w) == [at |-> "watch", key |-> k, watcher |-> w]
Event(k, e) == [at |-> "event", key |-> k, state |-> e]
Events == {"none", "unknown", "active"}
Stage == {Idle}
    \cup [at : {"discover"}, key : Keys, dir : Dirs, exclude : SUBSET Procs]
    \cup [at : {"found", "wait"}, key : Keys, sid : SessionIDs]
    \cup [at : {"ready", "watch"}, key : Keys, watcher : Watchers]
    \cup [at : {"lost"}, key : Keys]
    \cup [at : {"event"}, key : Keys, state : Events]

NoKill == [at |-> "none"]
Kill == {NoKill} \cup [at : {"asked", "done"}, key : Keys, pid : Procs]

-----------------------------------------------------------------------------
Used == {k \in Keys : terms[k] # None}
Tracked == {terms[k].pid : k \in Used} \ {0}
PendingDirs == {terms[k].dir : k \in {k \in Used : terms[k].pid = 0}}
Session(p) == <<p, current[p]>>
RunsIn(d) == {p \in alive : cwd[p] = d}

\* The n lowest ids of T: nextTrackingKey counts up from the first key.
Lowest(T, n) == {t \in T : Cardinality({u \in T : u < t}) < n}
FreeKeys == Keys \ Used
FreeChains ==
    {c \in Chains :
        /\ chains[c] = Idle
        /\ \A w \in live : w.id # c
        /\ \A k \in Keys : terms[k].watcher.id # c
        /\ \A d \in Chains : chains[d].at \in {"ready", "watch"} => chains[d].watcher.id # c}

Init ==
    /\ terms = [k \in Keys |-> None]
    /\ chains = [c \in Chains |-> Idle]
    /\ live = {} /\ scan = {} /\ kill = NoKill /\ reading = {}
    /\ born = 0 /\ alive = {}
    /\ cwd \in [Procs -> Dirs]
    /\ current = [p \in Procs |-> 1]
    /\ logs = {} /\ signals = {}
    /\ launches = 0 /\ losses = 0

-----------------------------------------------------------------------------
(* The machine: Claude Code processes, however they were started. *)

Born ==
    /\ born < MaxProcs
    /\ born' = born + 1
    /\ alive' = alive \cup {born + 1}
    /\ UNCHANGED <<terms, chains, live, scan, kill, reading, cwd, current, logs,
                   signals, launches, losses>>

\* The {pid}.json and the log of a dead process are not looked at: they are reset.
Dies(p) ==
    /\ alive' = alive \ {p}
    /\ current' = [current EXCEPT ![p] = 1]
    /\ logs' = logs \ {s \in logs : s[1] = p}

Exit(p) ==
    /\ Dies(p)
    /\ UNCHANGED <<terms, chains, live, scan, kill, reading, born, cwd, signals,
                   launches, losses>>

\* The first record creates the log of the session.
WriteLog(p) ==
    /\ Session(p) \notin logs
    /\ logs' = logs \cup {Session(p)}
    /\ UNCHANGED <<terms, chains, live, scan, kill, reading, born, alive, cwd,
                   current, signals, launches, losses>>

\* /resume: to a session with a log, or with /clear to one without.
Resume(p) ==
    /\ p \in Resuming /\ current[p] < MaxSessions
    /\ current' = [current EXCEPT ![p] = @ + 1]
    /\ logs' \in {logs, logs \cup {<<p, current[p] + 1>>}}
    /\ UNCHANGED <<terms, chains, live, scan, kill, reading, born, alive, cwd,
                   signals, launches, losses>>

\* hooks/notify-permission.sh writes a signal.
Prompt(p) ==
    /\ p \in Prompting
    /\ Session(p) \notin signals
    /\ signals' = signals \cup {Session(p)}
    /\ UNCHANGED <<terms, chains, live, scan, kill, reading, born, alive, cwd,
                   current, logs, launches, losses>>

Machine == Born \/ \E p \in alive : Exit(p) \/ WriteLog(p) \/ Resume(p) \/ Prompt(p)

-----------------------------------------------------------------------------
(* Launch and discovery. *)

\* A terminal was launched in d: an entry without PID and a discovery that
\* leaves out the PIDs tracked now.
handleLaunchResult(d) ==
    /\ launches < MaxLaunches
    /\ launches' = launches + 1
    /\ \E k \in Lowest(FreeKeys, 1), c \in Lowest(FreeChains, 1) :
        /\ terms' = [terms EXCEPT ![k] = Pending(d)]
        /\ chains' = [chains EXCEPT ![c] = Discover(k, d, Tracked)]
    /\ UNCHANGED <<live, scan, kill, reading, machine, losses>>

\* What a command or a handler leaves of its chain.
Becomes(c, stage) == chains' = [chains EXCEPT ![c] = stage]

\* Bug for comparison: the search ends without a word when its time is over.
discoverSilent(c) ==
    LET m == chains[c]
        candidates == RunsIn(m.dir) \ m.exclude
    IN  /\ m.at = "discover"
        /\ IF candidates = {} THEN Becomes(c, Idle)
           ELSE \E p \in candidates : /\ \A q \in candidates : q <= p
                                      /\ Becomes(c, Found(m.key, Session(p)))
        /\ UNCHANGED <<terms, live, scan, kill, reading, machine, launches, losses>>

\* startWatcherDirCmd: the latest process of the directory, or none in time.
discover(c) ==
    LET m == chains[c]
        candidates == RunsIn(m.dir) \ m.exclude
    IN  /\ m.at = "discover"
        /\ \/ \E p \in candidates :
                /\ \A q \in candidates : q <= p
                /\ Becomes(c, Found(m.key, Session(p)))
           \/ candidates = {} /\ Becomes(c, Lost(m.key))
        /\ UNCHANGED <<terms, live, scan, kill, reading, machine, launches, losses>>

\* The entry under the key takes PID and session, its watcher stays.
handleSessionFound(c) ==
    LET m == chains[c]
    IN  /\ m.at = "found"
        /\ IF m.key \in Used
           THEN /\ terms' = [terms EXCEPT ![m.key].pid = m.sid[1], ![m.key].sid = m.sid]
                /\ Becomes(c, Wait(m.key, m.sid))
           ELSE UNCHANGED terms /\ Becomes(c, Idle)
        /\ UNCHANGED <<live, scan, kill, reading, machine, launches, losses>>

handleSessionLost(c) ==
    LET m == chains[c]
    IN  /\ m.at = "lost"
        /\ IF m.key \in Used
           THEN /\ terms' = [terms EXCEPT ![m.key].state = "ended"]
                /\ live' = live \ {terms[m.key].watcher}
           ELSE UNCHANGED <<terms, live>>
        /\ Becomes(c, Idle)
        /\ UNCHANGED <<scan, kill, reading, machine, launches, losses>>

-----------------------------------------------------------------------------
(* The log and its watcher. *)

\* Bug for comparison: the wait looks for the log once.
waitForLogOnce(c) ==
    LET m == chains[c]
        p == m.sid[1]
        w == [id |-> c, sid |-> m.sid]
    IN  /\ m.at = "wait"
        /\ IF p \notin alive THEN Becomes(c, Lost(m.key)) /\ UNCHANGED live
           ELSE IF Session(p) # m.sid
           THEN Becomes(c, Found(m.key, Session(p))) /\ UNCHANGED live
           ELSE IF m.sid \in logs THEN Becomes(c, Ready(m.key, w)) /\ live' = live \cup {w}
           ELSE Becomes(c, Idle) /\ UNCHANGED live
        /\ UNCHANGED <<terms, scan, kill, reading, machine, launches, losses>>

\* One round of waitForLogCmd that ends it: the process is dead, it is in
\* another session, or the log is there.
waitForLog(c) ==
    LET m == chains[c]
        p == m.sid[1]
        w == [id |-> c, sid |-> m.sid]
    IN  /\ m.at = "wait"
        /\ \/ p \notin alive /\ Becomes(c, Lost(m.key)) /\ UNCHANGED live
           \/ /\ p \in alive /\ Session(p) # m.sid
              /\ Becomes(c, Found(m.key, Session(p))) /\ UNCHANGED live
           \/ /\ p \in alive /\ Session(p) = m.sid /\ m.sid \in logs
              /\ Becomes(c, Ready(m.key, w)) /\ live' = live \cup {w}
        /\ UNCHANGED <<terms, scan, kill, reading, machine, launches, losses>>

\* A watcher for a session the entry has left is stopped; any other replaces
\* the entry's watcher, and an unknown state is read from the log.
handleWatcherReady(c) ==
    LET m == chains[c]
        e == terms[m.key]
        stale == m.key \notin Used \/ e.sid \notin {NoSession, m.watcher.sid}
    IN  /\ m.at = "ready"
        /\ \/ /\ stale
              /\ live' = live \ {m.watcher}
              /\ Becomes(c, Idle)
              /\ UNCHANGED terms
           \/ /\ ~stale
              /\ \E s \in IF e.state = "unknown" THEN {"unknown", "active"} ELSE {e.state} :
                    terms' = [terms EXCEPT ![m.key].sid = m.watcher.sid,
                                           ![m.key].watcher = m.watcher,
                                           ![m.key].state = s]
              /\ Becomes(c, Watch(m.key, m.watcher))
              /\ UNCHANGED live
        /\ UNCHANGED <<scan, kill, reading, machine, launches, losses>>

\* WatchOnce: new records of a session that its process is still writing, or
\* nil when the watcher has been stopped.
watchNext(c) ==
    LET m == chains[c]
        p == m.watcher.sid[1]
    IN  /\ m.at = "watch"
        /\ \/ /\ m.watcher \in live /\ p \in alive /\ Session(p) = m.watcher.sid
              /\ \E e \in Events : Becomes(c, Event(m.key, e))
           \/ m.watcher \notin live /\ Becomes(c, Idle)
        /\ UNCHANGED <<terms, live, scan, kill, reading, machine, launches, losses>>

\* Bugs for comparison: the state is taken without a record, ...
handleAgentEventUnchecked(c) ==
    LET m == chains[c]
        e == terms[m.key]
    IN  /\ m.at = "event"
        /\ IF m.key \in Used
           THEN terms' = [terms EXCEPT ![m.key].state = m.state]
           ELSE UNCHANGED terms
        /\ signals' = IF e.state = "permission" THEN signals \ {e.sid} ELSE signals
        /\ Becomes(c, IF e.watcher # NoWatcher THEN Watch(m.key, e.watcher) ELSE Idle)
        /\ UNCHANGED <<live, scan, kill, reading, born, alive, cwd, current, logs,
                       launches, losses>>

\* ... or its absence returns before the watch is taken up again.
handleAgentEventEarly(c) ==
    LET m == chains[c]
        e == terms[m.key]
        some == m.key \in Used /\ m.state # "none"
    IN  /\ m.at = "event"
        /\ terms' = IF some THEN [terms EXCEPT ![m.key].state = m.state] ELSE terms
        /\ signals' = IF some /\ e.state = "permission" THEN signals \ {e.sid} ELSE signals
        /\ Becomes(c, IF some /\ e.watcher # NoWatcher THEN Watch(m.key, e.watcher) ELSE Idle)
        /\ UNCHANGED <<live, scan, kill, reading, born, alive, cwd, current, logs,
                       launches, losses>>

\* The entry takes the state of the last assistant record ("none": there was
\* none), an answered prompt's signal is removed, and the watch goes on with
\* the watcher the entry has now.
handleAgentEvent(c) ==
    LET m == chains[c]
        e == terms[m.key]
        answered == m.state # "none" /\ e.state = "permission"
    IN  /\ m.at = "event"
        /\ IF m.key \in Used /\ m.state # "none"
           THEN terms' = [terms EXCEPT ![m.key].state = m.state]
           ELSE UNCHANGED terms
        /\ signals' = IF answered THEN signals \ {e.sid} ELSE signals
        /\ Becomes(c, IF e.watcher # NoWatcher THEN Watch(m.key, e.watcher) ELSE Idle)
        /\ UNCHANGED <<live, scan, kill, reading, born, alive, cwd, current, logs,
                       launches, losses>>

\* A command fails (WatcherErrorMsg ends its chain), its SSH client quits, or
\* an error overlay or a confirm dialog swallows its message.
Lose(c) ==
    /\ chains[c] # Idle
    /\ losses < MaxLosses
    /\ losses' = losses + 1
    /\ Becomes(c, Idle)
    /\ UNCHANGED <<terms, live, scan, kill, reading, machine, launches>>

Step(c) ==
    \/ discover(c) \/ handleSessionFound(c) \/ handleSessionLost(c)
    \/ waitForLog(c) \/ handleWatcherReady(c)
    \/ watchNext(c) \/ handleAgentEvent(c)

-----------------------------------------------------------------------------
(* The session scan, at the start and every ten seconds. *)

Scan ==
    /\ scan = {}
    /\ scan' = {Session(p) : p \in alive \ Tracked}
    /\ UNCHANGED <<terms, chains, live, kill, reading, machine, launches, losses>>

\* Bug for comparison: what was tracked since the scan is attached again.
handleExistingUnfiltered ==
    /\ scan # {}
    /\ scan' = {}
    /\ \E at \in Bijection(Lowest(FreeKeys, Cardinality(scan)), scan) :
        /\ terms' = [k \in Keys |-> IF k \in DOMAIN at
                                    THEN Attached(at[k], cwd[at[k][1]])
                                    ELSE terms[k]]
        /\ \E by \in Bijection(Lowest(FreeChains, Cardinality(scan)), DOMAIN at) :
            chains' = [c \in Chains |-> IF c \in DOMAIN by
                                        THEN Wait(by[c], at[by[c]])
                                        ELSE chains[c]]
    /\ UNCHANGED <<live, kill, reading, machine, launches, losses>>

\* Attaches what is neither tracked by now nor in a directory that a launch is
\* searching; each with a key and a wait for its log.
handleExistingSessions ==
    LET new == {s \in scan : s[1] \notin Tracked /\ cwd[s[1]] \notin PendingDirs}
    IN  /\ scan # {}
        /\ scan' = {}
        /\ \E at \in Bijection(Lowest(FreeKeys, Cardinality(new)), new) :
            /\ terms' = [k \in Keys |-> IF k \in DOMAIN at
                                        THEN Attached(at[k], cwd[at[k][1]])
                                        ELSE terms[k]]
            /\ \E by \in Bijection(Lowest(FreeChains, Cardinality(new)), DOMAIN at) :
                chains' = [c \in Chains |-> IF c \in DOMAIN by
                                            THEN Wait(by[c], at[by[c]])
                                            ELSE chains[c]]
        /\ UNCHANGED <<live, kill, reading, machine, launches, losses>>

\* An overlay, a dialog or a quitting client swallows the message of the scan.
loseScan ==
    /\ scan # {}
    /\ losses < MaxLosses
    /\ losses' = losses + 1
    /\ scan' = {}
    /\ UNCHANGED <<terms, chains, live, kill, reading, machine, launches>>

-----------------------------------------------------------------------------
(* The liveness check, every five seconds. *)

EndedKeys == {k \in Used : terms[k].state = "ended"}

\* Bugs for comparison: an entry without PID counts as dead, one without
\* watcher does not.
DeadOrPending == {k \in Used \ EndedKeys : terms[k].pid \notin alive}
DeadWatched ==
    {k \in Used \ EndedKeys : /\ terms[k].pid # 0 /\ terms[k].pid \notin alive
                              /\ terms[k].watcher \in live}

Dead == {k \in Used \ EndedKeys : terms[k].pid # 0 /\ terms[k].pid \notin alive}
Switched ==
    {k \in Used \ EndedKeys :
        LET e == terms[k]
        IN  e.pid \in alive /\ e.sid # NoSession /\ e.sid # Session(e.pid)}

\* Nothing started for k under an entry that has ended is still to be handled:
\* an ended entry is shown for three seconds, a wait looks every two whether
\* its process is alive, and messages are handled at once.
Settled(k) ==
    /\ \A c \in Chains : chains[c] # Idle /\ chains[c].key = k =>
        /\ chains[c].at \notin {"found", "lost", "ready", "event"}
        /\ chains[c].at = "wait" => chains[c].sid[1] \in alive
    /\ kill.at = "done" => kill.key # k
Expired == {k \in EndedKeys : Settled(k)}

\* Bug for comparison: the new session is noted, its log is not looked for.
checkSessionLivenessNotes(gone) ==
    /\ terms' = [k \in Keys |->
            IF k \in gone THEN None
            ELSE IF k \in Dead THEN [terms[k] EXCEPT !.state = "ended"]
            ELSE IF k \in Switched THEN [terms[k] EXCEPT !.sid = Session(terms[k].pid)]
            ELSE terms[k]]
    /\ live' = live \ {terms[k].watcher : k \in Dead}
    /\ signals' = signals \ {terms[k].sid : k \in Dead}
    /\ UNCHANGED <<chains, scan, kill, reading, born, alive, cwd, current, logs,
                   launches, losses>>

\* Removes entries that ended at least three seconds ago, ends those whose
\* process is dead, and follows those that /resume has switched.
checkSessionLiveness(gone) ==
    /\ \E by \in Bijection(Lowest(FreeChains, Cardinality(Switched)), Switched) :
        chains' = [c \in Chains |-> IF c \in DOMAIN by
                                    THEN Wait(by[c], Session(terms[by[c]].pid))
                                    ELSE chains[c]]
    /\ terms' = [k \in Keys |->
            IF k \in gone THEN None
            ELSE IF k \in Dead THEN [terms[k] EXCEPT !.state = "ended"]
            ELSE IF k \in Switched
                 THEN [terms[k] EXCEPT !.watcher = NoWatcher, !.state = "unknown",
                                       !.sid = Session(terms[k].pid)]
            ELSE terms[k]]
    /\ live' = live \ {terms[k].watcher : k \in Dead \cup Switched}
    /\ signals' = signals \ {terms[k].sid : k \in Dead}
    /\ UNCHANGED <<scan, kill, reading, born, alive, cwd, current, logs, launches,
                   losses>>

-----------------------------------------------------------------------------
(* The permission check, every two seconds, in two halves: the signal files *)
(* are read without the lock.                                               *)

ReadSignals ==
    /\ reading = {}
    /\ reading' = signals
    /\ UNCHANGED <<terms, chains, live, scan, kill, machine, launches, losses>>

\* A signal shows at one entry of its session; without one its file is removed.
MatchSignals ==
    LET of(s) == {k \in Used : terms[k].sid = s}
        matched == {s \in reading : of(s) # {}}
    IN  /\ reading # {}
        /\ reading' = {}
        /\ \E at \in [matched -> Used] :
            /\ \A s \in matched : at[s] \in of(s)
            /\ terms' = [k \in Keys |-> IF k \in Range(at)
                                        THEN [terms[k] EXCEPT !.state = "permission"]
                                        ELSE terms[k]]
        /\ signals' = signals \ (reading \ matched)
        /\ UNCHANGED <<chains, live, scan, kill, born, alive, cwd, current, logs,
                       launches, losses>>

-----------------------------------------------------------------------------
(* The kill key: a dialog, the command, its message. *)

showKillTerminalConfirm(k) ==
    /\ kill = NoKill
    /\ terms[k].pid # 0 /\ terms[k].state # "ended"
    /\ kill' = [at |-> "asked", key |-> k, pid |-> terms[k].pid]
    /\ UNCHANGED <<terms, chains, live, scan, reading, machine, launches, losses>>

\* The process shown in the dialog, which is taken to die at once; an error when
\* it is gone.
killTerminal ==
    /\ kill.at = "asked"
    /\ kill' = IF kill.pid \in alive THEN [kill EXCEPT !.at = "done"] ELSE NoKill
    /\ Dies(kill.pid)
    /\ UNCHANGED <<terms, chains, live, scan, reading, born, cwd, signals, launches,
                   losses>>

handleKillTerminal ==
    /\ kill.at = "done"
    /\ kill' = NoKill
    /\ IF kill.key \in Used
       THEN /\ terms' = [terms EXCEPT ![kill.key].state = "ended"]
            /\ live' = live \ {terms[kill.key].watcher}
       ELSE UNCHANGED <<terms, live>>
    /\ UNCHANGED <<chains, scan, reading, machine, launches, losses>>

\* The dialog is cancelled, or another one swallows the message.
dropKill ==
    /\ kill # NoKill
    /\ kill' = NoKill
    /\ UNCHANGED <<terms, chains, live, scan, reading, machine, launches, losses>>

-----------------------------------------------------------------------------
Next ==
    \/ Machine
    \/ \E d \in Dirs : handleLaunchResult(d)
    \/ \E c \in Chains : Step(c) \/ Lose(c)
    \/ Scan \/ handleExistingSessions \/ loseScan
    \/ \E gone \in SUBSET Expired : checkSessionLiveness(gone)
    \/ ReadSignals \/ MatchSignals
    \/ \E k \in Used : showKillTerminalConfirm(k)
    \/ killTerminal \/ handleKillTerminal \/ dropKill

\* Commands return, messages are handled, and the ticks of some client go on;
\* two liveness checks are further apart than an ended entry is shown.
Fairness ==
    /\ \A c \in Chains : WF_vars(Step(c))
    /\ WF_vars(Scan) /\ WF_vars(handleExistingSessions)
    /\ WF_vars(checkSessionLiveness(Expired)) /\ WF_vars(handleKillTerminal)

Spec == Init /\ [][Next]_vars
FairSpec == Spec /\ Fairness

-----------------------------------------------------------------------------
TypeOK ==
    /\ terms \in [Keys -> {None} \cup Terminal]
    /\ chains \in [Chains -> Stage]
    /\ live \subseteq Watchers
    /\ scan \subseteq SessionIDs
    /\ kill \in Kill
    /\ reading \subseteq SessionIDs
    /\ born \in 0 .. MaxProcs
    /\ alive \subseteq 1 .. born
    /\ cwd \in [Procs -> Dirs]
    /\ current \in [Procs -> 1 .. MaxSessions]
    /\ logs \subseteq SessionIDs
    /\ signals \subseteq SessionIDs
    /\ launches \in 0 .. MaxLaunches
    /\ losses \in 0 .. MaxLosses

\* Chains of key k at one of the stages S.
At(k, S) == {c \in Chains : chains[c].at \in S /\ chains[c].key = k}

\* As long as no command failed and no message was swallowed, an entry whose
\* watcher has not been stopped has a goroutine in WatchOnce on that watcher,
\* or an event whose handler starts one: handleWatcherReady and
\* handleAgentEvent never leave a watcher nobody listens to.
WatchContinues ==
    losses = 0 => \A k \in Used : terms[k].watcher \in live =>
        \/ At(k, {"event"}) # {}
        \/ \E c \in At(k, {"watch"}) : chains[c].watcher = terms[k].watcher

\* Without losses an entry without PID is being searched for or has ended: no
\* launch blocks the session scan of its directory for ever.
PendingIsSought ==
    losses = 0 => \A k \in Used : terms[k].pid = 0 /\ terms[k].state # "ended" =>
        At(k, {"discover", "found", "lost"}) # {}

\* Without losses a watcher not stopped tails the session of its entry, or one
\* for the session is on its way: /resume never leaves an entry with the log of
\* the session it has left.
WatchesOwnSession ==
    losses = 0 => \A k \in Used : terms[k].watcher \in live =>
        \/ terms[k].watcher.sid = terms[k].sid
        \/ At(k, {"found", "wait", "ready", "lost"}) # {}

\* An entry goes on being watched, and in its own session.
WatchIsKept == WatchContinues /\ WatchesOwnSession

\* With one launch, no PID is tracked under two keys: the scan and the discovery
\* of the launch leave each other's finds alone.
TrackedOnce ==
    launches < 2 =>
        \A j, k \in Used : terms[j].pid = terms[k].pid /\ terms[j].pid # 0 => j = k

\* A process has one entry, and an entry a process or a search for it.
EntriesAreSought == TrackedOnce /\ PendingIsSought

\* No running process is shown as ended, and so none loses its entry: what a
\* chain or a kill reports of an earlier user of a key never meets a later one.
EndedIsDead ==
    \A k \in Used : terms[k].state = "ended" => terms[k].pid \notin alive

\* A permission signal of a running session is removed only once the terminals
\* list shows the session as waiting for the permission.
SignalIsShown ==
    [][\A s \in signals \ signals' :
        s[1] \in alive /\ Session(s[1]) = s
            => \E k \in Used : terms[k].sid = s /\ terms[k].state = "permission"]_vars

Watched(p) ==
    \E k \in Used : terms[k].pid = p /\ terms[k].watcher \in live
                    /\ terms[k].watcher.sid = Session(p)

\* Without losses every running session that has a log is watched in the end,
\* whether zpit launched it, found it running, or /resume switched to it.
SessionIsWatched ==
    \A p \in Procs :
        (p \in alive /\ Session(p) \in logs)
            ~> (Watched(p) \/ p \notin alive \/ Session(p) \notin logs \/ losses > 0)

\* The entry of a dead process is removed or given to another process.
DeadIsRemoved ==
    \A k \in Keys, p \in Procs :
        (terms[k].pid = p /\ p \notin alive) ~> (terms[k].pid # p)
=============================================================================
