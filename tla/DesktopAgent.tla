---------------------------- MODULE DesktopAgent ----------------------------
(***************************************************************************)
(* The one desktop agent: [w], its launch, the search for its process, the *)
(* liveness check and the lock that is to keep a second one from starting  *)
(* (internal/tui/launch.go and session.go).  Launch n opens a terminal in  *)
(* which process n comes up; process ids above MaxLaunches are the user's  *)
(* own, started in the home directory too.  The rest of session tracking   *)
(* is module Sessions, which leaves this agent out.                        *)
(***************************************************************************)
EXTENDS Naturals, FiniteSets, Functions

CONSTANTS
    Mishaps,        \* what may go otherwise than the code expects, of which a run has some
    MaxLaunches,    \* bound: presses of [w] that are not blocked
    MaxForeign,     \* bound: the user's own processes in the home directory
    MaxScans,       \* bound: session scans on their way
    MaxRestarts     \* bound: restarts of the program

DesktopAgentAssumption ==
    /\ Mishaps \subseteq {"hasty", "slow", "late", "dropped", "unreadable", "foreign", "restart"}
    /\ {MaxForeign, MaxScans, MaxRestarts} \subseteq Nat /\ MaxLaunches \in Nat \ {0}
ASSUME DesktopAgentConstants == DesktopAgentAssumption

Launches == 1..MaxLaunches
Procs == 1..(MaxLaunches + MaxForeign)

VARIABLES
    entries,    \* activeTerminals under "desktop:" keys; key <<n, k>>: the k-th of launch n
    active,     \* activeDesktopAgent: the launch whose entry it points to, or 0
    opening,    \* terminals in which the process has not come up yet
    alive,      \* processes in the home directory
    born,       \* history: processes that came up
    chains,     \* commands and messages
    pressed,    \* history: launches
    restarts,
    mishaps     \* of Mishaps, what does happen
desktopVars == <<entries, active, opening, alive, born, chains, pressed, restarts, mishaps>>

\* own: is it the object the launch put there?
Entry(n, k, own, p) == [key |-> <<n, k>>, own |-> own, pid |-> p, state |-> "unknown"]
At(n, k) == {e \in entries : e.key = <<n, k>>}
Tracked == {e.pid : e \in entries} \ {0}

AgentInit ==
    /\ entries = {} /\ active = 0 /\ opening = {} /\ alive = {} /\ born = {}
    /\ chains = {} /\ pressed = 0 /\ restarts = 0
    /\ mishaps \in SUBSET Mishaps

-----------------------------------------------------------------------------
(* [w] *)

\* The object of the active agent; it may have left entries, and then is ended.
ActiveEntries == {e \in entries : e.own /\ e.key[1] = active}

\* Bug for comparison: a launch whose process is not found yet counts as stale.
StaleUnlessAlive == \A e \in ActiveEntries : e.pid = 0 \/ e.pid \notin alive
\* evaluateDesktopLaunchGuards
Unblocked == \A e \in ActiveEntries : e.pid # 0 /\ e.pid \notin alive

Busy(kinds) == \E c \in chains : c.at \in kinds
\* A client may press again, or another client, before the first launch is answered;
\* or while a search is still on its way that outlived what it was to find.
Press ==
    /\ pressed < MaxLaunches /\ Unblocked
    /\ "hasty" \in mishaps \/ ~Busy({"launch", "launched"})
    /\ \/ "slow" \in mishaps \/ ~Busy({"discover", "found", "scan", "scanned"})
       \/ \E e \in ActiveEntries : e.pid = 0
    /\ pressed' = pressed + 1
    /\ chains' = chains \cup {[at |-> "launch", n |-> pressed + 1]}
    /\ UNCHANGED <<entries, active, opening, alive, born, restarts>>

Step(c, next) == chains' = (chains \ {c}) \cup next

\* launchDesktopAgentCmd: any of its files may fail to be written.
LaunchClaude(c) ==
    /\ c.at = "launch"
    /\ \/ opening' = opening \cup {c.n} /\ Step(c, {[at |-> "launched", n |-> c.n]})
       \/ UNCHANGED opening /\ Step(c, {})
    /\ UNCHANGED <<entries, active, alive, born, pressed, restarts>>

\* Bug for comparison: no search for the process is started.
LaunchedUnsought(c) ==
    /\ c.at = "launched" /\ Step(c, {})
    /\ entries' = (entries \ At(c.n, 1)) \cup {Entry(c.n, 1, TRUE, 0)} /\ active' = c.n
    /\ UNCHANGED <<opening, alive, born, pressed, restarts>>
\* handleDesktopAgentLaunched
Launched(c) ==
    /\ c.at = "launched"
    /\ entries' = (entries \ At(c.n, 1)) \cup {Entry(c.n, 1, TRUE, 0)} /\ active' = c.n
    /\ Step(c, {[at |-> "discover", n |-> c.n, exclude |-> Tracked]})
    /\ UNCHANGED <<opening, alive, born, pressed, restarts>>

-----------------------------------------------------------------------------
(* The search for the process, and the wait for its log *)

\* startWatcherDirCmd: a session (of several, the latest) that was not tracked at its
\* start, or none for as long as it looks
Discover(c) ==
    /\ c.at = "discover"
    /\ LET found == alive \ c.exclude
       IN  \/ \E p \in found : Step(c, {[at |-> "found", n |-> c.n, k |-> 1, pid |-> p]})
           \/ /\ found = {} /\ ("late" \in mishaps \/ c.n \notin opening)
              /\ Step(c, {[at |-> "lost", n |-> c.n, k |-> 1]})
           \/ "unreadable" \in mishaps /\ Step(c, {})
    /\ UNCHANGED <<entries, active, opening, alive, born, pressed, restarts>>

\* handleSessionFound
SessionFound(c) ==
    /\ c.at = "found"
    /\ entries' = {IF e.key = <<c.n, c.k>> THEN [e EXCEPT !.pid = c.pid] ELSE e : e \in entries}
    /\ Step(c, IF At(c.n, c.k) = {} THEN {} ELSE {[at |-> "wait", n |-> c.n, k |-> c.k, pid |-> c.pid]})
    /\ UNCHANGED <<active, opening, alive, born, pressed, restarts>>

\* waitForLogCmd; what follows the log is module Sessions.
WaitForLog(c) ==
    /\ c.at = "wait"
    /\ Step(c, IF c.pid \in alive THEN {} ELSE {[at |-> "lost", n |-> c.n, k |-> c.k]})
    /\ UNCHANGED <<entries, active, opening, alive, born, pressed, restarts>>

\* handleSessionLost, handleKillTerminal
Lost(c) ==
    /\ c.at = "lost" /\ Step(c, {})
    /\ entries' = {IF e.key = <<c.n, c.k>> THEN [e EXCEPT !.state = "ended"] ELSE e : e \in entries}
    /\ UNCHANGED <<active, opening, alive, born, pressed, restarts>>

\* [x] on the terminal
Kill(e) ==
    /\ e.pid \in alive
    /\ alive' = alive \ {e.pid}
    /\ chains' = chains \cup {[at |-> "lost", n |-> e.key[1], k |-> e.key[2]]}
    /\ UNCHANGED <<entries, active, opening, born, pressed, restarts>>

\* An overlay or a dialog takes a message, or its client quits.
Drop(c) ==
    /\ "dropped" \in mishaps /\ c.at \in {"launched", "found", "lost", "scanned"} /\ Step(c, {})
    /\ UNCHANGED <<entries, active, opening, alive, born, pressed, restarts>>

-----------------------------------------------------------------------------
(* Ticks *)

\* Bug for comparison: a liveness check that leaves the lock alone.
LivenessKeepsLock ==
    /\ \E ended \in SUBSET {e \in entries : e.state = "ended"} :
          entries' = {IF e.pid # 0 /\ e.pid \notin alive THEN [e EXCEPT !.state = "ended"] ELSE e : e \in entries \ ended}
    /\ UNCHANGED <<active, opening, alive, born, chains, pressed, restarts>>
\* Bug for comparison: the lock is released at every check.
LivenessKeepsEnded ==
    /\ \E ended \in SUBSET {e \in entries : e.state = "ended"} :
          /\ entries' = {IF e.pid # 0 /\ e.pid \notin alive THEN [e EXCEPT !.state = "ended"] ELSE e : e \in entries \ ended}
          /\ active' = 0
    /\ UNCHANGED <<opening, alive, born, chains, pressed, restarts>>
\* checkSessionLiveness: ended entries go after a while, those whose process died are
\* ended, and the lock is released when its entry is one of either.
Liveness ==
    /\ \E ended \in SUBSET {e \in entries : e.state = "ended"} :
          LET now == {IF e.pid # 0 /\ e.pid \notin alive THEN [e EXCEPT !.state = "ended"] ELSE e
                          : e \in entries \ ended}
          IN  /\ entries' = now
              /\ active' = IF \E e \in now : e.own /\ e.key[1] = active /\ e.state # "ended"
                           THEN active ELSE 0
    /\ UNCHANGED <<opening, alive, born, chains, pressed, restarts>>

Scans == {c \in chains : c.at \in {"scan", "scanned"}}
\* checkNewSessions looks in the home directory while the active entry lacks its process.
Scan ==
    /\ Cardinality(Scans) < MaxScans /\ \E e \in ActiveEntries : e.pid = 0
    /\ chains' = chains \cup {[at |-> "scan", n |-> active, exclude |-> Tracked]}
    /\ UNCHANGED <<entries, active, opening, alive, born, pressed, restarts>>

\* The command it returns.
ScanHome(c) ==
    /\ c.at = "scan"
    /\ LET pids == alive \ c.exclude
       IN  Step(c, IF pids = {} THEN {} ELSE {[at |-> "scanned", n |-> c.n, pids |-> pids]})
    /\ UNCHANGED <<entries, active, opening, alive, born, pressed, restarts>>

\* Bug for comparison: keys in use are not passed over.
FreeKeysAll(n) == 1..(MaxForeign + MaxLaunches + 1)
\* nextTrackingKey
FreeKeys(n) == {k \in 1..(MaxForeign + MaxLaunches + 1) : At(n, k) = {}}
WaitOf(n, k, p) == [at |-> "wait", n |-> n, k |-> k, pid |-> p]
\* The processes of `new` under the first free keys, in some order.
Attached(n, new) ==
    LET m == Cardinality(new)
        keys == {k \in FreeKeys(n) : Cardinality({j \in FreeKeys(n) : j <= k}) <= m}
    IN  Bijection(new, keys)
\* handleExistingSessions: the first process fills the entry that waits for one and the
\* others are left to the search; so are all while another entry of the directory waits;
\* else each gets an entry of its own.
Scanned(c) ==
    /\ c.at = "scanned"
    /\ LET new == c.pids \ Tracked
           waiting == {e \in entries : e.pid = 0}
           ours == {e \in waiting : e.key = <<c.n, 1>>}
       IN  \/ (new = {} \/ (ours = {} /\ waiting # {})) /\ Step(c, {}) /\ UNCHANGED entries
           \/ \E e \in ours, p \in new :
                 /\ entries' = (entries \ ours) \cup {[e EXCEPT !.pid = p]}
                 /\ Step(c, {WaitOf(c.n, 1, p)})
           \/ /\ waiting = {} /\ new # {}
              /\ \E key \in Attached(c.n, new) :
                    /\ entries' = entries \cup {Entry(c.n, key[p], FALSE, p) : p \in new}
                    /\ Step(c, {WaitOf(c.n, key[p], p) : p \in new})
    /\ UNCHANGED <<active, opening, alive, born, pressed, restarts>>

-----------------------------------------------------------------------------
(* Outside *)

Born(p) ==
    /\ p \notin born
    /\ IF p \in Launches THEN p \in opening ELSE "foreign" \in mishaps
    /\ opening' = opening \ {p} /\ alive' = alive \cup {p} /\ born' = born \cup {p}
    /\ UNCHANGED <<entries, active, chains, pressed, restarts>>
\* A process ends, or a terminal is closed before its process comes up.
Ends(p) ==
    /\ p \in alive \cup opening
    /\ alive' = alive \ {p} /\ opening' = opening \ {p}
    /\ UNCHANGED <<entries, active, born, chains, pressed, restarts>>
\* The program is started again; the terminals stay.
Restart ==
    /\ "restart" \in mishaps
    /\ restarts < MaxRestarts /\ restarts' = restarts + 1
    /\ entries' = {} /\ active' = 0 /\ chains' = {} 
    /\ UNCHANGED <<opening, alive, born, pressed>>

Proceed(c) == LaunchClaude(c) \/ Launched(c) \/ Discover(c) \/ SessionFound(c) \/ WaitForLog(c) \/ Lost(c)
           \/ ScanHome(c) \/ Scanned(c)
AgentNext ==
    /\ \/ Press \/ Liveness \/ Scan \/ Restart
       \/ \E c \in chains : Proceed(c) \/ Drop(c)
       \/ \E e \in entries : Kill(e)
       \/ \E p \in Procs : Born(p) \/ Ends(p)
    /\ UNCHANGED mishaps

AgentSpec == AgentInit /\ [][AgentNext]_desktopVars
Kinds == {"launch", "launched", "discover", "found", "wait", "lost", "scan", "scanned"}
\* Every command ends and every message is handled; the ticks go on.
AgentFairSpec ==
    /\ AgentSpec /\ WF_desktopVars(Liveness) /\ WF_desktopVars(Scan)
    /\ \A kind \in Kinds : WF_desktopVars(\E c \in chains : c.at = kind /\ Proceed(c))

-----------------------------------------------------------------------------
(* Properties *)

\* The kinds of the variables; one entry per key.
AgentTypeOK ==
    /\ active \in 0..MaxLaunches /\ opening \subseteq Launches /\ alive \subseteq born
    /\ \A e, f \in entries : e # f => e.key # f.key
    /\ \A e \in entries : e.own => e.key[2] = 1
    /\ Cardinality(Scans) <= MaxScans

\* One desktop agent: no two of the processes launched by [w] live, or come up.
OnlyOne == Cardinality((alive \cup opening) \cap Launches) <= 1

\* The entry of a launch follows the process of that launch.
FollowsOwn == \A e \in entries : e.own /\ e.pid # 0 => e.pid = e.key[1]

\* The lock belongs to an entry of the list, where the liveness check can release it.
LockIsTracked == active # 0 => ActiveEntries # {}

\* A run in which nothing overtakes a launch and its search, no message is dropped and no
\* other claude runs in the home directory; the session files may be unreadable.
Calm == mishaps \subseteq {"unreadable"}

\* One desktop agent at a time, and whatever happens its lock in the list
\* (launchDesktopAgent, activeDesktopAgent).
OneDesktopAgent ==
    /\ AgentTypeOK /\ LockIsTracked
    /\ Calm => OnlyOne /\ FollowsOwn

\* The lock is held as long as the agent it was taken for lives.
LockHeld == active # 0 /\ active \in alive /\ active \in alive' => active' # 0
HeldWhileAlive == [][Calm => LockHeld]_desktopVars

\* When nothing that was launched lives any more, [w] works again.
UnlocksAgain ==
    (Cardinality(alive \cup opening) = 0) ~> (Unblocked \/ Cardinality(alive \cup opening) > 0)

=============================================================================
