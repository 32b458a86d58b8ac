------------------------------ MODULE ProgressMC ------------------------------
(***************************************************************************)
(* What must happen eventually.  A behaviour is one of a small instance of *)
(* a model, the scenario, with the fairness its module states; the other   *)
(* models rest in their initial state.  Broker is extended, the others are *)
(* instances over variables that are named as theirs unless two models     *)
(* share the name.                                                         *)
(***************************************************************************)
EXTENDS Broker

CONSTANTS None, Never       \* model values

VARIABLES
    scenario,
    \* McpListener, with a broker of its own
    hubPhase, hubStore, hubPending, hubPc, hubProject, hubInitial, hubSubs, hubMapping,
    hubChannel, hubBuffer, hubConns, hubGot, hubPublished, hubMissed,
    run, contexts, listeners, mine, big, heard, passed, late, breaks, believed,
    \* StateRefresh
    server, session, subscribers, signal, waiter, timer, gate, busy, version, shown,
    \* ChannelSubs
    clients, overlays, config, broker, loops, chans, feeds, readers, msgs, job, reload,
    recorded, events, losses, left,
    \* DesktopProxy
    policyFile, policy, edited, proc, starts, cancelled, frames, inbox, inOpen, claude,
    upstream, up, received, working, upOut, out,
    \* SessionImport
    inHistory, flow, step, focused, path, bundle, sel, dest, queue, memAsk, decisions,
    memDecision, work, files, memory, wizards, faults, appeared, agreed, unasked,
    \* LoopPoll
    deps, todo, closed, stage, listed, color, parent, stack, cycleNodes, unchecked,
    asking, at, eligible, reported, logged, always, ever, unread, polls, edits,
    \* LogTail
    file, created, offset, start, told, readerAt, from, to, batch, handedOut,
    \* Alerts
    agent, log, permission, watch, first, handed, term, scan, since, loopAt, alerts,
    \* GitView
    known, page, gitOp, data, jobs, repo, spin, overlay, gitUsed,
    \* PendingOps
    projects, cursor, view, statusProject, statusCursor, statusShown, asked, flight,
    dialog, ended, labels, agents, todoIssues, acts, cleared, confirmed, hasty, pressUsed,
    \* DesktopAgent
    entries, active, opening, alive, born, chains, pressed, restarts

-----------------------------------------------------------------------------
(* The scenarios *)

\* A subscription is cancelled while a post is on its way; connections break.
Cancel == INSTANCE McpListener WITH
    Projects <- {"own", "other"}, Streams <- {"s1"}, BufferSize <- 2, MaxPosts <- 1,
    Own <- "own", ListenProjects <- <<"own", "", "other", "other">>,
    Calls <- {"unsubscribe", "close"}, MaxListeners <- 2, MaxBreaks <- 0, BigPosts <- FALSE,
    phase <- hubPhase, store <- hubStore, pending <- hubPending, pc <- hubPc,
    project <- hubProject, initial <- hubInitial, subs <- hubSubs, mapping <- hubMapping,
    channel <- hubChannel, buffer <- hubBuffer, conns <- hubConns, got <- hubGot,
    published <- hubPublished, missed <- hubMissed, shown <- passed
Reconnect == INSTANCE McpListener WITH
    Projects <- {"own"}, Streams <- {"s1", "s2"}, BufferSize <- 2, MaxPosts <- 1,
    Own <- "own", ListenProjects <- <<>>,
    Calls <- {}, MaxListeners <- 1, MaxBreaks <- 1, BigPosts <- FALSE,
    phase <- hubPhase, store <- hubStore, pending <- hubPending, pc <- hubPc,
    project <- hubProject, initial <- hubInitial, subs <- hubSubs, mapping <- hubMapping,
    channel <- hubChannel, buffer <- hubBuffer, conns <- hubConns, got <- hubGot,
    published <- hubPublished, missed <- hubMissed, shown <- passed

\* Two dashboards with dialogs.
Refresh == INSTANCE StateRefresh WITH
    Sessions <- {"a", "b"}, Own <- "a", Dialogs <- TRUE, MaxVersion <- 1, phase <- session

\* A channel is turned on and off while events come in; a dialog opens, a client quits.
FeedBound ==
    [op \in {"launch", "loop", "toggle", "listen", "reload", "dialog", "quit", "event", "fault"} |->
        CASE op \in {"toggle", "event"} -> 2 [] op \in {"launch", "dialog", "quit"} -> 1 [] OTHER -> 0]
FeedOff == [enabled |-> [p \in {"p"} |-> FALSE], listen |-> [p \in {"p"} |-> {"_global"}]]
Feed == INSTANCE ChannelSubs WITH
    Clients <- {"c", "d"}, Projects <- <<"p">>, Global <- "_global", Listens <- {{}, {"_global"}},
    Started <- FeedOff, Cap <- 2, Bound <- FeedBound,
    alive <- clients, gate <- overlays, subs <- feeds, published <- events

\* Frames of every kind, and two tools of one profile.
Screenshot == [tool |-> "screenshot", text |-> "", app |-> "none", focus |-> ""]
Proxy == INSTANCE DesktopProxy WITH
    Tools <- {"screenshot", "run_script"}, DefaultAllowedTools <- {"screenshot"},
    DefaultDeniedTools <- {"run_script"}, ReadOnlyTools <- {"screenshot"},
    StandardExtra <- {}, NoneScriptExtra <- {}, Texts <- {"a"}, DefaultDenyKeys <- {"alt+f4"},
    LockoutKeys <- {}, Trips <- [k \in {"alt+f4"} |-> {}], Apps <- {"editor"},
    UpstreamTools <- {"screenshot", "run_script"}, Files <- {[is |-> "toml", profile |-> "strict", over |-> <<>>]},
    Calls <- {Screenshot, [Screenshot EXCEPT !.tool = "run_script"]},
    FrameKinds <- {"call", "list", "other", "junk", "huge"},
    AnswerKinds <- {"result", "known_error", "rpc_error", "huge"}, MaxFrames <- 2, MaxStarts <- 1,
    file <- policyFile, sent <- frames

\* One import with a fault.
Import == INSTANCE SessionImport WITH
    Dests <- {"home"}, Bundles <- {"b"}, SessionIDs <- {"s"},
    Manifest <- [b |-> [sessions |-> <<"s">>, memory |-> TRUE]], Works <- {1},
    MaxWizards <- 1, MaxFaults <- 1, MaxAppear <- 1,
    mishaps <- {"hasty", "fault", "agent"}, memories <- memory

\* Five graphs, from cycles to chains.
Poll == INSTANCE LoopPoll WITH
    IssueIDs <- 1..3, NoIssue <- 0, MaxPolls <- 1, MaxEdits <- 0,
    Bodies <- {<< <<2, 3>>, <<3>>, <<>> >>, << <<2>>, <<1>>, <<1>> >>, << <<2, 3>>, <<>>, <<1>> >>,
               << <<2, 3>>, <<1>>, <<2>> >>, << <<>>, <<2>>, <<2, 1>> >>},
    Trackers <- {[todo |-> 1..3, closed |-> {}]}

\* Whole records, and records in halves with one that is too long.
Tail1 == INSTANCE LogTail WITH
    Readers <- {"r"}, Records <- 1..3, Halves <- FALSE, Huge <- {}, at <- readerAt, got <- handedOut
Halves == INSTANCE LogTail WITH
    Readers <- {"r"}, Records <- 1..3, Halves <- TRUE, Huge <- {3}, at <- readerAt, got <- handedOut

\* A loop notifies under the terminal's key.
Alarm == INSTANCE Alerts WITH
    Questions <- {"q", "none"}, NoText <- "none", Cooldown <- 1, Writes <- 2, AsksWhen <- {"settled"},
    Patient <- FALSE, Clients <- 1, Loop <- TRUE, signal <- permission, phase <- watch

\* Operations of one page, with no overlay but that of a failure.
Git == INSTANCE GitView WITH
    Projects <- {"p"}, MaxOps <- 2, Overlays <- 0, project <- page

\* Presses behind a label check.
Press == INSTANCE PendingOps WITH
    Order <- <<"p", "q">>, Issues <- 1, Kinds <- {"review", "loop"},
    MaxPresses <- 2, MaxVisits <- 0, MaxReloads <- 0, MaxDeletions <- 0,
    shown <- statusShown, pending <- asked, todo <- todoIssues, agreed <- confirmed, used <- pressUsed

\* A launch after the other.
Desktop == INSTANCE DesktopAgent WITH
    Mishaps <- {}, MaxLaunches <- 2, MaxForeign <- 0, MaxScans <- 1, MaxRestarts <- 0,
    mishaps <- {}

ASSUME ProgressAssumption ==
    /\ Cancel!ListenerAssumption /\ Reconnect!ListenerAssumption
    /\ Feed!ChannelAssumption /\ Import!ImportAssumption /\ Poll!PollAssumption
    /\ Tail1!TailAssumption /\ Halves!TailAssumption /\ Alarm!AlertsAssumption
    /\ Git!GitAssumption /\ Press!PendingAssumption /\ Desktop!DesktopAgentAssumption

-----------------------------------------------------------------------------
(* The specification: a scenario is chosen once *)

hubVars == <<hubPhase, hubStore, hubPending, hubPc, hubProject, hubInitial, hubSubs,
             hubMapping, hubChannel, hubBuffer, hubConns, hubGot, hubPublished, hubMissed,
             run, contexts, listeners, mine, big, heard, passed, late, breaks, believed>>
refreshVars == <<server, session, subscribers, signal, waiter, timer, gate, busy, version, shown>>
feedVars == <<clients, overlays, config, broker, loops, chans, feeds, readers, msgs, job,
              reload, recorded, events, losses, left>>
proxyVars == <<policyFile, policy, edited, proc, starts, cancelled, frames, inbox, inOpen,
               claude, upstream, up, received, working, upOut, out>>
importVars == <<inHistory, flow, step, focused, path, bundle, sel, dest, queue, memAsk,
                decisions, memDecision, work, files, memory, wizards, faults, appeared,
                agreed, unasked>>
pollVars == <<deps, todo, closed, stage, listed, color, parent, stack, cycleNodes, unchecked,
              asking, at, eligible, reported, logged, always, ever, unread, polls, edits>>
tailVars == <<file, created, offset, start, told, readerAt, from, to, batch, handedOut>>
alertVars == <<agent, log, permission, watch, first, handed, term, scan, since, loopAt, alerts>>
gitVars == <<known, page, gitOp, data, jobs, repo, spin, overlay, gitUsed>>
pressVars == <<projects, cursor, view, statusProject, statusCursor, statusShown, asked,
               flight, dialog, ended, labels, agents, todoIssues, acts, cleared, confirmed,
               hasty, pressUsed>>
desktopVars == <<entries, active, opening, alive, born, chains, pressed, restarts>>

\* A model at rest starts in one state of those it may start in.
HubInit ==
    IF scenario = "cancel" THEN Cancel!McpInit /\ hubProject = [s1 |-> "other"]
    ELSE Reconnect!McpInit /\ hubProject = [s1 |-> "own", s2 |-> "own"]
AtRest ==
    /\ scenario # "bus" => project = [s \in Streams |-> CHOOSE p \in Projects : TRUE]
    /\ scenario # "import" => files.home.s = "absent" /\ memory.home = {}
    /\ scenario # "poll" => deps = << <<2>>, <<1>>, <<1>> >>
    /\ scenario # "press" => labels = {} /\ agents = {}

ProgressInit ==
    /\ scenario \in {"bus", "cancel", "reconnect", "refresh", "feed", "proxy", "import", "poll",
                     "records", "halves", "alarm", "git", "press", "desktop"}
    /\ Init /\ HubInit /\ Refresh!Init /\ Feed!Init /\ Proxy!Init /\ Import!ImportInit /\ Poll!PollInit
    /\ Tail1!Init /\ Alarm!Init /\ Git!GitInit /\ Press!Init /\ Desktop!AgentInit
    /\ AtRest

BusStep ==
    /\ scenario = "bus" /\ Next
    /\ UNCHANGED <<hubVars, refreshVars, feedVars, proxyVars, importVars, pollVars, tailVars,
                   alertVars, gitVars, pressVars, desktopVars>>
HubStep ==
    /\ \/ scenario = "cancel" /\ Cancel!McpNext
       \/ scenario = "reconnect" /\ Reconnect!McpNext
    /\ UNCHANGED <<vars, refreshVars, feedVars, proxyVars, importVars, pollVars, tailVars,
                   alertVars, gitVars, pressVars, desktopVars>>
RefreshStep ==
    /\ scenario = "refresh" /\ Refresh!Next
    /\ UNCHANGED <<vars, hubVars, feedVars, proxyVars, importVars, pollVars, tailVars,
                   alertVars, gitVars, pressVars, desktopVars>>
FeedStep ==
    /\ scenario = "feed" /\ Feed!Next
    /\ UNCHANGED <<vars, hubVars, refreshVars, proxyVars, importVars, pollVars, tailVars,
                   alertVars, gitVars, pressVars, desktopVars>>
ProxyStep ==
    /\ scenario = "proxy" /\ Proxy!Next
    /\ UNCHANGED <<vars, hubVars, refreshVars, feedVars, importVars, pollVars, tailVars,
                   alertVars, gitVars, pressVars, desktopVars>>
ImportStep ==
    /\ scenario = "import" /\ Import!ImportNext
    /\ UNCHANGED <<vars, hubVars, refreshVars, feedVars, proxyVars, pollVars, tailVars,
                   alertVars, gitVars, pressVars, desktopVars>>
PollStep ==
    /\ scenario = "poll" /\ Poll!PollNext
    /\ UNCHANGED <<vars, hubVars, refreshVars, feedVars, proxyVars, importVars, tailVars,
                   alertVars, gitVars, pressVars, desktopVars>>
TailStep ==
    /\ \/ scenario = "records" /\ Tail1!Next
       \/ scenario = "halves" /\ Halves!Next
    /\ UNCHANGED <<vars, hubVars, refreshVars, feedVars, proxyVars, importVars, pollVars,
                   alertVars, gitVars, pressVars, desktopVars>>
AlarmStep ==
    /\ scenario = "alarm" /\ Alarm!Next
    /\ UNCHANGED <<vars, hubVars, refreshVars, feedVars, proxyVars, importVars, pollVars,
                   tailVars, gitVars, pressVars, desktopVars>>
GitStep ==
    /\ scenario = "git" /\ Git!GitNext
    /\ UNCHANGED <<vars, hubVars, refreshVars, feedVars, proxyVars, importVars, pollVars,
                   tailVars, alertVars, pressVars, desktopVars>>
PressStep ==
    /\ scenario = "press" /\ Press!Next
    /\ UNCHANGED <<vars, hubVars, refreshVars, feedVars, proxyVars, importVars, pollVars,
                   tailVars, alertVars, gitVars, desktopVars>>
DesktopStep ==
    /\ scenario = "desktop" /\ Desktop!AgentNext
    /\ UNCHANGED <<vars, hubVars, refreshVars, feedVars, proxyVars, importVars, pollVars,
                   tailVars, alertVars, gitVars, pressVars>>

ProgressNext ==
    /\ \/ BusStep \/ HubStep \/ RefreshStep \/ FeedStep \/ ProxyStep \/ ImportStep \/ PollStep
       \/ TailStep \/ AlarmStep \/ GitStep \/ PressStep \/ DesktopStep
    /\ UNCHANGED scenario

progressVars == <<scenario, vars, hubVars, refreshVars, feedVars, proxyVars, importVars,
                  pollVars, tailVars, alertVars, gitVars, pressVars, desktopVars>>

\* The n-th of the actions a module is fair to in its FairSpec.
HubTask(n) ==
    \/ scenario = "cancel" /\ \E g \in DOMAIN listeners :
          \/ n = g /\ (Cancel!ReadEvent(g) \/ Cancel!WriteNotification(g))
          \/ n = 2 + g /\ (Cancel!Dial(g) \/ Cancel!DialFails(g) \/ Cancel!StreamEnds(g)
                           \/ Cancel!Retry(g) \/ Cancel!Stop(g))
    \/ scenario = "cancel" /\ n = 5 /\ Cancel!Handler("s1")
    \/ scenario = "cancel" /\ n = 6 /\ Cancel!PublishAny
    \/ scenario = "reconnect" /\ \E g \in DOMAIN listeners :
          \/ n = 1 /\ (Reconnect!ReadEvent(g) \/ Reconnect!WriteNotification(g))
          \/ n = 2 /\ (Reconnect!Dial(g) \/ Reconnect!DialFails(g) \/ Reconnect!StreamEnds(g)
                       \/ Reconnect!Retry(g) \/ Reconnect!Stop(g))
    \/ scenario = "reconnect" /\ n = 3 /\ Reconnect!Handler("s1")
    \/ scenario = "reconnect" /\ n = 4 /\ Reconnect!Handler("s2")
    \/ scenario = "reconnect" /\ n = 5 /\ Reconnect!PublishAny
BusTask(n) ==
    \/ n = 1 /\ \E post \in pending : Publish(post)
    \/ \E s \in Streams : LET k == IF s = "s1" THEN 0 ELSE 3 IN
          \/ n = 2 + k /\ (SendInitial(s) \/ CountConnection(s) \/ Subscribe(s))
          \/ n = 3 + k /\ (SendEvent(s) \/ ChannelClosed(s))
          \/ n = 4 + k /\ Uncount(s)
RefreshTask(n) ==
    \/ n = 1 /\ Refresh!Render("a")
    \/ n = 2 /\ Refresh!Tick("a")
    \/ n = 3 /\ Refresh!Render("b")
    \/ n = 4 /\ Refresh!Tick("b")
    \/ n = 5 /\ Refresh!BeginShutdown
    \/ n = 6 /\ Refresh!Exit
FeedTask(n) ==
    \/ n = 1 /\ Feed!Reads
    \/ n = 2 /\ Feed!Handles
    \/ n = 3 /\ Feed!Handler("c")
    \/ n = 4 /\ Feed!Handler("d")
ProxyTask(n) ==
    \/ n = 1 /\ Proxy!ReadLine
    \/ n = 2 /\ Proxy!ReadEof
    \/ n = 3 /\ Proxy!ReadUpstream
    \/ n = 4 /\ Proxy!UpstreamEof
    \/ n = 5 /\ Proxy!UpstreamAnswers
    \/ n = 6 /\ Proxy!Finish
ImportTask(n) ==
    \/ n = 1 /\ Import!Handle(1)
    \/ n = 2 /\ Import!Run(1)
TailTask(n) ==
    \/ scenario = "records" /\ n = 1 /\ Tail1!AddWatch
    \/ scenario = "records" /\ n = 2 /\ Tail1!ReaderStep("r")
    \/ scenario = "halves" /\ n = 1 /\ Halves!AddWatch
    \/ scenario = "halves" /\ n = 2 /\ Halves!ReaderStep("r")
AlarmTask(n) ==
    \/ n = 1 /\ Alarm!Minute
    \/ n = 2 /\ Alarm!Watching
    \/ n = 3 /\ Alarm!Ticks
    \/ n = 4 /\ Alarm!SessionEnded
GitTask(n) ==
    \/ n = 9 /\ Git!Dismiss
    \/ \E j \in Git!Jobs : \/ n = j /\ Git!Work(j)
                           \/ n = 4 + j /\ Git!Deliver(j)
PressTask(n) ==
    \/ n = 1 /\ \E m \in flight : Press!Work(m) \/ Press!Handle(m)
    \/ n = 2 /\ Press!Answer
DesktopTask(n) ==
    \/ n = 1 /\ Desktop!Liveness
    \/ n = 2 /\ Desktop!Scan
    \/ \E c \in chains : Desktop!Proceed(c) /\
          n = CASE c.at = "launch" -> 3 [] c.at = "launched" -> 4 [] c.at = "discover" -> 5
                [] c.at = "found" -> 6 [] c.at = "wait" -> 7 [] c.at = "lost" -> 8
                [] c.at = "scan" -> 9 [] c.at = "scanned" -> 10

Task(n) ==
    /\ CASE scenario = "bus" -> BusTask(n)
         [] scenario \in {"cancel", "reconnect"} -> HubTask(n)
         [] scenario = "refresh" -> RefreshTask(n)
         [] scenario = "feed" -> FeedTask(n)
         [] scenario = "proxy" -> ProxyTask(n)
         [] scenario = "import" -> ImportTask(n)
         [] scenario = "poll" -> n = 1 /\ Poll!PollStep
         [] scenario \in {"records", "halves"} -> TailTask(n)
         [] scenario = "alarm" -> AlarmTask(n)
         [] scenario = "git" -> GitTask(n)
         [] scenario = "press" -> PressTask(n)
         [] scenario = "desktop" -> DesktopTask(n)
    /\ UNCHANGED scenario

\* What the tasks of a scenario change.
moving ==
    CASE scenario = "bus" -> vars
      [] scenario \in {"cancel", "reconnect"} -> hubVars
      [] scenario = "refresh" -> refreshVars
      [] scenario = "feed" -> feedVars
      [] scenario = "proxy" -> proxyVars
      [] scenario = "import" -> importVars
      [] scenario = "poll" -> pollVars
      [] scenario \in {"records", "halves"} -> tailVars
      [] scenario = "alarm" -> alertVars
      [] scenario = "git" -> gitVars
      [] scenario = "press" -> pressVars
      [] scenario = "desktop" -> desktopVars

\* The scenario never changes, so that to be fair to the n-th task of whichever
\* scenario it is, for every n, is the fairness each module states.
ProgressFairness == \A n \in 1..10 : WF_moving(Task(n))

ProgressSpec == ProgressInit /\ [][ProgressNext]_progressVars /\ ProgressFairness

-----------------------------------------------------------------------------
(* Properties                                                                  *)

\* What is not yet where it belongs: an artifact a listener has not passed on
\* (listenSSE, consumeSSE), a version a dashboard has not rendered (tickCmd), an event
\* in a channel that is held and has not lost its last reader to an overlay or a client
\* that quit (handleChannelEvent), a record nobody was handed (WatchOnce), a permission
\* an agent waits for and the user is not told of (checkPermissionSignals).
Unseen ==
    \/ /\ scenario = "reconnect" /\ hubPhase = "up" /\ contexts["own"] # 0
       /\ \E e \in Reconnect!Posts : /\ e.kind = "artifact" /\ e.id \notin mine \cup big
                                     /\ ~Reconnect!Shown(e) /\ ~Reconnect!InGap(e)
    \/ \E s \in {"a", "b"} : session[s] = "running" /\ shown[s] # version
    \/ \E k \in {"p", "_global"} \ losses.unread : feeds[k] # 0 /\ chans[feeds[k]].buf # <<>>
    \/ /\ scenario = "records" /\ created = "ready" /\ Len(file) > start.added
       /\ \E n \in Tail1!NewRecords : Tail1!HandedTo(n) = {}
    \/ agent = "permission" /\ watch = "ready" /\ term.state # "Permission"

\* What was told to stop and has not: an SSE handler whose channel the bus closed
\* (closeAll: "unblocks all SSE handlers"), a cancelled goroutine of the listener
\* (listenSSE), the server of a session that is over (runAutoServe: "Ensure server is
\* shut down on all exit paths"), a proxy with both pipes at their end (Run), a
\* goroutine in WatchOnce after Stop.
Lingering ==
    \/ \E s \in Streams : channel[s] = "closed" /\ pc[s] # "ended"
    \/ scenario = "cancel" /\ \E g \in DOMAIN listeners :
          listeners[g].cancelled /\ Cancel!At(g) # "gone"
    \/ session["a"] = "gone" /\ server # "down"
    \/ proc = "running" /\ ~inOpen /\ up = "exited"
    \/ created = "stopped" /\ readerAt["r"] \notin {"done", "failed"}

\* What was asked and has no answer: a frame of the agent (Run, handleToolsCall), an
\* import that is neither over nor at a prompt (handleImportCompleted), a poll that
\* walks a graph (detectCycles, filterByDependencies), a git operation that keeps the
\* next one from starting (startGitOp, onGitFetchResult), a press whose operation is
\* pending though the user waits (executePendingOp), [w] refused while no agent lives (checkSessionLiveness).
Unanswered ==
    \/ ~Proxy!CutShort /\ \E id \in 1..frames : ~Proxy!Answered(id)
    \/ step = 4 /\ ~Import!Asking
    \/ scenario = "poll" /\ stage \in {"walking", "filtering"}
    \/ gitOp # ""
    \/ asked # Press!NoOp /\ ~hasty
    \/ scenario = "desktop" /\ alive \cup opening = {} /\ ~Desktop!Unblocked

\* Whatever breaks, closes or takes long in between, changes come to be seen, ...
ChangesAreSeen == []<>~Unseen

\* ... what is told to stop ends, ...
StoppedEnds == []<>~Lingering

\* ... and what is asked is answered.
AskedIsAnswered == []<>~Unanswered

===============================================================================
