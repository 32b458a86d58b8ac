----------------------------- MODULE StateRefresh -----------------------------
(***************************************************************************)
(* Shared state on many screens: AppState's subscribers and NotifyAll      *)
(* (appstate.go), the command of each dashboard that waits for a signal    *)
(* (model.go), its tick, and the SSH server whose sessions run dashboards  *)
(* (server.go), started by "zpit serve" or by auto_serve (main.go).  What  *)
(* is changed does not matter here: the state is its version.              *)
(***************************************************************************)
EXTENDS Naturals

CONSTANTS
    Sessions,       \* SSH sessions, each with a dashboard; none comes back
    Own,            \* the session auto_serve connects itself, or no session
    Dialogs,        \* may overlays and dialogs be shown?
    MaxVersion      \* bound of the model: changes made

ASSUME RefreshAssumption == Dialogs \in BOOLEAN /\ MaxVersion \in Nat

VARIABLES
    server,         \* "serving", "stopping" (Shutdown waits) or "down"
    phase,          \* of each session: "new", "running" or "gone"
    subscribers,    \* AppState.subscribers
    signal,         \* signals in the channel of each subscriber
    waiter,         \* waitForStateRefresh: returned by a handler and "starting",
                    \*   "blocked", its "answer" sent, or "none"
    timer,          \* tickCmd is under way
    gate,           \* "closed" while an overlay or dialog takes the messages
    busy,           \* a handler has run and syncViewportContent has not
    version,        \* changes of the shared state so far
    shown           \* the version each dashboard shows

vars == <<server, phase, subscribers, signal, waiter, timer, gate, busy, version, shown>>

Init ==
    /\ server = "serving"
    /\ phase = [s \in Sessions |-> "new"]
    /\ subscribers = {}
    /\ signal = [s \in Sessions |-> 0]
    /\ waiter = [s \in Sessions |-> "none"]
    /\ timer = [s \in Sessions |-> FALSE]
    /\ gate = [s \in Sessions |-> "open"]
    /\ busy = [s \in Sessions |-> FALSE]
    /\ version = 0
    /\ shown = [s \in Sessions |-> 0]

\* The program of s handles one message at a time.
Free(s) == phase[s] = "running" /\ ~busy[s]

-----------------------------------------------------------------------------
(* Sessions *)

\* teaHandler, NewModelWithState and Init, up to the first rendering: a change
\* after Subscribe is signalled, whether the rendering saw it or not.
Connect(s) ==
    /\ server = "serving" /\ phase[s] = "new"
    /\ phase' = [phase EXCEPT ![s] = "running"]
    /\ subscribers' = subscribers \cup {s}
    /\ waiter' = [waiter EXCEPT ![s] = "starting"]
    /\ timer' = [timer EXCEPT ![s] = TRUE]
    /\ shown' = [shown EXCEPT ![s] = version]
    /\ UNCHANGED <<server, signal, gate, busy, version>>

\* [q]: Unsubscribe closes the channel.
Quit(s) ==
    /\ Free(s) /\ gate[s] = "open"
    /\ phase' = [phase EXCEPT ![s] = "gone"]
    /\ subscribers' = subscribers \ {s}
    /\ UNCHANGED <<server, signal, waiter, timer, gate, busy, version, shown>>

\* The connection is lost, or the ssh client killed: the program ends, and no
\* handler of its model is told.
Drop(s) ==
    /\ Free(s)
    /\ phase' = [phase EXCEPT ![s] = "gone"]
    /\ UNCHANGED <<server, subscribers, signal, waiter, timer, gate, busy, version, shown>>

-----------------------------------------------------------------------------
(* Changes and signals *)

\* Bugs for comparison: the send waits for room; the channel has no buffer.
NotifyBlocking == [s \in Sessions |-> IF s \in subscribers THEN signal[s] + 1 ELSE signal[s]]
NotifyUnbuffered ==
    [s \in Sessions |-> IF s \in subscribers /\ waiter[s] = "blocked" THEN 1 ELSE signal[s]]
\* NotifyAll: the buffer of one takes what it can.
NotifyAll == [s \in Sessions |-> IF s \in subscribers THEN 1 ELSE signal[s]]

\* A handler of s changes the state and notifies, all under the lock.
Change(s) ==
    /\ Free(s) /\ gate[s] = "open" /\ version < MaxVersion
    /\ version' = version + 1
    /\ signal' = NotifyAll
    /\ busy' = [busy EXCEPT ![s] = TRUE]
    /\ UNCHANGED <<server, phase, subscribers, waiter, timer, gate, shown>>

\* After every handler Update renders what the state is by then.
Render(s) ==
    /\ phase[s] = "running" /\ busy[s]
    /\ busy' = [busy EXCEPT ![s] = FALSE]
    /\ shown' = [shown EXCEPT ![s] = version]
    /\ UNCHANGED <<server, phase, subscribers, signal, waiter, timer, gate, version>>

\* The command a handler returned is started once Update is over.
WaiterStarts(s) ==
    /\ waiter[s] = "starting" /\ ~busy[s]
    /\ waiter' = [waiter EXCEPT ![s] = IF phase[s] = "gone" THEN "none" ELSE "blocked"]
    /\ UNCHANGED <<server, phase, subscribers, signal, timer, gate, busy, version, shown>>

\* waitForStateRefresh returns with a signal, also in a program that is gone,
\* or finds the channel closed and empty.
WaiterReturns(s) ==
    /\ waiter[s] = "blocked"
    /\ \/ /\ signal[s] = 1
          /\ signal' = [signal EXCEPT ![s] = 0]
          /\ waiter' = [waiter EXCEPT ![s] = IF phase[s] = "gone" THEN "none" ELSE "answer"]
       \/ /\ signal[s] = 0 /\ s \notin subscribers
          /\ waiter' = [waiter EXCEPT ![s] = "none"]
          /\ UNCHANGED signal
    /\ UNCHANGED <<server, phase, subscribers, timer, gate, busy, version, shown>>

\* StateRefreshMsg: the next signal is waited for, unless the message is taken
\* by an overlay or a dialog.
Refresh(s) ==
    /\ Free(s) /\ waiter[s] = "answer"
    /\ waiter' = [waiter EXCEPT ![s] = IF gate[s] = "open" THEN "starting" ELSE "none"]
    /\ busy' = [busy EXCEPT ![s] = TRUE]
    /\ UNCHANGED <<server, phase, subscribers, signal, timer, gate, version, shown>>

\* Bug for comparison: overlays and dialogs take the tick as well.
RearmedIfOpen(s) == gate[s] = "open"
\* Overlays and dialogs let the tick through and start the next one.
Rearmed(s) == timer[s]

Tick(s) ==
    /\ Free(s) /\ timer[s]
    /\ timer' = [timer EXCEPT ![s] = Rearmed(s)]
    /\ busy' = [busy EXCEPT ![s] = TRUE]
    /\ UNCHANGED <<server, phase, subscribers, signal, waiter, gate, version, shown>>

SwitchGate(s) ==
    /\ Dialogs /\ Free(s)
    /\ gate' = [gate EXCEPT ![s] = IF @ = "open" THEN "closed" ELSE "open"]
    /\ busy' = [busy EXCEPT ![s] = TRUE]
    /\ UNCHANGED <<server, phase, subscribers, signal, waiter, timer, version, shown>>

-----------------------------------------------------------------------------
(* The server *)

\* zpit serve stops at a signal; auto_serve when its own session is over, also
\* when a signal made it kill its ssh client.
BeginShutdown ==
    /\ server = "serving"
    /\ Own \in Sessions => phase[Own] = "gone"
    /\ server' = "stopping"
    /\ UNCHANGED <<phase, subscribers, signal, waiter, timer, gate, busy, version, shown>>

\* Bug for comparison: Shutdown waits for the sessions as long as they last.
AllEnded == \A s \in Sessions : phase[s] # "running"
\* Shutdown waits for the sessions to end, thirty seconds at most.
WaitedEnough == AllEnded \/ server = "stopping"

\* The process ends, and what still ran in it.
Exit ==
    /\ server = "stopping" /\ WaitedEnough
    /\ server' = "down"
    /\ phase' = [s \in Sessions |-> "gone"]
    /\ UNCHANGED <<subscribers, signal, waiter, timer, gate, busy, version, shown>>

-----------------------------------------------------------------------------
Update(s) == Change(s) \/ Refresh(s) \/ Tick(s) \/ SwitchGate(s) \/ Render(s)

Next ==
    \/ \E s \in Sessions : Connect(s) \/ Quit(s) \/ Drop(s) \/ Update(s)
                       \/ WaiterStarts(s) \/ WaiterReturns(s)
    \/ BeginShutdown \/ Exit

Spec == Init /\ [][Next]_vars

\* Programs handle what they are sent, timers fire, main goes on.  Sessions,
\* users and signals may do nothing.
FairSpec ==
    /\ Spec
    /\ \A s \in Sessions : WF_vars(Render(s)) /\ WF_vars(Tick(s))
    /\ WF_vars(Own \in Sessions /\ BeginShutdown) /\ WF_vars(Exit)

-----------------------------------------------------------------------------
(* Properties *)

\* A channel of NotifyAll never holds more than its buffer of one.
TypeOK ==
    /\ server \in {"serving", "stopping", "down"}
    /\ phase \in [Sessions -> {"new", "running", "gone"}]
    /\ subscribers \subseteq Sessions
    /\ signal \in [Sessions -> 0..1]
    /\ waiter \in [Sessions -> {"none", "starting", "blocked", "answer"}]
    /\ timer \in [Sessions -> BOOLEAN]
    /\ gate \in [Sessions -> {"open", "closed"}]
    /\ busy \in [Sessions -> BOOLEAN]
    /\ version \in Nat
    /\ shown \in [Sessions -> Nat]

\* Signals are merged and never lost (NotifyAll, 10-appstate.md:164): a dashboard
\* that shows an old state is about to render, or its waiter has a signal.
Signalled(s) ==
    waiter[s] = "answer" \/ (waiter[s] \in {"starting", "blocked"} /\ signal[s] = 1)
NoLostWakeup ==
    \A s \in Sessions :
        phase[s] = "running" /\ shown[s] # version => busy[s] \/ Signalled(s)

\* "The caller should ... call Unsubscribe when done" (Subscribe): who subscribes
\* is somebody's dashboard.
SubscribersAreClients ==
    server # "down" => \A s \in subscribers : phase[s] = "running"

\* Whatever overlays and dialogs take, the tick brings every dashboard up to date.
EveryChangeShown ==
    \A s \in Sessions :
        (phase[s] = "running" /\ shown[s] # version)
            ~> (phase[s] = "gone" \/ shown[s] = version)

\* runAutoServe: "Ensure server is shut down on all exit paths", whoever else is
\* connected.
ServerEnds == (Own \in Sessions /\ phase[Own] = "gone") ~> server = "down"

===============================================================================
