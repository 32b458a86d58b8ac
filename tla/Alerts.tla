------------------------------- MODULE Alerts -------------------------------
(***************************************************************************)
(* How the user learns that an agent waits (internal/notify and its        *)
(* callers in internal/tui): one terminal with its session log and its     *)
(* permission signal file, the cooldown the Notifier keeps for the         *)
(* terminal's key, and the loop of the same project, which notifies under  *)
(* the same key.  Minutes count up to the cooldown only, for the code asks *)
(* no more of them.                                                        *)
(***************************************************************************)
EXTENDS Naturals, Sequences, SequencesExt

CONSTANTS
    Questions,      \* what an agent may ask
    NoText,         \* no question, or an end of turn without a text
    Never,          \* no notification is remembered
    Cooldown,       \* re_remind_minutes
    Writes,         \* bound: assistant records in the log
    AsksWhen,       \* when a permission is asked, see Moment
    Patient,        \* does the user decide only what the terminal list shows?
    Clients,        \* 1, or 2: then a tick of one runs beside the other's events
    Loop            \* does the project's loop need a human?

AlertsAssumption ==
    /\ NoText \in Questions /\ Never \notin Nat /\ Cooldown \in Nat \ {0}
    /\ Writes \in Nat /\ Clients \in 1..2 /\ {Patient, Loop} \subseteq BOOLEAN
    /\ AsksWhen \subseteq {"launched", "lagging", "settled"}

VARIABLES
    agent,      \* what it does: "works", "asks", "tool", "permission", "gone"
    log,        \* its assistant records
    signal,     \* is there a permission file of the session?
    phase,      \* "launched", "found", "sized", "ready": the way to a watched session
    first,      \* the records the watcher was created behind
    handed,     \* those, and the ones it has handed out
    term,       \* the entry in activeTerminals: state and question
    scan,       \* checkPermissionSignals: "idle", "read", "stale"
    since,      \* minutes since lastNotified of the key, or Never
    loopAt,     \* handleLoopLabelPoll and NotifyWaiting: "idle", "unlocked", "allowed", "sent", "suppressed"
    alerts      \* history: what was sent, behind which record, and how long after the last

agentVars == <<agent, log>>
termVars == <<phase, first, handed, term>>
vars == <<agentVars, signal, termVars, scan, since, loopAt, alerts>>

Init ==
    /\ agent = "works" /\ log = <<>> /\ signal = FALSE
    /\ phase = "launched" /\ first = 0 /\ handed = 0
    /\ term = [state |-> "Unknown", question |-> NoText]
    /\ scan = "idle" /\ since = Never /\ loopAt = "idle" /\ alerts = {}

-----------------------------------------------------------------------------
(* The agent and its user (outside the program) *)

\* "Streaming" stands for every state that is neither Working nor Waiting.
Record(state, question) == [state |-> state, question |-> question]
Write(record) == /\ Len(log) < Writes
                 /\ log' = Append(log, record)
Outside == UNCHANGED <<termVars, scan, since, loopAt, alerts>>

Talk == agent = "works" /\ Write(Record("Streaming", NoText)) /\ UNCHANGED <<agent, signal>> /\ Outside
Ask(q) == agent = "works" /\ agent' = "asks" /\ Write(Record("Waiting", q)) /\ UNCHANGED signal /\ Outside
Reply == agent = "asks" /\ agent' = "works" /\ UNCHANGED <<log, signal>> /\ Outside
UseTool == agent = "works" /\ agent' = "tool" /\ Write(Record("Working", NoText)) /\ UNCHANGED signal /\ Outside
RunTool == agent = "tool" /\ agent' = "works" /\ UNCHANGED <<log, signal>> /\ Outside
\* The records are behind the watcher, or still to be handed out.
Moment == IF phase = "launched" THEN "launched"
          ELSE IF phase = "ready" /\ handed = Len(log) THEN "settled" ELSE "lagging"
\* notify-permission.sh writes the signal file.
NeedPermission ==
    /\ agent = "tool" /\ Moment \in AsksWhen
    /\ agent' = "permission" /\ signal' = TRUE
    /\ UNCHANGED log /\ Outside
Decide ==
    /\ agent = "permission" /\ (Patient => term.state = "Permission")
    /\ agent' = "works"
    /\ UNCHANGED <<log, signal>> /\ Outside
Exit == agent # "gone" /\ agent' = "gone" /\ UNCHANGED <<log, signal>> /\ Outside

Minute ==
    /\ since \in 0..(Cooldown - 1)
    /\ since' = since + 1
    /\ UNCHANGED <<agentVars, signal, termVars, scan, loopAt, alerts>>

-----------------------------------------------------------------------------
(* Notifier *)

ShouldNotify(age) == age \in {Never, Cooldown}
Alert(about, behind, age) == [about |-> about, behind |-> behind, age |-> age]

\* NotifyWaiting while the state is locked.  Its check and its entry are taken as one
\* step: the loop's, without the lock, are two, and may lie around it.
NotifyWaiting(about, behind, age) ==
    IF ShouldNotify(age) THEN /\ since' = 0
                              /\ alerts' = alerts \cup {Alert(about, behind, age)}
                         ELSE /\ since' = age
                              /\ UNCHANGED alerts

-----------------------------------------------------------------------------
(* The terminal: finding its session, its log, its permission file *)

\* handleSessionFound: the session ID is known.
SessionFound ==
    /\ phase = "launched" /\ phase' = "found"
    /\ UNCHANGED <<agentVars, signal, first, handed, term, scan, since, loopAt, alerts>>
\* waitForLogCmd: the watcher starts behind what is in the log.
NewWatcher ==
    /\ phase = "found" /\ phase' = "sized" /\ handed' = Len(log) /\ first' = Len(log)
    /\ UNCHANGED <<agentVars, signal, term, scan, since, loopAt, alerts>>
\* handleWatcherReady: an Unknown state is that of the last record; Waiting is told.
WatcherReady ==
    /\ phase = "sized" /\ phase' = "ready"
    /\ term' = IF term.state = "Unknown" /\ log # <<>> THEN Last(log) ELSE term
    /\ IF term'.state = "Waiting" THEN NotifyWaiting(term'.question, handed, since)
                                  ELSE UNCHANGED <<since, alerts>>
    /\ UNCHANGED <<agentVars, signal, first, handed, scan, loopAt>>

\* Bug for comparison: the file of a permission that is over stays.
HandleKeepsFile(s, i) ==
    LET e == log[i]
        permitted == s.term.state = "Permission"
        new == e.state = "Waiting" /\ s.term.question # e.question
        waits == e.state = "Waiting" /\ (s.term.state # "Waiting" \/ new)
        age == IF permitted \/ new \/ e.state = "Working" THEN Never ELSE s.since
        sent == waits /\ ShouldNotify(age)
    IN [term |-> [state |-> e.state,
                  question |-> IF e.state = "Streaming" THEN s.term.question ELSE e.question],
        signal |-> s.signal,
        since |-> IF sent THEN 0 ELSE age,
        alerts |-> s.alerts \cup IF sent THEN {Alert(e.question, i, age)} ELSE {}]
\* Bug for comparison: a new question falls under the cooldown of the last.
HandleKeepsCooldown(s, i) ==
    LET e == log[i]
        permitted == s.term.state = "Permission"
        new == e.state = "Waiting" /\ s.term.question # e.question
        waits == e.state = "Waiting" /\ (s.term.state # "Waiting" \/ new)
        age == IF permitted \/ e.state = "Working" THEN Never ELSE s.since
        sent == waits /\ ShouldNotify(age)
    IN [term |-> [state |-> e.state,
                  question |-> IF e.state = "Streaming" THEN s.term.question ELSE e.question],
        signal |-> s.signal /\ ~permitted,
        since |-> IF sent THEN 0 ELSE age,
        alerts |-> s.alerts \cup IF sent THEN {Alert(e.question, i, age)} ELSE {}]
\* Bug for comparison: work does not end the cooldown.
HandleWorkKeepsCooldown(s, i) ==
    LET e == log[i]
        permitted == s.term.state = "Permission"
        new == e.state = "Waiting" /\ s.term.question # e.question
        waits == e.state = "Waiting" /\ (s.term.state # "Waiting" \/ new)
        age == IF permitted \/ new THEN Never ELSE s.since
        sent == waits /\ ShouldNotify(age)
    IN [term |-> [state |-> e.state,
                  question |-> IF e.state = "Streaming" THEN s.term.question ELSE e.question],
        signal |-> s.signal /\ ~permitted,
        since |-> IF sent THEN 0 ELSE age,
        alerts |-> s.alerts \cup IF sent THEN {Alert(e.question, i, age)} ELSE {}]

\* One record in handleAgentEvent.  A state that follows a permission removes its file
\* and the cooldown; so does a new question or work, as to the cooldown.
HandleRecord(s, i) ==
    LET e == log[i]
        permitted == s.term.state = "Permission"
        new == e.state = "Waiting" /\ s.term.question # e.question
        waits == e.state = "Waiting" /\ (s.term.state # "Waiting" \/ new)
        age == IF permitted \/ new \/ e.state = "Working" THEN Never ELSE s.since
        sent == waits /\ ShouldNotify(age)
    IN [term |-> [state |-> e.state,
                  question |-> IF e.state = "Streaming" THEN s.term.question ELSE e.question],
        signal |-> s.signal /\ ~permitted,
        since |-> IF sent THEN 0 ELSE age,
        alerts |-> s.alerts \cup IF sent THEN {Alert(e.question, i, age)} ELSE {}]

\* Bug for comparison: one record is taken for handed that is not.
AgentEventAhead(to) ==
    /\ phase = "ready" /\ to \in (handed + 1)..Len(log)
    /\ Clients = 1 => scan = "idle"
    /\ LET s == FoldLeft(HandleRecord,
                         [term |-> term, signal |-> signal, since |-> since, alerts |-> alerts],
                         [k \in 1..(to - handed) |-> handed + k])
       IN term' = s.term /\ signal' = s.signal /\ since' = s.since /\ alerts' = s.alerts
    /\ handed' = to + 1
    /\ UNCHANGED <<agentVars, phase, first, scan, loopAt>>

\* A batch of records, while no other work of the one client runs.
AgentEvent(to) ==
    /\ phase = "ready" /\ to \in (handed + 1)..Len(log)
    /\ Clients = 1 => scan = "idle"
    /\ LET s == FoldLeft(HandleRecord,
                         [term |-> term, signal |-> signal, since |-> since, alerts |-> alerts],
                         [k \in 1..(to - handed) |-> handed + k])
       IN term' = s.term /\ signal' = s.signal /\ since' = s.since /\ alerts' = s.alerts
    /\ handed' = to
    /\ UNCHANGED <<agentVars, phase, first, scan, loopAt>>

\* checkPermissionSignals reads the files before it locks the state, ...
ReadSignals ==
    /\ scan = "idle" /\ signal
    /\ scan' = "read"
    /\ UNCHANGED <<agentVars, signal, termVars, since, loopAt, alerts>>
\* Bug for comparison: the state of a terminal that was told of anything is kept.
MatchOnce ==
    /\ scan = "read"
    /\ scan' = IF phase = "launched" THEN "stale" ELSE "idle"
    /\ IF phase = "launched" \/ since # Never THEN UNCHANGED <<term, since, alerts>>
       ELSE /\ term' = [term EXCEPT !.state = "Permission"]
            /\ NotifyWaiting("permission", handed, since)
    /\ UNCHANGED <<agentVars, signal, phase, first, handed, loopAt>>
\* ... gives the state to the terminal of the session, ...
MatchSignal ==
    /\ scan = "read"
    /\ IF phase = "launched" THEN scan' = "stale" /\ UNCHANGED <<term, since, alerts>>
       ELSE /\ scan' = "idle"
            /\ IF term.state = "Permission" THEN UNCHANGED <<term, since, alerts>>
               ELSE /\ term' = [term EXCEPT !.state = "Permission"]
                    /\ NotifyWaiting("permission", handed, since)
    /\ UNCHANGED <<agentVars, signal, phase, first, handed, loopAt>>
\* ... and removes the file of a session it does not know.
RemoveStale ==
    /\ scan = "stale" /\ scan' = "idle" /\ signal' = FALSE
    /\ UNCHANGED <<agentVars, termVars, since, loopAt, alerts>>

\* checkSessionLiveness: the process is gone.
SessionEnded ==
    /\ agent = "gone" /\ phase # "launched" /\ term.state # "Ended"
    /\ Clients = 1 => scan = "idle"
    /\ term' = [state |-> "Ended", question |-> NoText]
    /\ signal' = FALSE
    /\ UNCHANGED <<agentVars, phase, first, handed, scan, since, loopAt, alerts>>

-----------------------------------------------------------------------------
(* The loop: NotifyWaiting after the state was unlocked *)

NeedsHuman ==
    /\ Loop /\ loopAt = "idle" /\ loopAt' = "unlocked"
    /\ UNCHANGED <<agentVars, signal, termVars, scan, since, alerts>>
LoopAsks ==
    /\ loopAt = "unlocked"
    /\ loopAt' = IF ShouldNotify(since) THEN "allowed" ELSE "suppressed"
    /\ UNCHANGED <<agentVars, signal, termVars, scan, since, alerts>>
LoopSends ==
    /\ loopAt = "allowed" /\ loopAt' = "sent"
    /\ since' = 0
    /\ alerts' = alerts \cup {Alert("loop", handed, since)}
    /\ UNCHANGED <<agentVars, signal, termVars, scan>>

-----------------------------------------------------------------------------
Agent == Talk \/ (\E q \in Questions : Ask(q)) \/ Reply \/ UseTool \/ RunTool \/ NeedPermission \/ Decide \/ Exit
Watching == SessionFound \/ NewWatcher \/ WatcherReady \/ (\E to \in 1..Writes : AgentEvent(to))
Ticks == ReadSignals \/ MatchSignal \/ RemoveStale
LoopStep == NeedsHuman \/ LoopAsks \/ LoopSends

Next == Agent \/ Minute \/ Watching \/ Ticks \/ SessionEnded \/ LoopStep

Spec == Init /\ [][Next]_vars
\* Ticks come, watchers hand out what is there and time goes on; agent, user and loop
\* promise nothing.
FairSpec == Spec /\ WF_vars(Minute) /\ WF_vars(Watching) /\ WF_vars(Ticks) /\ WF_vars(SessionEnded)

-----------------------------------------------------------------------------
(* Properties *)

\* The kinds of the variables; a record is handed out at most once.
AlertsTypeOK ==
    /\ agent \in {"works", "asks", "tool", "permission", "gone"}
    /\ log \in Seq([state : {"Working", "Streaming", "Waiting"}, question : Questions])
    /\ signal \in BOOLEAN /\ handed \in 0..Len(log)
    /\ phase \in {"launched", "found", "sized", "ready"}
    /\ term.state \in {"Unknown", "Working", "Streaming", "Waiting", "Permission", "Ended"}
    /\ term.question \in Questions
    /\ scan \in {"idle", "read", "stale"} /\ since \in {Never} \cup 0..Cooldown
    /\ loopAt \in {"idle", "unlocked", "allowed", "sent", "suppressed"}

\* Was something told to the user, and has nobody worked since?
Told(about, i) ==
    \E a \in alerts : /\ a.about = about /\ a.behind <= i
                      /\ \A j \in (a.behind + 1)..(i - 1) : log[j].state # "Working"

\* No question is passed over: when one has been handed out, the user was told of it,
\* or of the same text with no work since; the cooldown of an earlier question or of a
\* permission does not silence it, nor does a watcher that starts late.  (A record that
\* is handled after the end of the process was noticed may fall silent.)
QuestionsAlerted ==
    agent # "gone" =>
        \A i \in (first + 1)..handed : log[i].state = "Waiting" => Told(log[i].question, i)

\* A permission that the terminal list shows was told to the user as well, although
\* the cooldown of the question before it may still run.
PermissionAlerted == term.state = "Permission" => Told("permission", handed + 1)

\* The user decided, the record that follows is handed and no check of the files is
\* under way: the permission is neither shown nor will the next check find its file.
StateRestored ==
    (phase = "ready" /\ agent \in {"works", "asks"} /\ scan = "idle"
     /\ handed > 0 /\ handed = Len(log) /\ Last(log).state # "Working")
    => term.state # "Permission" /\ ~signal

\* An agent that needs a permission is shown so, unless the user was faster or it ends.
PermissionIsShown ==
    (agent = "permission" /\ phase = "ready")
        ~> (term.state = "Permission" \/ agent # "permission")

\* The user who does not answer is told again after the cooldown.
ReminderSent ==
    (agent = "asks" /\ term.state = "Waiting" /\ since = Cooldown)
        ~> (since # Cooldown \/ agent # "asks")

\* What the loop cannot go on with without a human is told.
NeedsHumanIsAlerted == loopAt # "suppressed"

\* A second notification under one key within the cooldown is suppressed.
CooldownKept == \A a \in alerts : ShouldNotify(a.age)

=============================================================================
