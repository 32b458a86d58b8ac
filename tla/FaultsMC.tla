------------------------------- MODULE FaultsMC -------------------------------
(* LoopEngine with what may go wrong, for TLC: a session over SSH that ends or *)
(* whose screen an error covers, requests that are slow, a program that ends   *)
(* or a loop that is stopped and started once more, a review that asks for     *)
(* changes, a second client that starts the loop beside the first.  To keep    *)
(* the behaviours few, faults of the three kinds below do not meet, and few    *)
(* requests that read the tracker are on their way at once.                    *)
EXTENDS LoopMC

NoneIn(state) == \A i \in Issues : slots[i].state # state /\ slots'[i].state # state
Reading(c) == {m \in flight[c] : m.op \in TrackerReads}
\* An agent acts while a request is under way.
Slow == agents' # agents /\ UNCHANGED flight /\ \E c \in Clients : Reading(c) # {}

\* One client uses the loop.
Alone == \A c \in Clients \ Remote : flight'[c] = {}
Undisturbed == \A c \in Clients : gate'[c] = "open"

\* The session over SSH has its faults, after which the tracker may be slow, so that an
\* answer is old; the loop merges.
RemoteFaults ==
    /\ Alone
    /\ budget'.starts > 0 /\ budget'.ends = MaxEnds
    /\ \A i \in Issues : rejected'[i] = 0 /\ prs'[i] # "closed"
    /\ NoneIn("WaitingPRMerge")
    /\ Slow => budget.overlays < MaxOverlays \/ \E c \in Clients : gate[c] = "gone"

\* Listing the worktrees fails, and the handler misses one that is there.
Unlisted == \E i \in wts : /\ slots[i].state = "None"
                           /\ slots'[i].state # "None" /\ slots'[i].wt = NoIssue
\* No step of a pipeline is under way.
Idle == \A c \in Clients : \A m \in flight[c] :
           m.op \notin {"create", "created", "write", "written", "launch", "launched"}

\* The loop ends and starts, a review fails; people merge; worktrees may not be listed
\* once nothing of the first loop is under way.
RestartFaults ==
    /\ Alone /\ Undisturbed
    /\ Unlisted => Idle
    /\ budget'.overlays = MaxOverlays
    /\ NoneIn("AutoMerging")
    /\ ~Slow

\* Both clients press the key while the loop is off, and the check that answers second
\* replaces the loop the first has started, whose commands and timers go on.
OverlappingStarts ==
    /\ Undisturbed
    /\ budget'.starts = 0 /\ budget'.overlays = MaxOverlays /\ budget'.ends = MaxEnds
    /\ \A i \in Issues : rejected'[i] = 0 /\ prs'[i] \in {"none", "open"}
    /\ NoneIn("Reviewing") /\ ~Unlisted /\ ~Slow

FaultsApart ==
    /\ RemoteFaults \/ RestartFaults \/ OverlappingStarts
    /\ \A c \in Clients : Cardinality(Reading(c)') <= 2

===============================================================================
