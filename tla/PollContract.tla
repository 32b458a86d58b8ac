----------------------------- MODULE PollContract -----------------------------
(***************************************************************************)
(* What one poll of the loop promises: the eligible issues are those the   *)
(* tracker listed as todo whose dependencies are closed.  The tracker      *)
(* changes while the poll reads it, so an issue whose dependencies were    *)
(* closed all the time is eligible, one of which a dependency was never    *)
(* closed is not, and of the others the poll may say either.               *)
(***************************************************************************)
CONSTANTS Issues, NoAnswer

VARIABLES
    wanted,     \* wanted[i]: the dependencies of issue i
    todo,       \* open issues with the todo label
    closed,
    listed,     \* the issues the poll listed
    always,     \* issues closed during all of the poll
    ever,       \* issues closed at some time of the poll
    unread,     \* issues of which a dependency could not be read
    answer

contractVars == <<wanted, todo, closed, listed, always, ever, unread, answer>>

Init ==
    /\ wanted \in [Issues -> SUBSET Issues]
    /\ todo \in SUBSET Issues /\ closed \in SUBSET (Issues \ todo)
    /\ listed = {} /\ always = {} /\ ever = {} /\ unread = {}
    /\ answer = NoAnswer

\* People and agents relabel, close and reopen issues.
Edit ==
    /\ todo' \in SUBSET Issues /\ closed' \in SUBSET (Issues \ todo')
    /\ always' = always \cap closed'
    /\ ever' = ever \cup closed'
    /\ UNCHANGED <<wanted, listed, unread, answer>>

Begin ==
    /\ listed' = todo
    /\ always' = closed /\ ever' = closed
    /\ unread' = {} /\ answer' = NoAnswer
    /\ UNCHANGED <<wanted, todo, closed>>

ReadFails(i) ==
    /\ i \in listed
    /\ unread' = unread \cup {i}
    /\ UNCHANGED <<wanted, todo, closed, listed, always, ever, answer>>

Must == {i \in listed \ unread : wanted[i] \subseteq always}
May  == {i \in listed : wanted[i] \subseteq ever}

Answer ==
    /\ answer = NoAnswer
    /\ answer' \in SUBSET Issues
    /\ Must \subseteq answer' /\ answer' \subseteq May
    /\ UNCHANGED <<wanted, todo, closed, listed, always, ever, unread>>

Next == Edit \/ Begin \/ (\E i \in Issues : ReadFails(i)) \/ Answer

Spec == Init /\ [][Next]_contractVars

===============================================================================
