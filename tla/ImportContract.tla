---------------------------- MODULE ImportContract ----------------------------
(***************************************************************************)
(* What importing session bundles promises to the owner of the destination *)
(* directories: a session file that is there is replaced only by a bundle  *)
(* the user has agreed to see there, and nothing else changes it.          *)
(***************************************************************************)
CONSTANTS Dests, Bundles, Sessions

VARIABLES
    store,      \* store[d][s]: whose session file lies in d: "absent",
                \* "local", a bundle, or "torn" when a write broke off
    agreed      \* the replacements <<d, b, s>> the user agrees to

contractVars == <<store, agreed>>

Agreements == Dests \X Bundles \X Sessions

Init ==
    /\ store \in [Dests -> [Sessions -> {"absent", "local"}]]
    /\ agreed = {}

\* The user changes their mind about replacements, one way or the other.
Decide ==
    /\ agreed' \in SUBSET Agreements
    /\ UNCHANGED store

\* A file of a bundle is written, or is begun and left torn.
Write(d, b, s) ==
    /\ store[d][s] # "absent" => <<d, b, s>> \in agreed
    /\ \E content \in {b, "torn"} : store' = [store EXCEPT ![d][s] = content]
    /\ UNCHANGED agreed

\* An agent opens a session in a directory where it had none.
Appear(d, s) ==
    /\ store[d][s] = "absent"
    /\ store' = [store EXCEPT ![d][s] = "local"]
    /\ UNCHANGED agreed

Next ==
    \/ Decide
    \/ \E d \in Dests, s \in Sessions : Appear(d, s)
    \/ \E d \in Dests, b \in Bundles, s \in Sessions : Write(d, b, s)

Spec == Init /\ [][Next]_contractVars

===============================================================================
