------------------------------ MODULE PendingMC ------------------------------
(* Values of the constants of PendingOps for TLC.                            *)
EXTENDS PendingOps

\* Two projects, and an operation of each sort behind the label check: one that
\* deploys and may ask first, and one that acts at once.
TwoProjects == <<"api", "web">>
OneOfEach == {"clarify", "loop"}

ASSUME PendingConstants == PendingAssumption

=============================================================================
