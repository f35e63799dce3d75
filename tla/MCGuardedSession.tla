-------------------------- MODULE MCGuardedSession --------------------------
(* One or two packages of two files each; the rules find nothing or          *)
(* something critical.                                                       *)
EXTENDS GuardedSession

MCRuleFindings == {"info", "critical"}

(* Bound: every directory starts with one version of every file.             *)
OneVersion == CHOOSE v \in Version : TRUE
MCInit == Init /\ \A r \in Roots : disk[r] = [f \in Files |-> OneVersion]
MCSpec == MCInit /\ [][Next]_vars
MCFairSpec == MCSpec /\ Fairness

CONSTANTS c1, c2, m1, m2, r1, r2
OneRoot == {r1}
TwoRoots == {r1, r2}
=============================================================================
