------------------------------ MODULE Approval ------------------------------
(* What the hook and the makepkg guard promise together, per package         *)
(* directory: a package is built only after the review of its transaction    *)
(* was accepted and recorded, and is installed only after a build the guard  *)
(* let through.                                                              *)
CONSTANT Packages

VARIABLES
  stage,     \* how far each package has come
  recorded   \* the accepted review is in the audit log
vars == <<stage, recorded>>

Stages == {"unreviewed", "approved", "built", "installed"}

Init ==
  /\ stage = [p \in Packages |-> "unreviewed"]
  /\ recorded = FALSE

Approve(p) ==
  /\ stage[p] = "unreviewed" /\ ~recorded
  /\ stage' = [stage EXCEPT ![p] = "approved"]
  /\ UNCHANGED recorded

(* Only a review that approved every package is recorded as accepted.        *)
Record ==
  /\ \A p \in Packages : stage[p] = "approved"
  /\ recorded' = TRUE
  /\ UNCHANGED stage

Build(p) ==
  /\ recorded /\ stage[p] = "approved"
  /\ stage' = [stage EXCEPT ![p] = "built"]
  /\ UNCHANGED recorded

(* A later build of the same package may fail.                               *)
Fail(p) ==
  /\ stage[p] = "built"
  /\ stage' = [stage EXCEPT ![p] = "approved"]
  /\ UNCHANGED recorded

Install(p) ==
  /\ stage[p] = "built"
  /\ stage' = [stage EXCEPT ![p] = "installed"]
  /\ UNCHANGED recorded

Next ==
  \/ Record
  \/ \E p \in Packages : Approve(p) \/ Build(p) \/ Fail(p) \/ Install(p)

Spec == Init /\ [][Next]_vars
=============================================================================
