--------------------------- MODULE CanaryCacheProofs ---------------------------
(* What the canary vouches for, for any number of callers, executables and   *)
(* upgrades.  The invariant follows an executable from the moment a call has *)
(* hashed it: until the fixture is run, the one under the path is the same   *)
(* or an upgrade has overtaken the call (Inspected), and after it the hashed *)
(* one has passed with the same exception.                                   *)
EXTENDS CanaryCache, TLAPS

Good == passed \cup raced \cup {None}

Inspected ==
  \A c \in Callers :
    /\ pc[c] = "ready" => result[c] = "none"
    /\ pc[c] \in {"lookup", "fixture"} => inspected[c] \in {installed} \cup raced
    /\ pc[c] = "store" => inspected[c] \in Good
    /\ result[c] = "ok" => inspected[c] \in Good

IInv == TypeOK /\ Inspected /\ cache \in Good

USE DEF Gone, Good

(* Every step keeps the variables in their types.                            *)
LEMMA StepTypeOK == IInv /\ [Next]_vars => TypeOK'
<1> SUFFICES ASSUME TypeOK, Inspected, [Next]_vars PROVE TypeOK'
  BY DEF IInv
<1> USE CanaryAssumption DEF TypeOK
<1>1. CASE UNCHANGED vars
  BY <1>1 DEF vars
<1>2. CASE Upgrade
  <2>1. raced' \in SUBSET Executables
    BY <1>2 DEF Upgrade, Inspected
  <2> QED
    BY <1>2, <2>1 DEF Upgrade
<1>3. ASSUME NEW c \in Callers, Inspect(c) \/ LookUp(c) \/ RunFixture(c)
      PROVE  TypeOK'
  <2>1. CASE Inspect(c)
    BY <2>1 DEF Inspect, Goto, Return
  <2>2. CASE LookUp(c)
    BY <2>2 DEF LookUp, Goto, Return
  <2>3. CASE RunFixture(c)
    BY <2>3 DEF RunFixture, Goto, Return
  <2> QED
    BY <1>3, <2>1, <2>2, <2>3
<1>4. ASSUME NEW c \in Callers, Store(c) \/ Kill(c)
      PROVE  TypeOK'
  BY <1>4 DEF Store, Kill, Return
<1> QED
  BY <1>1, <1>2, <1>3, <1>4 DEF Next

(* Every step keeps what is known of a hashed executable.                    *)
LEMMA StepInspected == IInv /\ [Next]_vars => Inspected' /\ (cache \in Good)'
<1> SUFFICES ASSUME IInv, [Next]_vars PROVE Inspected' /\ (cache \in Good)'
  OBVIOUS
<1> USE CanaryAssumption DEF IInv, TypeOK, Inspected
<1>1. CASE UNCHANGED vars
  BY <1>1 DEF vars
<1>2. CASE Upgrade
  BY <1>2 DEF Upgrade
<1>3. ASSUME NEW c \in Callers, Inspect(c)
      PROVE  Inspected' /\ (cache \in Good)'
  BY <1>3 DEF Inspect, Goto, Return
<1>4. ASSUME NEW c \in Callers, LookUp(c)
      PROVE  Inspected' /\ (cache \in Good)'
  BY <1>4 DEF LookUp, Goto, Return
<1>5. ASSUME NEW c \in Callers, RunFixture(c)
      PROVE  Inspected' /\ (cache \in Good)'
  BY <1>5 DEF RunFixture, Goto, Return
<1>6. ASSUME NEW c \in Callers, Store(c) \/ Kill(c)
      PROVE  Inspected' /\ (cache \in Good)'
  BY <1>6 DEF Store, Kill, Return
<1> QED
  BY <1>1, <1>2, <1>3, <1>4, <1>5, <1>6 DEF Next

LEMMA Invariance == Spec => []IInv
<1>1. Init => IInv
  BY CanaryAssumption DEF Init, IInv, TypeOK, Inspected
<1>2. IInv /\ [Next]_vars => IInv'
  BY StepTypeOK, StepInspected DEF IInv
<1> QED
  BY <1>1, <1>2, PTL DEF Spec

(* The variables of the canary keep to their types.                          *)
THEOREM TypeCorrect == Spec => []TypeOK
<1>1. IInv => TypeOK
  BY DEF IInv
<1> QED
  BY Invariance, <1>1, PTL

(* What the cache holds, and what a call returns for, has passed the fixture *)
(* unless an upgrade overtook a call.                                        *)
THEOREM Vouched == Spec => []VouchedHasPassed
<1>1. IInv => VouchedHasPassed
  BY DEF IInv, Inspected, VouchedHasPassed
<1> QED
  BY Invariance, <1>1, PTL
===============================================================================
