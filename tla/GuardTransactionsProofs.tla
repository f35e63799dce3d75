----------------------- MODULE GuardTransactionsProofs -----------------------
(* The safety of guarded transactions, for any number of wrappers, any lock  *)
(* files and any number of killed wrappers.                                  *)
(*                                                                           *)
(* IInv strengthens the invariants the runs check: the holder of a lock file *)
(* is the wrapper between flock and close (HolderOwns); yay runs only in a   *)
(* wrapper's wait, or after its wrapper was killed (YayIsWaitedFor); a       *)
(* session directory exists from its creation to its removal (SessionSpan);  *)
(* and a status is reported last (StatusLast).                               *)
EXTENDS GuardTransactions, TLAPS

HolderOwns == \A w \in Wrappers : pc[w] \in Locked <=> holder[LockOf[w]] = w

BeforeYay == {"ready", "lock", "canary", "parent", "session", "prepare", "launch"}
WithSession == {"prepare", "launch", "wait", "audit"}

YayIsWaitedFor ==
  \A w \in Wrappers :
    /\ pc[w] \in BeforeYay => yay[w] = "none"
    /\ pc[w] = "audit" => yay[w] = "exited"
    /\ yay[w] = "running" => pc[w] \in {"wait", "killed"} /\ w \in sessions
    /\ w \in work => yay[w] \in {"running", "killed"}

SessionSpan ==
  \A w \in Wrappers :
    /\ pc[w] \in WithSession => w \in sessions
    /\ w \in sessions =>
         \/ pc[w] \in WithSession \cup {"cleanup", "killed"}
         \/ pc[w] \in {"unlock", "ended"} /\ result[w] = "error"

StatusLast ==
  \A w \in Wrappers : result[w] = "status" =>
    /\ pc[w] \in {"cleanup", "unlock", "ended", "killed"}
    /\ w \in recorded /\ yay[w] = "exited"

IInv == TypeOK /\ HolderOwns /\ YayIsWaitedFor /\ SessionSpan /\ StatusLast

USE DEF Stages, Locked, Gone

(* The initial states satisfy the invariant.                                 *)
LEMMA InitIInv == Init => IInv
  BY TransactionsAssumption
  DEF Init, IInv, TypeOK, HolderOwns, YayIsWaitedFor, SessionSpan, StatusLast,
      BeforeYay, WithSession

(* Every step keeps the variables in their types.                            *)
LEMMA StepTypeOK == TypeOK /\ [Next]_vars => TypeOK'
<1> SUFFICES ASSUME TypeOK, [Next]_vars PROVE TypeOK'
  OBVIOUS
<1> USE TransactionsAssumption DEF TypeOK
<1>1. CASE UNCHANGED vars
  BY <1>1 DEF vars
<1>2. ASSUME NEW w \in Wrappers, WrapperRuns(w)
      PROVE  TypeOK'
  <2>1. CASE Begin(w) \/ TryLock(w)
    BY <2>1 DEF Begin, TryLock, Goto, Fail
  <2>2. CASE Canary(w) \/ Parent(w)
    BY <2>2 DEF Canary, Parent, Goto, Fail
  <2>3. CASE MakeSession(w) \/ Prepare(w)
    BY <2>3 DEF MakeSession, Prepare, Goto, Fail
  <2>4. CASE Launch(w) \/ YayReturned(w)
    BY <2>4 DEF Launch, YayReturned, Goto, Fail
  <2>5. CASE Audit(w)
    BY <2>5 DEF Audit, Fail
  <2>6. CASE Cleanup(w) \/ Unlock(w)
    BY <2>6 DEF Cleanup, Unlock, Goto, Fail
  <2> QED
    BY <1>2, <2>1, <2>2, <2>3, <2>4, <2>5, <2>6 DEF WrapperRuns
<1>3. ASSUME NEW w \in Wrappers, Interrupt(w)
      PROVE  TypeOK'
  BY <1>3 DEF Interrupt
<1>4. ASSUME NEW w \in Wrappers, Kill(w)
      PROVE  TypeOK'
  BY <1>4 DEF Kill
<1>5. ASSUME NEW w \in Wrappers, YayRuns(w)
      PROVE  TypeOK'
  BY <1>5 DEF YayRuns, WorkStarts, WorkEnds, YayExits
<1> QED
  BY <1>1, <1>2, <1>3, <1>4, <1>5 DEF Next

(* The holder of a lock file is the wrapper between flock and close.         *)
LEMMA StepHolderOwns == IInv /\ [Next]_vars => HolderOwns'
<1> SUFFICES ASSUME IInv, [Next]_vars PROVE HolderOwns'
  OBVIOUS
<1> USE TransactionsAssumption
    DEF IInv, TypeOK, HolderOwns
<1>1. CASE UNCHANGED vars
  BY <1>1 DEF vars
<1>2. ASSUME NEW w \in Wrappers, WrapperRuns(w)
      PROVE  HolderOwns'
  <2>1. CASE Begin(w)
    BY <2>1 DEF Begin, Goto, Fail
  <2>2. CASE TryLock(w)
    BY <2>2 DEF TryLock, Goto, Fail
  <2>3. CASE Canary(w) \/ Parent(w)
    BY <2>3 DEF Canary, Parent, Goto, Fail
  <2>4. CASE MakeSession(w)
    BY <2>4 DEF MakeSession, Goto, Fail
  <2>5. CASE Prepare(w)
    BY <2>5 DEF Prepare, Goto, Fail
  <2>6. CASE Launch(w)
    BY <2>6 DEF Launch, Goto, Fail
  <2>7. CASE YayReturned(w)
    BY <2>7 DEF YayReturned, Goto, Fail
  <2>8. CASE Audit(w)
    BY <2>8 DEF Audit, Fail
  <2>9. CASE Cleanup(w)
    BY <2>9 DEF Cleanup, Goto, Fail
  <2>10. CASE Unlock(w)
    BY <2>10 DEF Unlock, Goto, Fail
  <2> QED
    BY <1>2, <2>1, <2>2, <2>3, <2>4, <2>5, <2>6, <2>7, <2>8, <2>9, <2>10
    DEF WrapperRuns
<1>3. ASSUME NEW w \in Wrappers, Interrupt(w)
      PROVE  HolderOwns'
  BY <1>3 DEF Interrupt
<1>4. ASSUME NEW w \in Wrappers, Kill(w)
      PROVE  HolderOwns'
  BY <1>4 DEF Kill
<1>5. ASSUME NEW w \in Wrappers, YayRuns(w)
      PROVE  HolderOwns'
  BY <1>5 DEF YayRuns, WorkStarts, WorkEnds, YayExits
<1> QED
  BY <1>1, <1>2, <1>3, <1>4, <1>5 DEF Next

(* yay runs while its wrapper waits for it, or after this was killed.        *)
LEMMA StepYayIsWaitedFor == IInv /\ [Next]_vars => YayIsWaitedFor'
<1> SUFFICES ASSUME IInv, [Next]_vars PROVE YayIsWaitedFor'
  OBVIOUS
<1> USE TransactionsAssumption
    DEF IInv, TypeOK, YayIsWaitedFor, SessionSpan, BeforeYay, WithSession
<1>1. CASE UNCHANGED vars
  BY <1>1 DEF vars
<1>2. ASSUME NEW w \in Wrappers, WrapperRuns(w)
      PROVE  YayIsWaitedFor'
  <2>1. CASE Begin(w)
    BY <2>1 DEF Begin, Goto, Fail
  <2>2. CASE TryLock(w)
    BY <2>2 DEF TryLock, Goto, Fail
  <2>3. CASE Canary(w) \/ Parent(w)
    BY <2>3 DEF Canary, Parent, Goto, Fail
  <2>4. CASE MakeSession(w)
    BY <2>4 DEF MakeSession, Goto, Fail
  <2>5. CASE Prepare(w)
    BY <2>5 DEF Prepare, Goto, Fail
  <2>6. CASE Launch(w)
    BY <2>6 DEF Launch, Goto, Fail
  <2>7. CASE YayReturned(w)
    BY <2>7 DEF YayReturned, Goto, Fail
  <2>8. CASE Audit(w)
    BY <2>8 DEF Audit, Fail
  <2>9. CASE Cleanup(w)
    BY <2>9 DEF Cleanup, Goto, Fail
  <2>10. CASE Unlock(w)
    BY <2>10 DEF Unlock, Goto, Fail
  <2> QED
    BY <1>2, <2>1, <2>2, <2>3, <2>4, <2>5, <2>6, <2>7, <2>8, <2>9, <2>10
    DEF WrapperRuns
<1>3. ASSUME NEW w \in Wrappers, Interrupt(w)
      PROVE  YayIsWaitedFor'
  BY <1>3 DEF Interrupt
<1>4. ASSUME NEW w \in Wrappers, Kill(w)
      PROVE  YayIsWaitedFor'
  BY <1>4 DEF Kill
<1>5. ASSUME NEW w \in Wrappers, YayRuns(w)
      PROVE  YayIsWaitedFor'
  BY <1>5 DEF YayRuns, WorkStarts, WorkEnds, YayExits
<1> QED
  BY <1>1, <1>2, <1>3, <1>4, <1>5 DEF Next

(* A session directory lives from its creation to its removal.               *)
LEMMA StepSessionSpan == IInv /\ [Next]_vars => SessionSpan'
<1> SUFFICES ASSUME IInv, [Next]_vars PROVE SessionSpan'
  OBVIOUS
<1> USE TransactionsAssumption
    DEF IInv, TypeOK, SessionSpan, StatusLast, WithSession
<1>1. CASE UNCHANGED vars
  BY <1>1 DEF vars
<1>2. ASSUME NEW w \in Wrappers, WrapperRuns(w)
      PROVE  SessionSpan'
  <2>1. CASE Begin(w)
    BY <2>1 DEF Begin, Goto, Fail
  <2>2. CASE TryLock(w)
    BY <2>2 DEF TryLock, Goto, Fail
  <2>3. CASE Canary(w) \/ Parent(w)
    BY <2>3 DEF Canary, Parent, Goto, Fail
  <2>4. CASE MakeSession(w)
    BY <2>4 DEF MakeSession, Goto, Fail
  <2>5. CASE Prepare(w)
    BY <2>5 DEF Prepare, Goto, Fail
  <2>6. CASE Launch(w)
    BY <2>6 DEF Launch, Goto, Fail
  <2>7. CASE YayReturned(w)
    BY <2>7 DEF YayReturned, Goto, Fail
  <2>8. CASE Audit(w)
    BY <2>8 DEF Audit, Fail
  <2>9. CASE Cleanup(w)
    BY <2>9 DEF Cleanup, Goto, Fail
  <2>10. CASE Unlock(w)
    BY <2>10 DEF Unlock, Goto, Fail
  <2> QED
    BY <1>2, <2>1, <2>2, <2>3, <2>4, <2>5, <2>6, <2>7, <2>8, <2>9, <2>10
    DEF WrapperRuns
<1>3. ASSUME NEW w \in Wrappers, Interrupt(w)
      PROVE  SessionSpan'
  BY <1>3 DEF Interrupt
<1>4. ASSUME NEW w \in Wrappers, Kill(w)
      PROVE  SessionSpan'
  BY <1>4 DEF Kill
<1>5. ASSUME NEW w \in Wrappers, YayRuns(w)
      PROVE  SessionSpan'
  BY <1>5 DEF YayRuns, WorkStarts, WorkEnds, YayExits
<1> QED
  BY <1>1, <1>2, <1>3, <1>4, <1>5 DEF Next

(* A status is the last thing a wrapper comes by.                            *)
LEMMA StepStatusLast == IInv /\ [Next]_vars => StatusLast'
<1> SUFFICES ASSUME IInv, [Next]_vars PROVE StatusLast'
  OBVIOUS
<1> USE TransactionsAssumption
    DEF IInv, TypeOK, StatusLast, YayIsWaitedFor, BeforeYay
<1>1. CASE UNCHANGED vars
  BY <1>1 DEF vars
<1>2. ASSUME NEW w \in Wrappers, WrapperRuns(w)
      PROVE  StatusLast'
  <2>1. CASE Begin(w)
    BY <2>1 DEF Begin, Goto, Fail
  <2>2. CASE TryLock(w)
    BY <2>2 DEF TryLock, Goto, Fail
  <2>3. CASE Canary(w) \/ Parent(w)
    BY <2>3 DEF Canary, Parent, Goto, Fail
  <2>4. CASE MakeSession(w)
    BY <2>4 DEF MakeSession, Goto, Fail
  <2>5. CASE Prepare(w)
    BY <2>5 DEF Prepare, Goto, Fail
  <2>6. CASE Launch(w)
    BY <2>6 DEF Launch, Goto, Fail
  <2>7. CASE YayReturned(w)
    BY <2>7 DEF YayReturned, Goto, Fail
  <2>8. CASE Audit(w)
    BY <2>8 DEF Audit, Fail
  <2>9. CASE Cleanup(w)
    BY <2>9 DEF Cleanup, Goto, Fail
  <2>10. CASE Unlock(w)
    BY <2>10 DEF Unlock, Goto, Fail
  <2> QED
    BY <1>2, <2>1, <2>2, <2>3, <2>4, <2>5, <2>6, <2>7, <2>8, <2>9, <2>10
    DEF WrapperRuns
<1>3. ASSUME NEW w \in Wrappers, Interrupt(w)
      PROVE  StatusLast'
  BY <1>3 DEF Interrupt
<1>4. ASSUME NEW w \in Wrappers, Kill(w)
      PROVE  StatusLast'
  BY <1>4 DEF Kill
<1>5. ASSUME NEW w \in Wrappers, YayRuns(w)
      PROVE  StatusLast'
  BY <1>5 DEF YayRuns, WorkStarts, WorkEnds, YayExits
<1> QED
  BY <1>1, <1>2, <1>3, <1>4, <1>5 DEF Next

(* IInv is an invariant of the specification.                                *)
THEOREM Invariance == Spec => []IInv
<1>1. IInv /\ [Next]_vars => IInv'
  BY StepTypeOK, StepHolderOwns, StepYayIsWaitedFor, StepSessionSpan,
     StepStatusLast
  DEF IInv
<1> QED
  BY InitIInv, <1>1, PTL DEF Spec

(* The variables of guarded transactions keep to their types.                *)
THEOREM TypeCorrect == Spec => []TypeOK
<1>1. IInv => TypeOK
  BY DEF IInv
<1> QED
  BY Invariance, <1>1, PTL

(* The wrappers between a successful flock and the close of its descriptor   *)
(* are the holders, one for a lock file at most (yay.py 281-321, 374, 429).  *)
LockIsExclusive ==
  /\ \A w \in Wrappers : pc[w] \in Locked <=> holder[LockOf[w]] = w
  /\ \A v, w \in Wrappers :
       SameLock(v, w) => ~(pc[v] \in Locked /\ pc[w] \in Locked)

THEOREM MutualExclusion == Spec => []LockIsExclusive
<1>1. IInv => LockIsExclusive
  BY DEF IInv, HolderOwns, LockIsExclusive, SameLock
<1> QED
  BY Invariance, <1>1, PTL

(* Two yay processes under one lock run together only after a wrapper was    *)
(* killed: no error path and no interrupt gives the lock up before yay has   *)
(* ended.                                                                    *)
THEOREM Serial == Spec => []SerialUnlessKilled
<1>1. IInv => SerialUnlessKilled
  BY DEF IInv, HolderOwns, YayIsWaitedFor, SerialUnlessKilled, SameLock
<1> QED
  BY Invariance, <1>1, PTL

(* yay never outlives its private session directory, and such directories of *)
(* live wrappers under one lock never coexist.                               *)
THEOREM SessionsKept == Spec => []SessionsAreKept
<1>1. IInv => SessionsAreKept
  <2>1. IInv => \A w \in Wrappers : yay[w] = "running" => w \in sessions
    BY DEF IInv, YayIsWaitedFor
  <2>2. IInv => \A v, w \in Wrappers :
          SameLock(v, w) /\ v \in sessions /\ w \in sessions =>
            \E u \in {v, w} : pc[u] = "killed"
                                \/ (pc[u] = "ended" /\ result[u] = "error")
    BY DEF IInv, HolderOwns, SessionSpan, WithSession, SameLock
  <2> QED
    BY <2>1, <2>2 DEF SessionsAreKept
<1> QED
  BY Invariance, <1>1, PTL

(* A wrapper that reports yay's status has recorded the terminal event and   *)
(* has left neither a yay nor a session directory behind.                    *)
THEOREM StatusRecorded == Spec => []StatusMeansRecorded
<1>1. IInv => StatusMeansRecorded
  BY DEF IInv, StatusLast, YayIsWaitedFor, SessionSpan, WithSession,
         StatusMeansRecorded
<1> QED
  BY Invariance, <1>1, PTL
=============================================================================
