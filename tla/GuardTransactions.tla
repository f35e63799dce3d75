------------------------- MODULE GuardTransactions -------------------------
(* Concurrent `aur-codex-guard yay` processes of one user:                   *)
(* aur_codex_guard/yay.py run_guarded_yay with _lock_file, the session       *)
(* directory and the terminal audit event.                                   *)
(*                                                                           *)
(* A wrapper takes the transaction lock without waiting, prepares a private  *)
(* session directory, runs yay in it as a child process, records how yay     *)
(* ended, removes the directory and gives the lock up.  The lock is a flock  *)
(* on a descriptor opened with O_CLOEXEC: the kernel drops it when the       *)
(* wrapper is gone, and yay never has it.  Each step may fail; a wrapper may *)
(* be interrupted, or be killed at any time.                                 *)
EXTENDS Naturals, FiniteSets

CONSTANTS
  Wrappers,   \* wrapper processes
  LockFiles,  \* paths a lock may be taken on
  LockOf,     \* the path of each wrapper, from its XDG_RUNTIME_DIR
  Nobody,
  MaxKills    \* bound: wrappers killed without a chance to clean up

ASSUME TransactionsAssumption ==
  /\ LockOf \in [Wrappers -> LockFiles]
  /\ Nobody \notin Wrappers
  /\ MaxKills \in Nat

VARIABLES
  pc,        \* where each wrapper is
  result,    \* what it is about to end with
  holder,    \* who holds the flock on each lock file
  sessions,  \* wrappers whose session directory exists
  yay,       \* the yay process of each wrapper
  work,      \* wrappers whose yay has a makepkg or pacman process
  recorded,  \* wrappers whose terminal event is in the audit log
  kills      \* bound: wrappers killed so far
vars == <<pc, result, holder, sessions, yay, work, recorded, kills>>

Stages == {"ready", "lock", "canary", "parent", "session", "prepare", "launch",
           "wait", "audit", "cleanup", "unlock", "ended", "killed"}
Locked == {"canary", "parent", "session", "prepare", "launch",
           "wait", "audit", "cleanup", "unlock"}
Gone == {"ended", "killed"}

TypeOK ==
  /\ pc \in [Wrappers -> Stages]
  /\ result \in [Wrappers -> {"none", "status", "error", "interrupted"}]
  /\ holder \in [LockFiles -> Wrappers \cup {Nobody}]
  /\ sessions \in SUBSET Wrappers
  /\ yay \in [Wrappers -> {"none", "running", "exited", "killed"}]
  /\ work \in SUBSET Wrappers
  /\ recorded \in SUBSET Wrappers
  /\ kills \in 0 .. MaxKills

Init ==
  /\ pc = [w \in Wrappers |-> "ready"]
  /\ result = [w \in Wrappers |-> "none"]
  /\ holder = [l \in LockFiles |-> Nobody]
  /\ sessions = {}
  /\ yay = [w \in Wrappers |-> "none"]
  /\ work = {} /\ recorded = {}
  /\ kills = 0

---------------------------------------------------------------------------
Goto(w, stage) == pc' = [pc EXCEPT ![w] = stage] /\ UNCHANGED result
Fail(w, stage) ==
  /\ pc' = [pc EXCEPT ![w] = stage]
  /\ result' = [result EXCEPT ![w] = "error"]

(* Validation of the environment (a nested invocation is refused), of the    *)
(* arguments and of the tools, before any lock is taken.                     *)
Begin(w) ==
  /\ pc[w] = "ready"
  /\ Goto(w, "lock") \/ Fail(w, "ended")
  /\ UNCHANGED <<holder, sessions, yay, work, recorded, kills>>

(* Mutants: flock without LOCK_NB; and a lock file that is only opened.      *)
TryLock_Blocking(w) ==
  /\ pc[w] = "lock"
  /\ holder[LockOf[w]] = Nobody
  /\ holder' = [holder EXCEPT ![LockOf[w]] = w]
  /\ Goto(w, "canary")
  /\ UNCHANGED <<sessions, yay, work, recorded, kills>>

TryLock_NoFlock(w) ==
  /\ pc[w] = "lock"
  /\ holder' = [holder EXCEPT ![LockOf[w]] = w]
  /\ Goto(w, "canary")
  /\ UNCHANGED <<sessions, yay, work, recorded, kills>>

(* _lock_file: LOCK_EX | LOCK_NB, or "already running".  An unsafe lock      *)
(* directory is refused as well.                                             *)
TryLock(w) ==
  /\ pc[w] = "lock"
  /\ \/ /\ holder[LockOf[w]] = Nobody
        /\ holder' = [holder EXCEPT ![LockOf[w]] = w]
        /\ Goto(w, "canary")
     \/ Fail(w, "ended") /\ UNCHANGED holder
  /\ UNCHANGED <<sessions, yay, work, recorded, kills>>

(* ensure_codex_canary, then _session_parent_directory: what fails here goes *)
(* straight to the finally clause.                                           *)
Canary(w) ==
  /\ pc[w] = "canary"
  /\ Goto(w, "parent") \/ Fail(w, "unlock")
  /\ UNCHANGED <<holder, sessions, yay, work, recorded, kills>>

Parent(w) ==
  /\ pc[w] = "parent"
  /\ Goto(w, "session") \/ Fail(w, "unlock")
  /\ UNCHANGED <<holder, sessions, yay, work, recorded, kills>>

(* TemporaryDirectory creates the session directory.                         *)
MakeSession(w) ==
  /\ pc[w] = "session"
  /\ \/ Goto(w, "prepare") /\ sessions' = sessions \cup {w}
     \/ Fail(w, "unlock") /\ UNCHANGED sessions
  /\ UNCHANGED <<holder, yay, work, recorded, kills>>

(* Subdirectories, _write_makepkg_config and the environment with its fresh  *)
(* session key: what fails from here on unwinds the with statement.          *)
Prepare(w) ==
  /\ pc[w] = "prepare"
  /\ Goto(w, "launch") \/ Fail(w, "cleanup")
  /\ UNCHANGED <<holder, sessions, yay, work, recorded, kills>>

Launch(w) ==
  /\ pc[w] = "launch"
  /\ \/ Goto(w, "wait") /\ yay' = [yay EXCEPT ![w] = "running"]
     \/ Fail(w, "cleanup") /\ UNCHANGED yay
  /\ UNCHANGED <<holder, sessions, work, recorded, kills>>

(* subprocess.run returns once yay has exited.                               *)
YayReturned(w) ==
  /\ pc[w] = "wait" /\ yay[w] = "exited"
  /\ Goto(w, "audit")
  /\ UNCHANGED <<holder, sessions, yay, work, recorded, kills>>

(* Ctrl-C between flock and the clean-up.  The exception passes through the  *)
(* with statement, if that has been entered, and the finally clause;         *)
(* subprocess.run first kills yay, but none of yay's own children.  Ctrl-C   *)
(* during the clean-up is one of the ways in which Cleanup fails.            *)
Interrupt(w) ==
  /\ pc[w] \in Locked \ {"cleanup", "unlock"}
  /\ yay' = [yay EXCEPT ![w] = IF @ = "running" THEN "killed" ELSE @]
  /\ pc' = [pc EXCEPT ![w] =
       IF @ \in {"canary", "parent", "session"} THEN "unlock" ELSE "cleanup"]
  /\ result' = [result EXCEPT ![w] = "interrupted"]
  /\ UNCHANGED <<holder, sessions, work, recorded, kills>>

(* Mutant: a failure to record the event is only warned about.               *)
Audit_BestEffort(w) ==
  /\ pc[w] = "audit"
  /\ recorded' \in {recorded, recorded \cup {w}}
  /\ pc' = [pc EXCEPT ![w] = "cleanup"]
  /\ result' = [result EXCEPT ![w] = "status"]
  /\ UNCHANGED <<holder, sessions, yay, work, kills>>

(* write_transaction_event: yay's exit status becomes the wrapper's only if  *)
(* the event was recorded.  The wait for audit.lock, which has no limit, is  *)
(* inside this step; that it ends is AppendsEnd of module AuditLog.          *)
Audit(w) ==
  /\ pc[w] = "audit"
  /\ \/ /\ recorded' = recorded \cup {w}
        /\ pc' = [pc EXCEPT ![w] = "cleanup"]
        /\ result' = [result EXCEPT ![w] = "status"]
     \/ Fail(w, "cleanup") /\ UNCHANGED recorded
  /\ UNCHANGED <<holder, sessions, yay, work, kills>>

(* Mutant: the directory is kept when the wrapper did not get to the end.    *)
Cleanup_OnlyOnSuccess(w) ==
  /\ pc[w] = "cleanup"
  /\ Goto(w, "unlock")
  /\ sessions' = IF result[w] = "status" THEN sessions \ {w} ELSE sessions
  /\ UNCHANGED <<holder, yay, work, recorded, kills>>

(* The TemporaryDirectory is removed, or its removal raises.                 *)
Cleanup(w) ==
  /\ pc[w] = "cleanup"
  /\ \/ Goto(w, "unlock") /\ sessions' = sessions \ {w}
     \/ Fail(w, "unlock") /\ UNCHANGED sessions
  /\ UNCHANGED <<holder, yay, work, recorded, kills>>

(* finally: os.close(lock_descriptor).                                       *)
Unlock(w) ==
  /\ pc[w] = "unlock"
  /\ holder' = [holder EXCEPT ![LockOf[w]] = Nobody]
  /\ Goto(w, "ended")
  /\ UNCHANGED <<sessions, yay, work, recorded, kills>>

(* SIGKILL, or the terminal and the session are torn down: nothing of the    *)
(* wrapper runs any more, and the kernel closes its descriptors.             *)
Kill(w) ==
  /\ pc[w] \notin Gone /\ kills < MaxKills
  /\ pc' = [pc EXCEPT ![w] = "killed"]
  /\ holder' = [l \in LockFiles |-> IF holder[l] = w THEN Nobody ELSE holder[l]]
  /\ kills' = kills + 1
  /\ UNCHANGED <<result, sessions, yay, work, recorded>>

---------------------------------------------------------------------------
(* yay, external: it starts makepkg or pacman and waits for it.              *)
WorkStarts(w) ==
  /\ yay[w] = "running" /\ w \notin work
  /\ work' = work \cup {w}
  /\ UNCHANGED <<pc, result, holder, sessions, yay, recorded, kills>>

WorkEnds(w) ==
  /\ w \in work
  /\ work' = work \ {w}
  /\ UNCHANGED <<pc, result, holder, sessions, yay, recorded, kills>>

YayExits(w) ==
  /\ yay[w] = "running" /\ w \notin work
  /\ yay' = [yay EXCEPT ![w] = "exited"]
  /\ UNCHANGED <<pc, result, holder, sessions, work, recorded, kills>>

WrapperRuns(w) ==
  \/ Begin(w) \/ TryLock(w) \/ Canary(w) \/ Parent(w) \/ MakeSession(w)
  \/ Prepare(w) \/ Launch(w) \/ YayReturned(w) \/ Audit(w) \/ Cleanup(w)
  \/ Unlock(w)

YayRuns(w) == WorkStarts(w) \/ WorkEnds(w) \/ YayExits(w)

Next == \E w \in Wrappers : WrapperRuns(w) \/ Interrupt(w) \/ Kill(w) \/ YayRuns(w)

(* A wrapper is a process that runs whenever it can.  Nothing is assumed of  *)
(* yay, which may wait for its user for ever.                                *)
Spec == Init /\ [][Next]_vars
FairSpec == Spec /\ \A w \in Wrappers : WF_vars(WrapperRuns(w))

---------------------------------------------------------------------------
SameLock(v, w) == v # w /\ LockOf[v] = LockOf[w]

(* Two yay processes started under the same lock run together only when the  *)
(* wrapper of one was killed: the lock is otherwise kept until yay has       *)
(* exited or been killed, whatever fails (yay.py 374-429).                   *)
SerialUnlessKilled ==
  \A v, w \in Wrappers :
    SameLock(v, w) /\ yay[v] = "running" /\ yay[w] = "running" =>
      pc[v] = "killed" \/ pc[w] = "killed"

(* yay never outlives its session directory, which holds the receipts and    *)
(* the private destinations.  And session directories of live wrappers under *)
(* one lock never coexist: a directory is gone before the next transaction   *)
(* makes its own, unless its wrapper was killed or could not remove it       *)
(* (yay.py 382-429).                                                         *)
SessionsAreKept ==
  /\ \A w \in Wrappers : yay[w] = "running" => w \in sessions
  /\ \A v, w \in Wrappers :
       SameLock(v, w) /\ v \in sessions /\ w \in sessions =>
         \E u \in {v, w} : pc[u] = "killed"
                             \/ (pc[u] = "ended" /\ result[u] = "error")

(* A wrapper reports yay's status only for a yay that has exited, with the   *)
(* terminal event recorded and the session directory removed (yay.py         *)
(* 420-427).                                                                 *)
StatusMeansRecorded ==
  \A w \in Wrappers : pc[w] = "ended" /\ result[w] = "status" =>
    w \in recorded /\ yay[w] = "exited" /\ w \notin sessions /\ w \notin work

(* A wrapper that has started never waits for another one's transaction: it  *)
(* comes to run yay or ends (yay.py 306, LOCK_NB), and ends once yay has.    *)
(* For the audit log it does wait, as long as others take to append to it.   *)
NeverWaitsForLock ==
  \A w \in Wrappers :
    /\ pc[w] = "lock" ~> pc[w] \in Gone \/ (pc[w] = "wait" /\ yay[w] = "running")
    /\ pc[w] = "wait" /\ yay[w] # "running" ~> pc[w] \in Gone
=============================================================================
