------------------------------ MODULE AuditLog ------------------------------
(* The append-only audit log: aur_codex_guard/audit.py, _append_event, as    *)
(* called once by each review hook and once by each guarded yay wrapper.     *)
(* Any number of these processes append to one file under a flock that is    *)
(* waited for; a file that has reached its limit is renamed, over the        *)
(* previously renamed one, before the next event.                            *)
(*                                                                           *)
(* A file is the sequence of the writers whose events it holds.  Sizes are   *)
(* counted in events.  How much of its event os.write has written is not     *)
(* looked at, so a write that is cut short is like any other one.            *)
(* What fsync has not covered may be lost with the power, the end first;     *)
(* renames and newly created files are taken to survive.                     *)
EXTENDS Naturals, Sequences, FiniteSets

CONSTANTS
  Writers,    \* processes that append one event each
  Limit,      \* MAX_AUDIT_BYTES, in events
  Nobody,
  MaxCrashes  \* bound: killed processes and power failures

ASSUME AuditAssumption ==
  /\ Limit \in Nat \ {0} /\ Nobody \notin Writers /\ MaxCrashes \in Nat

VARIABLES
  pc,       \* where each writer is
  result,   \* what _append_event will do: return or raise AuditError
  holder,   \* who holds the flock on audit.lock
  log,      \* audit.jsonl
  rotated,  \* audit.jsonl.1
  history,  \* history: every event that reached the log, in order
  crashes   \* bound
vars == <<pc, result, holder, log, rotated, history, crashes>>

File == [events : Seq(Writers), synced : Nat]
Empty == [events |-> << >>, synced |-> 0]

Stages == {"ready", "lock", "check", "rotate", "write", "sync", "close",
           "done", "killed"}
Gone == {"done", "killed"}

TypeOK ==
  /\ pc \in [Writers -> Stages]
  /\ result \in [Writers -> {"none", "ok", "error"}]
  /\ holder \in Writers \cup {Nobody}
  /\ log \in File /\ log.synced <= Len(log.events)
  /\ rotated \in File /\ rotated.synced <= Len(rotated.events)
  /\ history \in Seq(Writers)
  /\ crashes \in 0 .. MaxCrashes

Init ==
  /\ pc = [w \in Writers |-> "ready"]
  /\ result = [w \in Writers |-> "none"]
  /\ holder = Nobody
  /\ log = Empty /\ rotated = Empty
  /\ history = << >> /\ crashes = 0

---------------------------------------------------------------------------
Goto(w, stage) == pc' = [pc EXCEPT ![w] = stage] /\ UNCHANGED result
Raise(w, stage) ==
  /\ pc' = [pc EXCEPT ![w] = stage]
  /\ result' = [result EXCEPT ![w] = "error"]

(* The directory and the lock file are created and checked.                  *)
Begin(w) ==
  /\ pc[w] = "ready"
  /\ Goto(w, "lock") \/ Raise(w, "done")
  /\ UNCHANGED <<holder, log, rotated, history, crashes>>

(* Mutant: the lock file is opened and nothing more.                         *)
Lock_NoFlock(w) ==
  /\ pc[w] = "lock"
  /\ holder' = w
  /\ Goto(w, "check")
  /\ UNCHANGED <<log, rotated, history, crashes>>

(* flock LOCK_EX waits; it fails only when it is interrupted.                *)
Lock(w) ==
  /\ pc[w] = "lock" /\ holder = Nobody
  /\ holder' = w
  /\ Goto(w, "check")
  /\ UNCHANGED <<log, rotated, history, crashes>>

(* The log is checked and its size looked at.                                *)
Check(w) ==
  /\ pc[w] = "check"
  /\ \/ Goto(w, IF Len(log.events) >= Limit THEN "rotate" ELSE "write")
     \/ Raise(w, "close")
  /\ UNCHANGED <<holder, log, rotated, history, crashes>>

(* os.replace: the log becomes the rotated one, whose events are gone.       *)
Rotate(w) ==
  /\ pc[w] = "rotate"
  /\ \/ /\ rotated' = log /\ log' = Empty
        /\ Goto(w, "write")
     \/ Raise(w, "close") /\ UNCHANGED <<log, rotated>>
  /\ UNCHANGED <<holder, history, crashes>>

(* open with O_APPEND, and os.write.                                         *)
Write(w) ==
  /\ pc[w] = "write"
  /\ \/ /\ log' = [log EXCEPT !.events = Append(@, w)]
        /\ history' = Append(history, w)
        /\ Goto(w, "sync")
     \/ Raise(w, "close") /\ UNCHANGED <<log, history>>
  /\ UNCHANGED <<holder, rotated, crashes>>

(* Mutant: a failing fsync is ignored.                                       *)
Sync_Ignored(w) ==
  /\ pc[w] = "sync"
  /\ log' \in {log, [log EXCEPT !.synced = Len(log.events)]}
  /\ pc' = [pc EXCEPT ![w] = "close"]
  /\ result' = [result EXCEPT ![w] = "ok"]
  /\ UNCHANGED <<holder, rotated, history, crashes>>

(* fsync covers the whole file, or fails.                                    *)
Sync(w) ==
  /\ pc[w] = "sync"
  /\ \/ /\ log' = [log EXCEPT !.synced = Len(log.events)]
        /\ pc' = [pc EXCEPT ![w] = "close"]
        /\ result' = [result EXCEPT ![w] = "ok"]
     \/ Raise(w, "close") /\ UNCHANGED log
  /\ UNCHANGED <<holder, rotated, history, crashes>>

(* Mutant: the lock is only given up after success.                          *)
Close_OnlyOnSuccess(w) ==
  /\ pc[w] = "close"
  /\ holder' = IF result[w] = "ok" THEN Nobody ELSE holder
  /\ Goto(w, "done")
  /\ UNCHANGED <<log, rotated, history, crashes>>

(* finally: the descriptors are closed, which gives the lock up.             *)
Close(w) ==
  /\ pc[w] = "close"
  /\ holder' = Nobody
  /\ Goto(w, "done")
  /\ UNCHANGED <<log, rotated, history, crashes>>

(* The writer is killed; the kernel gives its lock up.                       *)
Kill(w) ==
  /\ pc[w] \notin Gone \cup {"ready"} /\ crashes < MaxCrashes
  /\ pc' = [pc EXCEPT ![w] = "killed"]
  /\ holder' = IF holder = w THEN Nobody ELSE holder
  /\ crashes' = crashes + 1
  /\ UNCHANGED <<result, log, rotated, history>>

Survives(file) ==
  {[events |-> SubSeq(file.events, 1, n), synced |-> n] :
     n \in file.synced .. Len(file.events)}

(* The power fails: the writers that were running are gone, and so may be    *)
(* what no fsync has covered.                                                *)
PowerFails ==
  /\ crashes < MaxCrashes /\ crashes' = crashes + 1
  /\ log' \in Survives(log) /\ rotated' \in Survives(rotated)
  /\ holder' = Nobody
  /\ pc' = [w \in Writers |->
              IF pc[w] \in Gone \cup {"ready"} THEN pc[w] ELSE "killed"]
  /\ UNCHANGED <<result, history>>

AppendEvent(w) ==
  \/ Begin(w) \/ Lock(w) \/ Check(w) \/ Rotate(w) \/ Write(w) \/ Sync(w)
  \/ Close(w)

Next == PowerFails \/ \E w \in Writers : AppendEvent(w) \/ Kill(w)

(* A process that has begun to append goes on whenever it can.               *)
Spec == Init /\ [][Next]_vars
FairSpec == Spec /\ \A w \in Writers : WF_vars(pc[w] # "ready" /\ AppendEvent(w))

---------------------------------------------------------------------------
InFile(w, file) == \E i \in DOMAIN file.events : file.events[i] = w

(* An event whose writer was told it is logged is still in one of the two    *)
(* files, or at least Limit events came after it: rotation never throws away *)
(* recent events, whoever appends at the same time and whatever crashes      *)
(* (audit.py 58-81).                                                         *)
RecentEventsAreKept ==
  \A w \in Writers :
    result[w] = "ok" /\ ~InFile(w, log) /\ ~InFile(w, rotated) =>
      \E i \in DOMAIN history :
        history[i] = w /\ Len(history) - i >= Limit

(* An event whose writer was told it is logged is behind an fsync, in the    *)
(* file it is now in (audit.py 77).                                          *)
AcknowledgedIsSynced ==
  \A w \in Writers : result[w] = "ok" =>
    \A file \in {log, rotated} : \A i \in DOMAIN file.events :
      file.events[i] = w => i <= file.synced

(* Every append that waits for the lock comes to an end.                     *)
AppendsEnd ==
  \A w \in Writers : pc[w] = "lock" ~> pc[w] \in Gone
==============================================================================
