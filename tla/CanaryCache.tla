----------------------------- MODULE CanaryCache -----------------------------
(* The compatibility canary of the Codex CLI: ensure_codex_canary of         *)
(* aur_codex_guard/codex_review.py, called by the yay wrapper before each    *)
(* transaction and by `doctor --live`, which takes no lock.                  *)
(*                                                                           *)
(* An executable is what its SHA-256 names; its path always names the one    *)
(* installed now, which an upgrade may replace at any time.  A call          *)
(* inspects it, looks it up in the cache of one entry, runs the harmless     *)
(* fixture with it if it is not there, and replaces the entry.  The answer   *)
(* to the fixture is a model's: any executable may pass at one time and fail *)
(* at another.                                                               *)
EXTENDS Naturals, FiniteSets

CONSTANTS
  Callers,
  Executables,
  None,
  MaxUpgrades  \* bound

ASSUME CanaryAssumption ==
  None \notin Executables /\ MaxUpgrades \in Nat

VARIABLES
  pc,         \* where each caller is
  inspected,  \* the executable each caller has hashed
  force,      \* callers that want a live canary
  result,     \* how ensure_codex_canary ends
  installed,  \* the executable under the path
  cache,      \* the one whose payload is in codex-canary.json
  passed,     \* history: executables that have passed the fixture
  raced,      \* history: executables inspected by a call an upgrade overtook
  upgrades    \* bound
vars == <<pc, inspected, force, result, installed, cache, passed, raced,
          upgrades>>

Gone == {"done", "killed"}

TypeOK ==
  /\ pc \in [Callers -> {"ready", "lookup", "fixture", "store"} \cup Gone]
  /\ inspected \in [Callers -> Executables \cup {None}]
  /\ force \in SUBSET Callers
  /\ result \in [Callers -> {"none", "ok", "error"}]
  /\ installed \in Executables
  /\ cache \in Executables \cup {None}
  /\ passed \in SUBSET Executables /\ raced \in SUBSET Executables
  /\ upgrades \in 0 .. MaxUpgrades

Init ==
  /\ pc = [c \in Callers |-> "ready"]
  /\ inspected = [c \in Callers |-> None]
  /\ force \in SUBSET Callers
  /\ result = [c \in Callers |-> "none"]
  /\ installed \in Executables
  /\ cache = None
  /\ passed = {} /\ raced = {}
  /\ upgrades = 0

---------------------------------------------------------------------------
Goto(c, stage) == pc' = [pc EXCEPT ![c] = stage] /\ UNCHANGED result
Return(c, how) ==
  /\ pc' = [pc EXCEPT ![c] = "done"]
  /\ result' = [result EXCEPT ![c] = how]

(* inspect_codex_support: version, options and features are as required and  *)
(* the file is hashed, or CodexReviewError is raised.                        *)
Inspect(c) ==
  /\ pc[c] = "ready"
  /\ \/ /\ Goto(c, "lookup")
        /\ inspected' = [inspected EXCEPT ![c] = installed]
     \/ Return(c, "error") /\ UNCHANGED inspected
  /\ UNCHANGED <<force, installed, cache, passed, raced, upgrades>>

(* _canary_is_cached: a cache that cannot be read is a miss; a cache whose   *)
(* path is not absolute is an error.                                         *)
LookUp(c) ==
  /\ pc[c] = "lookup"
  /\ \/ c \notin force /\ cache = inspected[c] /\ Return(c, "ok")
     \/ c \notin force /\ Return(c, "error")
     \/ Goto(c, "fixture")
  /\ UNCHANGED <<inspected, force, installed, cache, passed, raced, upgrades>>

(* Mutant: the answer is not validated.                                      *)
RunFixture_NotValidated(c) ==
  /\ pc[c] = "fixture"
  /\ Goto(c, "store")
  /\ \/ passed' = passed \cup {installed}
     \/ UNCHANGED passed
  /\ UNCHANGED <<inspected, force, installed, cache, raced, upgrades>>

(* _review_once over the fixture and _validate_canary_response: a complete,  *)
(* high-confidence allow with the exact manifest, or an error.               *)
RunFixture(c) ==
  /\ pc[c] = "fixture"
  /\ \/ /\ Goto(c, "store")
        /\ passed' = passed \cup {installed}
     \/ Return(c, "error") /\ UNCHANGED passed
  /\ UNCHANGED <<inspected, force, installed, cache, raced, upgrades>>

(* Mutant: the entry is written in place, and may be left half written.      *)
Store_InPlace(c) ==
  /\ pc[c] = "store"
  /\ cache' \in {inspected[c], cache, << >>}
  /\ Return(c, "ok")
  /\ UNCHANGED <<inspected, force, installed, passed, raced, upgrades>>

(* _write_canary_cache: a temporary file replaces the entry at once, or it   *)
(* cannot and the entry stays; the caller goes on in both cases.  Only a     *)
(* path that is not absolute is an error.                                    *)
Store(c) ==
  /\ pc[c] = "store"
  /\ \/ cache' \in {inspected[c], cache} /\ Return(c, "ok")
     \/ Return(c, "error") /\ UNCHANGED cache
  /\ UNCHANGED <<inspected, force, installed, passed, raced, upgrades>>

(* The caller is killed or interrupted.                                      *)
Kill(c) ==
  /\ pc[c] \notin Gone
  /\ pc' = [pc EXCEPT ![c] = "killed"]
  /\ UNCHANGED <<inspected, force, result, installed, cache, passed, raced,
                 upgrades>>

(* The package manager installs another Codex.                               *)
Upgrade ==
  /\ upgrades < MaxUpgrades /\ upgrades' = upgrades + 1
  /\ installed' \in Executables \ {installed}
  /\ raced' = raced \cup
       {inspected[c] : c \in {d \in Callers : pc[d] \in {"lookup", "fixture"}}}
  /\ UNCHANGED <<pc, inspected, force, result, cache, passed>>

Next ==
  \/ Upgrade
  \/ \E c \in Callers :
       Inspect(c) \/ LookUp(c) \/ RunFixture(c) \/ Store(c) \/ Kill(c)

Spec == Init /\ [][Next]_vars

---------------------------------------------------------------------------
(* An executable is vouched for, by the cache or by a call that lets its     *)
(* caller go on, only if that executable has passed the fixture, in this     *)
(* call or another one, unless an upgrade overtook a call between hashing    *)
(* it and running it (codex_review.py 434-477).                              *)
VouchedHasPassed ==
  \A e \in {cache} \cup {inspected[c] : c \in {d \in Callers : result[d] = "ok"}} :
    e \in passed \cup raced \cup {None}
=============================================================================
