--------------------------- MODULE GuardedSession ---------------------------
(* One guarded transaction: the review hook, the makepkg guard and yay, over *)
(* the checkouts they share.                                                 *)
(*                                                                           *)
(* yay is external.  What is assumed of it: it runs the hook once, while no  *)
(* makepkg runs; it goes no further when the hook does not exit with 0; it   *)
(* gives a package up when a makepkg call for it fails; and it installs what *)
(* a call that builds or re-uses a package returned 0 for.  It may otherwise *)
(* run the guard in any directory, in any order and with any arguments, even *)
(* before the hook.                                                          *)
EXTENDS ReviewHook, GuardedMakepkg

VARIABLES
  cleared,   \* packages whose latest building call returned 0
  installed
vars == <<checkoutVars, hookVars, makepkgVars, cleared, installed>>

TypeOK ==
  /\ CheckoutTypeOK /\ HookTypeOK /\ MakepkgTypeOK
  /\ cleared \in SUBSET Roots /\ installed \in SUBSET Roots

Init ==
  /\ CheckoutInit /\ HookInit /\ MakepkgInit
  /\ cleared = {} /\ installed = {}

---------------------------------------------------------------------------
Idle(r) == calls[r].pc \notin Active

YayRunsHook ==
  /\ \A r \in Roots : Idle(r)
  /\ StartHook
  /\ UNCHANGED <<makepkgVars, cleared, installed>>

HookSteps ==
  /\ HookRuns \/ FifoOpened \/ Accept \/ Decline \/ HookDies
  /\ UNCHANGED <<makepkgVars, cleared, installed>>

YayRunsMakepkg(r, kind) ==
  /\ hook.pc = "idle" \/ hook.exit = "allow"
  /\ calls[r].status \in {"none", "ok"} /\ r \notin installed
  /\ Invoke(r, kind)
  /\ cleared' = IF ExpectsPackage(kind) THEN cleared \ {r} ELSE cleared
  /\ UNCHANGED <<hookVars, installed>>

CallSteps(r) ==
  /\ CallNext(r)
  /\ cleared' = IF /\ ExpectsPackage(calls[r].kind)
                   /\ calls'[r].pc = "returned" /\ calls'[r].status = "ok"
                THEN cleared \cup {r} ELSE cleared
  /\ UNCHANGED <<hookVars, installed>>

YayInstalls(r) ==
  /\ r \in cleared \ installed
  /\ Idle(r) /\ calls[r].status = "ok"
  /\ installed' = installed \cup {r}
  /\ UNCHANGED <<checkoutVars, hookVars, makepkgVars, cleared>>

(* A directory is not replaced under a guard call: it is the call's working  *)
(* directory, which it opens once.                                           *)
CheckoutChanges ==
  /\ \E r \in Roots :
       (\E f \in Files : Edit(r, f)) \/ (Idle(r) /\ Replace(r))
  /\ UNCHANGED <<hookVars, makepkgVars, cleared, installed>>

Next ==
  \/ YayRunsHook \/ HookSteps
  \/ \E r \in Roots :
       (\E kind \in Kinds : YayRunsMakepkg(r, kind))
         \/ CallSteps(r) \/ YayInstalls(r)
  \/ CheckoutChanges

(* The hook and each guard call are processes that run whenever they can.    *)
(* No fairness for yay, for the person at the prompt, for the real makepkg,  *)
(* for whoever changes the checkouts, or for a FIFO's other end.             *)
Fairness ==
  /\ WF_vars(HookRuns /\ UNCHANGED <<makepkgVars, cleared, installed>>)
  /\ \A r \in Roots : WF_vars(CallRuns(r) /\ CallSteps(r))

Spec == Init /\ [][Next]_vars
FairSpec == Spec /\ Fairness

---------------------------------------------------------------------------
(* The file is as the receipt has it.                                        *)
AsReviewed(r, f) == disk[r][f] = receipts[r].files[f]

(* A receipt exists only for a scan with no blocking finding whose review    *)
(* allowed, or warned and a person accepted; and it holds exactly what that  *)
(* scan read (cli.py 155-187, receipts.py 68-101).                           *)
ReceiptsAreApproved ==
  \A r \in Roots : receipts[r] # NoReceipt =>
    /\ DeterministicVerdict(hook.found) # "block"
    /\ hook.verdict = "allow" \/ (hook.verdict = "warn" /\ hook.human)
    /\ receipts[r].files = reviewed[r]

(* A receipt covers every file that was in the directory when the scan       *)
(* listed it, unless it was a subdirectory when its turn came: nothing else  *)
(* makes the scan pass a file over in silence, whatever happens to the files *)
(* meanwhile (scanner.py 319-457).                                           *)
ReceiptsAreComplete ==
  \A r \in Roots : receipts[r] # NoReceipt =>
    listed[r] \subseteq Covered(receipts[r]) \cup folders[r]

(* While the real makepkg runs, each reviewed file is as it was reviewed or  *)
(* was changed after the guard was invoked: no earlier change survives the   *)
(* verification (makepkg.py 332-346, receipts.py 150-214).                   *)
RunsReviewedFiles ==
  \A r \in Roots : calls[r].pc = "run" =>
    /\ receipts[r] # NoReceipt /\ receipts[r].identity = identity[r]
    /\ \A f \in Covered(receipts[r]) : AsReviewed(r, f) \/ f \in written[r]

(* makepkg never runs for a review that was not recorded as accepted, though *)
(* receipts are written before the audit event (cli.py 166-175).             *)
BuildsAreAudited ==
  \A r \in Roots : calls[r].pc = "run" => audited /\ hook.exit = "allow"

(* What has been cleared or installed consists of archives that were all     *)
(* found good, and of at least one (makepkg.py 352-365).                     *)
ClearedArchivesAreGood ==
  \A r \in cleared \cup installed :
    built[r] # << >> /\ Range(built[r]) = {"good"}

(* When the guard clears a package, each reviewed file is as it was reviewed *)
(* or was changed after the build ended: makepkg's own changes and earlier   *)
(* ones do not go unseen (makepkg.py 347-351).                               *)
ClearedTreeWasVerified ==
  [][\A r \in Roots :
       ExpectsPackage(calls[r].kind) /\ calls[r].pc # "returned"
         /\ calls'[r].pc = "returned" /\ calls'[r].status = "ok" =>
       \A f \in Covered(receipts[r]) :
         AsReviewed(r, f) \/ f \in written[r]]_vars

(* The hook ends, or waits for a person; a guard call ends, or waits for the *)
(* real makepkg.  Or either waits for ever for the other end of a FIFO: a    *)
(* path that has become one since lstat, or since it was reviewed, is opened *)
(* without O_NONBLOCK (scanner.py 386, receipts.py 118).                     *)
NoStepHangs ==
  /\ hook.pc \notin {"idle", "prompt", "blocked"} ~>
       hook.pc \in {"prompt", "blocked", "exited"}
  /\ \A r \in Roots :
       calls[r].pc \in Active \ {"run", "blocked"} ~>
         calls[r].pc \in {"run", "blocked", "returned"}

(* The abstract promise, package by package (module Approval).               *)
StageOf(r) ==
  IF r \in installed THEN "installed"
  ELSE IF r \in cleared THEN "built"
  ELSE IF receipts[r] # NoReceipt THEN "approved"
  ELSE "unreviewed"

Promise == INSTANCE Approval WITH
  Packages <- Roots,
  stage    <- [r \in Roots |-> StageOf(r)],
  recorded <- audited

KeepsPromise == Promise!Spec

(* AUR build metadata is reviewed before it executes: makepkg never runs a   *)
(* PKGBUILD that the receipt does not cover.                                 *)
PkgbuildIsCovered ==
  \A r \in Roots :
    calls[r].pc = "run" /\ MaybeFile(disk[r][Pkgbuild]) =>
      Pkgbuild \in Covered(receipts[r])

(* A file that changes while it is scanned closes the gate: a receipt covers *)
(* every file that was in the directory when the scan listed it.             *)
ScanRacesClose ==
  \A r \in Roots : receipts[r] # NoReceipt =>
    listed[r] \subseteq Covered(receipts[r])
=============================================================================
