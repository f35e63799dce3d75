--------------------------- MODULE GuardedMakepkg ---------------------------
(* The makepkg guard yay is given instead of makepkg:                        *)
(* aur_codex_guard/makepkg.py run_guarded_makepkg, with verify_receipt of    *)
(* receipts.py.  yay runs it several times for each package directory, and   *)
(* possibly for several directories at once; a call is a process of its own. *)
(*                                                                           *)
(* The real makepkg and its archives are external: a run returns any status  *)
(* and, when it builds, leaves any archives in the destination.  An archive  *)
(* is "good", has "escaped" the private destination, or is "forbidden" by    *)
(* inspect_package (which also stands for a missing archive).                *)
EXTENDS Checkout

CONSTANT MaxArchives  \* bound: archives one PKGBUILD builds

Archives == {"good", "escaped", "forbidden"}
ArchiveLists == UNION {[1 .. n -> Archives] : n \in 1 .. MaxArchives}

ASSUME MakepkgAssumption == MaxArchives \in Nat \ {0}

VARIABLES
  calls,  \* the latest guard call of each directory
  built   \* the archives in the private destination
makepkgVars == <<calls, built>>

(* The invocation shapes _validate_makepkg_arguments allows, by what they    *)
(* make makepkg do, and "other" for every argument list it refuses.          *)
Kinds == {"verifysource", "nobuild", "packagelist", "cached", "build", "other"}

CallStages == {"none", "check", "verify", "run", "recheck", "reverify",
               "blocked", "inspect", "returned"}
Active == CallStages \ {"none", "returned"}

MakepkgTypeOK ==
  /\ calls \in [Roots ->
       [pc     : CallStages,
        kind   : Kinds,
        todo   : SUBSET Files,          \* receipt entries not yet verified
        next   : 1 .. MaxArchives + 1,  \* the archive to inspect next
        status : {"none", "ok", "failed", "refused"}]]
  /\ built \in [Roots -> ArchiveLists \cup {<< >>}]

MakepkgInit ==
  /\ calls = [r \in Roots |-> [pc |-> "none", kind |-> "other", todo |-> {},
                               next |-> 1, status |-> "none"]]
  /\ built = [r \in Roots |-> << >>]

(* _expects_package: whether a successful run leaves archives to inspect.    *)
ExpectsPackage(kind) == kind \in {"build", "cached"}

---------------------------------------------------------------------------
Goto(r, stage) == calls' = [calls EXCEPT ![r].pc = stage]
Return(r, status) ==
  calls' = [calls EXCEPT ![r].pc = "returned", ![r].status = status]

(* yay starts the guard in directory r.  Unexpected arguments are refused    *)
(* before anything else is looked at.                                        *)
Invoke(r, kind) ==
  /\ calls[r].pc \notin Active
  /\ calls' = [calls EXCEPT ![r] =
       [pc |-> IF kind = "other" THEN "returned" ELSE "check",
        kind |-> kind, todo |-> {}, next |-> 1,
        status |-> IF kind = "other" THEN "refused" ELSE "none"]]
  /\ written' = [written EXCEPT ![r] = {}]
  /\ UNCHANGED <<built, disk, identity, receipts, edits>>

(* Mutant: an unusable receipt is waited for.                                *)
CheckReceipt_Waits(r) ==
  /\ calls[r].pc \in {"check", "recheck"} /\ ReceiptUsable(r)
  /\ calls' = [calls EXCEPT
       ![r].pc = IF @ = "check" THEN "verify" ELSE "reverify",
       ![r].todo = Covered(receipts[r])]
  /\ UNCHANGED <<built, checkoutVars>>

(* verify_receipt, up to the loop over the files: before makepkg runs and,   *)
(* when it has built a package, again after it.                              *)
CheckReceipt(r) ==
  /\ calls[r].pc \in {"check", "recheck"}
  /\ IF ReceiptUsable(r)
     THEN calls' = [calls EXCEPT
            ![r].pc = IF @ = "check" THEN "verify" ELSE "reverify",
            ![r].todo = Covered(receipts[r])]
     ELSE Return(r, "refused")
  /\ UNCHANGED <<built, checkoutVars>>

(* The reviewed file is opened, without O_NONBLOCK, and compared.            *)
VerifyFile(r, f) ==
  /\ calls[r].pc \in {"verify", "reverify"} /\ f \in calls[r].todo
  /\ \/ disk[r][f] = Fifo /\ Goto(r, "blocked")
     \/ /\ disk[r][f] # Fifo /\ FileMatches(r, f)
        /\ calls' = [calls EXCEPT ![r].todo = @ \ {f}]
     \/ /\ disk[r][f] # Fifo /\ ~FileMatches(r, f)
        /\ Return(r, "refused")
  /\ UNCHANGED <<built, checkoutVars>>

(* Somebody opens the FIFO for writing: it is not a regular file.  Or the    *)
(* call is interrupted while it waits.                                       *)
OpenReturns(r) ==
  /\ calls[r].pc = "blocked"
  /\ Return(r, "refused")
  /\ UNCHANGED <<built, checkoutVars>>

Run(r) ==
  /\ calls[r].pc = "verify" /\ calls[r].todo = {}
  /\ Goto(r, "run") \/ Return(r, "refused")
  /\ UNCHANGED <<built, checkoutVars>>

(* The real makepkg returns.  Its status is the guard's unless it has        *)
(* succeeded with a package to inspect.                                      *)
MakepkgReturns(r) ==
  /\ calls[r].pc = "run"
  /\ \/ /\ Return(r, "failed") /\ UNCHANGED written
     \/ /\ ~ExpectsPackage(calls[r].kind)
        /\ Return(r, "ok") /\ UNCHANGED written
     \/ /\ ExpectsPackage(calls[r].kind)
        /\ Goto(r, "recheck")
        /\ written' = [written EXCEPT ![r] = {}]
  /\ IF calls[r].kind = "build"
     THEN built' \in {[built EXCEPT ![r] = list] : list \in ArchiveLists}
     ELSE UNCHANGED built
  /\ UNCHANGED <<disk, identity, receipts, edits>>

(* Mutant: after the build only the receipt itself is looked at.             *)
ListPackages_NotVerified(r) ==
  /\ calls[r].pc = "reverify"
  /\ \/ built[r] # << >> /\ Goto(r, "inspect")
     \/ Return(r, "refused")
  /\ UNCHANGED <<built, checkoutVars>>

(* makepkg --packagelist names the archives, or fails or names none.         *)
ListPackages(r) ==
  /\ calls[r].pc = "reverify" /\ calls[r].todo = {}
  /\ \/ built[r] # << >> /\ Goto(r, "inspect")
     \/ Return(r, "refused")
  /\ UNCHANGED <<built, checkoutVars>>

(* One archive after the other: where it is, then inspect_package.           *)
Inspect(r) ==
  /\ calls[r].pc = "inspect" /\ calls[r].next <= Len(built[r])
  /\ IF built[r][calls[r].next] = "good"
     THEN calls' = [calls EXCEPT ![r].next = @ + 1]
     ELSE Return(r, "refused")
  /\ UNCHANGED <<built, checkoutVars>>

(* Mutant: returning from inside the loop, after the first archive.          *)
Inspected_First(r) ==
  /\ calls[r].pc = "inspect" /\ calls[r].next > 1
  /\ Return(r, "ok")
  /\ UNCHANGED <<built, checkoutVars>>

Inspected(r) ==
  /\ calls[r].pc = "inspect" /\ calls[r].next > Len(built[r])
  /\ Return(r, "ok")
  /\ UNCHANGED <<built, checkoutVars>>

(* A call in directory r goes on by itself, except while makepkg runs or     *)
(* while it waits for a FIFO.                                                *)
CallRuns(r) ==
  \/ CheckReceipt(r) \/ (\E f \in Files : VerifyFile(r, f)) \/ Run(r)
  \/ ListPackages(r) \/ Inspect(r) \/ Inspected(r)

CallNext(r) == CallRuns(r) \/ OpenReturns(r) \/ MakepkgReturns(r)
=============================================================================
