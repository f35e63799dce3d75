----------------------------- MODULE ReviewHook -----------------------------
(* The editor hook yay runs once per transaction, before anything is built:  *)
(* aur_codex_guard/cli.py hook_main, with scanner.py's deterministic_scan,   *)
(* gate.py's review_packages and receipts.py's write_receipts.  The other    *)
(* users of the checkout run between any two of its steps.                   *)
(*                                                                           *)
(* The rules of _scan_content are abstracted to the severity of what they    *)
(* find, and the Codex review (module CodexReview) to its verdict.           *)
EXTENDS Checkout, ReviewPolicy

CONSTANTS
  RuleFindings,  \* severities the content rules may report
  NotRead        \* no lstat result is held

ASSUME HookAssumption ==
  RuleFindings \subseteq Severities /\ NotRead \notin Version

VARIABLES
  hook,      \* control state and locals of hook_main
  reviewed,  \* report.reviewed_files: what was read of each directory
  audited,   \* the accepted review is in the audit log
  listed,    \* history: what rglob found in each directory but folders
  folders    \* history: the paths lstat found to be subdirectories
hookVars == <<hook, reviewed, audited, listed, folders>>

HookStages ==
  {"idle", "list", "stat", "read", "blocked", "gate", "prompt",
   "receipts", "refused", "exited"}

HookTypeOK ==
  /\ hook \in [pc      : HookStages,
               queue   : SUBSET Roots,     \* roots not yet handled
               root    : Roots,            \* the root being scanned
               todo    : SUBSET Files,     \* its paths not yet handled
               file    : Files,
               seen    : Version \cup {NotRead},
               found   : SUBSET Severities,
               verdict : Verdicts \cup {"none"},
               human   : BOOLEAN,          \* human_override
               exit    : {"none", "allow", "block", "error"}]
  /\ reviewed \in [Roots -> [Files -> Version \cup {Absent}]]
  /\ audited \in BOOLEAN
  /\ listed \in [Roots -> SUBSET Files]
  /\ folders \in [Roots -> SUBSET Files]

HookInit ==
  /\ hook = [pc |-> "idle", queue |-> {}, root |-> CHOOSE r \in Roots : TRUE,
             todo |-> {}, file |-> Pkgbuild, seen |-> NotRead,
             found |-> {}, verdict |-> "none", human |-> FALSE,
             exit |-> "none"]
  /\ reviewed = [r \in Roots |-> [f \in Files |-> Absent]]
  /\ audited = FALSE
  /\ listed = [r \in Roots |-> {}]
  /\ folders = [r \in Roots |-> {}]

HookExits(status) == hook' = [hook EXCEPT !.pc = "exited", !.exit = status]

---------------------------------------------------------------------------
(* package_roots_from_inputs: every input is a directory with a PKGBUILD,    *)
(* private to the user; or the hook ends with EXIT_ERROR, as it does when it *)
(* is not run by the guarded wrapper.                                        *)
StartHook ==
  /\ hook.pc = "idle"
  /\ \/ /\ \A r \in Roots : MaybeFile(disk[r][Pkgbuild])
        /\ hook' = [hook EXCEPT !.pc = "list", !.queue = Roots]
     \/ HookExits("error")
  /\ UNCHANGED <<reviewed, audited, listed, folders, checkoutVars>>

(* sorted(root.rglob("*")): the paths of the next directory are listed at    *)
(* once.  The order of roots and of paths makes no difference here.          *)
ListRoot(r) ==
  /\ hook.pc = "list" /\ r \in hook.queue
  /\ hook' = [hook EXCEPT !.pc = "stat", !.queue = @ \ {r}, !.root = r,
                          !.todo = {f \in Files : disk[r][f] # Absent}]
  /\ listed' = [listed EXCEPT ![r] =
       {f \in Files : disk[r][f] \notin {Absent, Folder}}]
  /\ UNCHANGED <<reviewed, audited, folders, checkoutVars>>

(* A path is done with, leaving a finding of one of these severities.        *)
Report(f, severities) ==
  \E s \in severities :
    hook' = [hook EXCEPT !.pc = "stat", !.todo = @ \ {f}, !.seen = NotRead,
                         !.found = @ \cup {s}]

(* What can be opened and read.  Mutant: anything that is there.             *)
Readable_Any(entry) == entry \notin {Absent, Folder}
Readable(entry) == entry \in Version

(* The severity of a path that cannot be reviewed.  Mutant: one the gate     *)
(* lets Codex decide about.                                                  *)
Unreviewable_Medium == {"medium"}
Unreviewable == {"high"}

(* lstat: a path that has gone or cannot be reviewed is a high finding, a    *)
(* FIFO among them; a subdirectory is passed over.                           *)
StatFile(f) ==
  /\ hook.pc = "stat" /\ f \in hook.todo
  /\ LET entry == disk[hook.root][f]
     IN  \/ /\ entry = Folder
            /\ hook' = [hook EXCEPT !.todo = @ \ {f}]
            /\ folders' = [folders EXCEPT ![hook.root] = @ \cup {f}]
         \/ /\ Readable(entry)
            /\ hook' = [hook EXCEPT !.pc = "read", !.file = f, !.seen = entry]
            /\ UNCHANGED folders
         \/ /\ entry # Folder /\ ~Readable(entry)
            /\ Report(f, Unreviewable)
            /\ UNCHANGED folders
  /\ UNCHANGED <<reviewed, audited, listed, checkoutVars>>

(* open, fstat, read, fstat, as one look at the path (module StableRead has  *)
(* them apart).  A file that is not the one lstat saw is a critical finding, *)
(* unless device, inode, size and times agree and the change goes unseen;    *)
(* else what was read is reviewed.  A path that has become a FIFO is opened  *)
(* without O_NONBLOCK.                                                       *)
ReadFile ==
  /\ hook.pc = "read"
  /\ LET f == hook.file
         entry == disk[hook.root][f]
     IN  \/ /\ entry = Fifo
            /\ hook' = [hook EXCEPT !.pc = "blocked"]
            /\ UNCHANGED reviewed
         \/ /\ entry # Fifo /\ ~Readable(entry)
            /\ Report(f, Unreviewable) /\ UNCHANGED reviewed
         \/ /\ Readable(entry) /\ entry # hook.seen
            /\ Report(f, {"critical"}) /\ UNCHANGED reviewed
         \/ /\ Readable(entry)
            /\ reviewed' = [reviewed EXCEPT ![hook.root][f] = entry]
            /\ Report(f, RuleFindings)
  /\ UNCHANGED <<audited, listed, folders, checkoutVars>>

(* Somebody opens the FIFO for writing and closes it again: what was opened  *)
(* is not the file lstat saw.                                                *)
FifoOpened ==
  /\ hook.pc = "blocked"
  /\ Report(hook.file, {"critical"})
  /\ UNCHANGED <<reviewed, audited, listed, folders, checkoutVars>>

RootScanned ==
  /\ hook.pc = "stat" /\ hook.todo = {}
  /\ hook' = [hook EXCEPT !.pc = "list"]
  /\ UNCHANGED <<reviewed, audited, listed, folders, checkoutVars>>

(* The last check of the scan: some root's PKGBUILD was read.                *)
PkgbuildReviewed(files) == \E r \in Roots : files[r][Pkgbuild] # Absent

ScanEnds ==
  /\ hook.pc = "list" /\ hook.queue = {}
  /\ hook' = [hook EXCEPT !.pc = "gate",
                          !.found = IF PkgbuildReviewed(reviewed) THEN @
                                    ELSE @ \cup {"critical"}]
  /\ UNCHANGED <<reviewed, audited, listed, folders, checkoutVars>>

(* review_packages: a blocking finding ends the review; otherwise Codex      *)
(* decides, or an OSError escapes and the hook exits with EXIT_ERROR.        *)
(* Mutant: Codex may overrule the rules.                                     *)
GateVerdicts_CodexDecides(found) == Verdicts

GateVerdicts(found) ==
  IF DeterministicVerdict(found) = "block" THEN {"block"} ELSE Verdicts

Gate ==
  /\ hook.pc = "gate"
  /\ \E v \in GateVerdicts(hook.found) :
       hook' = [hook EXCEPT
         !.verdict = v, !.queue = Roots,
         !.pc = CASE v = "allow" -> "receipts"
                  [] v = "warn"  -> "prompt"
                  [] v = "block" -> "refused"]
  /\ UNCHANGED <<reviewed, audited, listed, folders, checkoutVars>>

GateFails ==
  /\ hook.pc = "gate" /\ DeterministicVerdict(hook.found) # "block"
  /\ HookExits("error")
  /\ UNCHANGED <<reviewed, audited, listed, folders, checkoutVars>>

(* prompt_warning_approval: the user accepts; or declines, or there is no    *)
(* terminal to ask on.                                                       *)
Accept ==
  /\ hook.pc = "prompt"
  /\ hook' = [hook EXCEPT !.pc = "receipts", !.human = TRUE]
  /\ UNCHANGED <<reviewed, audited, listed, folders, checkoutVars>>

Decline ==
  /\ hook.pc = "prompt"
  /\ hook' = [hook EXCEPT !.pc = "refused"]
  /\ UNCHANGED <<reviewed, audited, listed, folders, checkoutVars>>

(* write_receipts, one root: the directory's identity is read now.  Receipts *)
(* of earlier roots stay when a later one cannot be written.                 *)
WriteReceipt(r) ==
  /\ hook.pc = "receipts" /\ r \in hook.queue
  /\ hook' = [hook EXCEPT !.queue = @ \ {r}]
  /\ receipts' = [receipts EXCEPT ![r] =
       [identity |-> identity[r], files |-> reviewed[r]]]
  /\ UNCHANGED <<reviewed, audited, listed, folders, disk, identity, written, edits>>

ReceiptFails ==
  /\ hook.pc = "receipts" /\ hook.queue # {}
  /\ HookExits("error")
  /\ UNCHANGED <<reviewed, audited, listed, folders, checkoutVars>>

(* Mutants: the audit event comes before the last receipt; and a failure to  *)
(* record it is only warned about.                                           *)
WriteAudit_Early ==
  /\ hook.pc = "receipts"
  /\ \/ audited' = TRUE /\ HookExits("allow")
     \/ audited' = FALSE /\ HookExits("error")
  /\ UNCHANGED <<reviewed, listed, folders, checkoutVars>>

WriteAudit_BestEffort ==
  /\ hook.pc = "receipts" /\ hook.queue = {}
  /\ audited' \in BOOLEAN /\ HookExits("allow")
  /\ UNCHANGED <<reviewed, listed, folders, checkoutVars>>

(* write_audit_event for an accepted review: the hook exits with EXIT_ALLOW  *)
(* only if it succeeds.                                                      *)
WriteAudit ==
  /\ hook.pc = "receipts" /\ hook.queue = {}
  /\ \/ audited' = TRUE /\ HookExits("allow")
     \/ audited' = FALSE /\ HookExits("error")
  /\ UNCHANGED <<reviewed, listed, folders, checkoutVars>>

(* A refused review is audited if possible and exits with EXIT_BLOCK.        *)
RefusalEnds ==
  /\ hook.pc = "refused"
  /\ HookExits("block")
  /\ UNCHANGED <<reviewed, audited, listed, folders, checkoutVars>>

(* Ctrl-C, an exception nobody catches, or the process is killed.            *)
HookDies ==
  /\ hook.pc \notin {"idle", "exited"}
  /\ HookExits("error")
  /\ UNCHANGED <<reviewed, audited, listed, folders, checkoutVars>>

(* What the hook does by itself, once yay has started it.  That anybody ever *)
(* opens a FIFO it waits for is not among it.                                *)
HookRuns ==
  \/ \E r \in Roots : ListRoot(r) \/ WriteReceipt(r)
  \/ \E f \in Files : StatFile(f)
  \/ ReadFile \/ RootScanned \/ ScanEnds \/ Gate \/ GateFails
  \/ ReceiptFails \/ WriteAudit \/ RefusalEnds

HookNext ==
  StartHook \/ HookRuns \/ FifoOpened \/ Accept \/ Decline \/ HookDies
=============================================================================
