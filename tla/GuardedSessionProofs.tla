------------------------ MODULE GuardedSessionProofs ------------------------
(* Type correctness and the safety of one guarded transaction, for any       *)
(* packages, files, versions and numbers of changes to the checkouts.        *)
EXTENDS GuardedSession, TLAPS

(* Each step of the hook by itself, for the case splits below.               *)
LEMMA HookStepCases ==
  ASSUME HookSteps
  PROVE  /\ UNCHANGED <<makepkgVars, cleared, installed>>
         /\ \/ \E r \in Roots : ListRoot(r)
            \/ \E f \in Files : StatFile(f)
            \/ ReadFile \/ FifoOpened \/ RootScanned \/ ScanEnds
            \/ Gate \/ GateFails
            \/ \E r \in Roots : WriteReceipt(r)
            \/ ReceiptFails \/ WriteAudit \/ RefusalEnds
            \/ Accept \/ Decline \/ HookDies
  BY DEF HookSteps, HookRuns

---------------------------------------------------------------------------
(* The initial states are of the types.                                      *)
LEMMA InitTypeOK == Init => TypeOK
<1> SUFFICES ASSUME Init PROVE TypeOK
  OBVIOUS
<1> USE CheckoutAssumption, HookAssumption, MakepkgAssumption
<1>1. CheckoutTypeOK
  BY DEF Init, CheckoutInit, CheckoutTypeOK
<1>2. HookTypeOK
  BY DEF Init, HookInit, HookTypeOK, HookStages
<1>3. MakepkgTypeOK
  BY DEF Init, MakepkgInit, MakepkgTypeOK, CallStages, Kinds
<1> QED
  BY <1>1, <1>2, <1>3 DEF Init, TypeOK

(* Every step keeps the types of the checkouts and receipts.                 *)
LEMMA StepCheckoutTypeOK == TypeOK /\ [Next]_vars => CheckoutTypeOK'
<1> SUFFICES ASSUME TypeOK, [Next]_vars PROVE CheckoutTypeOK'
  OBVIOUS
<1> USE CheckoutAssumption DEF TypeOK, CheckoutTypeOK, checkoutVars
<1>1. CASE UNCHANGED checkoutVars
  BY <1>1
<1>2. ASSUME NEW r \in Roots, WriteReceipt(r)
      PROVE  CheckoutTypeOK'
  BY <1>2 DEF WriteReceipt, HookTypeOK, Receipt
<1>3. ASSUME NEW r \in Roots, NEW kind \in Kinds, Invoke(r, kind)
      PROVE  CheckoutTypeOK'
  BY <1>3 DEF Invoke
<1>4. ASSUME NEW r \in Roots, MakepkgReturns(r)
      PROVE  CheckoutTypeOK'
  BY <1>4 DEF MakepkgReturns
<1>5. ASSUME NEW r \in Roots, NEW f \in Files, Edit(r, f)
      PROVE  CheckoutTypeOK'
  BY <1>5 DEF Edit
<1>6. ASSUME NEW r \in Roots, Replace(r)
      PROVE  CheckoutTypeOK'
  BY <1>6 DEF Replace
<1>7. CASE HookSteps
  BY <1>7, <1>1, <1>2, HookStepCases
  DEF ListRoot, StatFile, ReadFile, FifoOpened, RootScanned, ScanEnds, Gate,
      GateFails, ReceiptFails, WriteAudit, RefusalEnds, Accept, Decline, HookDies
<1>8. ASSUME NEW r \in Roots, CallSteps(r)
      PROVE  CheckoutTypeOK'
  BY <1>8, <1>1, <1>4
  DEF CallSteps, CallNext, CallRuns, CheckReceipt, VerifyFile, OpenReturns, Run,
      ListPackages, Inspect, Inspected
<1> QED
  BY <1>1, <1>3, <1>5, <1>6, <1>7, <1>8
  DEF Next, vars, YayRunsHook, StartHook, YayRunsMakepkg, YayInstalls,
      CheckoutChanges

(* Every step keeps the types of the hook's variables.                       *)
LEMMA StepHookTypeOK == TypeOK /\ [Next]_vars => HookTypeOK'
<1> SUFFICES ASSUME TypeOK, [Next]_vars PROVE HookTypeOK'
  OBVIOUS
<1> USE CheckoutAssumption, HookAssumption
    DEF TypeOK, HookTypeOK, HookStages, HookExits
<1>1. CASE UNCHANGED hookVars
  BY <1>1 DEF hookVars
<1>2. CASE StartHook
  <2>1. CASE hook' = [hook EXCEPT !.pc = "list", !.queue = Roots]
    BY <1>2, <2>1 DEF StartHook
  <2>2. CASE hook' = [hook EXCEPT !.pc = "exited", !.exit = "error"]
    BY <1>2, <2>2 DEF StartHook
  <2> QED
    BY <1>2, <2>1, <2>2 DEF StartHook
<1>3. ASSUME NEW r \in Roots, ListRoot(r)
      PROVE  HookTypeOK'
  BY <1>3 DEF ListRoot
<1>3a. ASSUME NEW f \in Files, NEW S \in SUBSET Severities, Report(f, S),
              NEW files \in [Roots -> [Files -> Version \cup {Absent}]],
              reviewed' = files, UNCHANGED <<audited, listed, folders>>
       PROVE  HookTypeOK'
  <2>1. PICK s \in S :
          hook' = [hook EXCEPT !.pc = "stat", !.todo = @ \ {f},
                               !.seen = NotRead, !.found = @ \cup {s}]
    BY <1>3a DEF Report
  <2> QED
    BY <1>3a, <2>1
<1>3b. Unreviewable \in SUBSET Severities
  BY DEF Unreviewable, Severities
<1>3c. {"critical"} \in SUBSET Severities
  BY DEF Severities
<1>4. ASSUME NEW f \in Files, StatFile(f)
      PROVE  HookTypeOK'
  <2> DEFINE entry == disk[hook.root][f]
  <2>0. UNCHANGED <<reviewed, audited, listed>> /\ hook.root \in Roots
    BY <1>4 DEF StatFile
  <2>1. CASE /\ hook' = [hook EXCEPT !.todo = @ \ {f}]
             /\ folders' = [folders EXCEPT ![hook.root] = @ \cup {f}]
    BY <2>0, <2>1
  <2>2. CASE /\ Readable(entry) /\ UNCHANGED folders
             /\ hook' = [hook EXCEPT !.pc = "read", !.file = f, !.seen = entry]
    BY <2>0, <2>2 DEF Readable
  <2>3. CASE Report(f, Unreviewable) /\ UNCHANGED folders
    BY <2>0, <2>3, <1>3a, <1>3b
  <2> QED
    BY <1>4, <2>1, <2>2, <2>3 DEF StatFile
<1>5. CASE ReadFile
  <2> DEFINE f == hook.file
             entry == disk[hook.root][f]
             files == [reviewed EXCEPT ![hook.root][f] = entry]
  <2>0. f \in Files /\ hook.root \in Roots /\ UNCHANGED <<audited, listed, folders>>
    BY <1>5 DEF ReadFile
  <2>1. CASE Report(f, Unreviewable) /\ UNCHANGED reviewed
    BY <2>0, <2>1, <1>3a, <1>3b
  <2>2. CASE Report(f, {"critical"}) /\ UNCHANGED reviewed
    BY <2>0, <2>2, <1>3a, <1>3c
  <2>3. CASE Readable(entry) /\ Report(f, RuleFindings) /\ reviewed' = files
    <3>1. files \in [Roots -> [Files -> Version \cup {Absent}]]
      BY <2>0, <2>3 DEF Readable
    <3> QED
      BY <3>1, <2>0, <2>3, <1>3a
  <2>4. CASE hook' = [hook EXCEPT !.pc = "blocked"] /\ UNCHANGED reviewed
    BY <2>0, <2>4
  <2> QED
    BY <1>5, <2>1, <2>2, <2>3, <2>4 DEF ReadFile
<1>5a. CASE FifoOpened
  BY <1>5a, <1>3a, <1>3c DEF FifoOpened
<1>6. CASE RootScanned \/ ScanEnds
  <2>1. CASE RootScanned
    BY <2>1 DEF RootScanned
  <2>2. CASE ScanEnds
    <3> DEFINE found == IF PkgbuildReviewed(reviewed) THEN hook.found
                        ELSE hook.found \cup {"critical"}
    <3>1. found \in SUBSET Severities
      BY DEF Severities
    <3>2. hook' = [hook EXCEPT !.pc = "gate", !.found = found]
      BY <2>2 DEF ScanEnds
    <3> HIDE DEF found
    <3> QED
      BY <2>2, <3>1, <3>2 DEF ScanEnds
  <2> QED
    BY <1>6, <2>1, <2>2
<1>7. CASE Gate
  <2>1. PICK v \in Verdicts :
          hook' = [hook EXCEPT
            !.verdict = v, !.queue = Roots,
            !.pc = CASE v = "allow" -> "receipts"
                     [] v = "warn"  -> "prompt"
                     [] v = "block" -> "refused"]
    BY <1>7 DEF Gate, GateVerdicts, Verdicts
  <2> DEFINE stage == CASE v = "allow" -> "receipts"
                        [] v = "warn"  -> "prompt"
                        [] v = "block" -> "refused"
  <2>2. stage \in HookStages
    BY DEF Verdicts
  <2>3. hook' = [hook EXCEPT !.verdict = v, !.queue = Roots, !.pc = stage]
    BY <2>1
  <2> HIDE DEF stage
  <2> QED
    BY <1>7, <2>2, <2>3 DEF Gate
<1>7a. ASSUME NEW status \in {"allow", "block", "error"}, HookExits(status),
              audited' \in BOOLEAN, UNCHANGED <<reviewed, listed, folders>>
       PROVE  HookTypeOK'
  BY <1>7a
<1>8. CASE GateFails \/ ReceiptFails \/ RefusalEnds \/ Accept \/ Decline \/ HookDies
  <2>0. UNCHANGED <<reviewed, audited, listed, folders>>
    BY <1>8 DEF GateFails, ReceiptFails, RefusalEnds, Accept, Decline, HookDies
  <2>1. CASE Accept
    BY <2>0, <2>1 DEF Accept
  <2>2. CASE Decline
    BY <2>0, <2>2 DEF Decline
  <2>3. CASE HookExits("error") \/ HookExits("block")
    BY <2>0, <2>3, <1>7a
  <2> QED
    BY <1>8, <2>1, <2>2, <2>3 DEF GateFails, ReceiptFails, RefusalEnds, HookDies
<1>9. ASSUME NEW r \in Roots, WriteReceipt(r)
      PROVE  HookTypeOK'
  BY <1>9 DEF WriteReceipt
<1>10. CASE WriteAudit
  <2>1. /\ audited' \in BOOLEAN /\ UNCHANGED <<reviewed, listed, folders>>
        /\ HookExits("allow") \/ HookExits("error")
    BY <1>10 DEF WriteAudit
  <2> QED
    BY <2>1, <1>7a
<1>11. CASE HookSteps
  BY <1>11, <1>3, <1>4, <1>5, <1>5a, <1>6, <1>7, <1>8, <1>9, <1>10,
     HookStepCases
<1> QED
  BY <1>1, <1>2, <1>11
  DEF Next, vars, YayRunsHook, YayRunsMakepkg, CallSteps, YayInstalls,
      CheckoutChanges

(* Every step keeps the types of the guard calls and archives.               *)
LEMMA StepMakepkgTypeOK == TypeOK /\ [Next]_vars => MakepkgTypeOK'
<1> SUFFICES ASSUME TypeOK, [Next]_vars PROVE MakepkgTypeOK'
  OBVIOUS
<1> USE MakepkgAssumption
    DEF TypeOK, MakepkgTypeOK, CallStages, Kinds, Goto, Return
<1>1. CASE UNCHANGED makepkgVars
  BY <1>1 DEF makepkgVars
<1> DEFINE Calls == [pc : CallStages, kind : Kinds, todo : SUBSET Files,
                     next : 1 .. MaxArchives + 1,
                     status : {"none", "ok", "failed", "refused"}]
<1>1c. ASSUME NEW r \in Roots, NEW call \in Calls,
              calls' = [calls EXCEPT ![r] = call],
              built' \in [Roots -> ArchiveLists \cup {<< >>}]
       PROVE  MakepkgTypeOK'
  <2> HIDE DEF Calls
  <2>1. calls \in [Roots -> Calls]
    BY DEF Calls
  <2>2. calls' \in [Roots -> Calls]
    BY <1>1c, <2>1
  <2> QED
    BY <1>1c, <2>2 DEF Calls
<1>1a. ASSUME NEW r \in Roots, NEW stage \in CallStages, Goto(r, stage),
              built' \in [Roots -> ArchiveLists \cup {<< >>}]
       PROVE  MakepkgTypeOK'
  <2> DEFINE call == [calls[r] EXCEPT !.pc = stage]
  <2>1. calls' = [calls EXCEPT ![r] = call]
    BY <1>1a
  <2>2. call \in Calls
    OBVIOUS
  <2> HIDE DEF call, Calls
  <2> QED
    BY <1>1a, <1>1c, <2>1, <2>2
<1>1b. ASSUME NEW r \in Roots,
              NEW status \in {"ok", "failed", "refused"}, Return(r, status),
              built' \in [Roots -> ArchiveLists \cup {<< >>}]
       PROVE  MakepkgTypeOK'
  <2> DEFINE call == [calls[r] EXCEPT !.pc = "returned", !.status = status]
  <2>1. calls' = [calls EXCEPT ![r] = call]
    BY <1>1b
  <2>2. call \in Calls
    OBVIOUS
  <2> HIDE DEF call, Calls
  <2> QED
    BY <1>1b, <1>1c, <2>1, <2>2
<1>2. ASSUME NEW r \in Roots, NEW kind \in Kinds, Invoke(r, kind)
      PROVE  MakepkgTypeOK'
  BY <1>2 DEF Invoke
<1>3. ASSUME NEW r \in Roots, CheckReceipt(r)
      PROVE  MakepkgTypeOK'
  BY <1>3 DEF CheckReceipt, Covered
<1>4. ASSUME NEW r \in Roots, NEW f \in Files, VerifyFile(r, f)
      PROVE  MakepkgTypeOK'
  <2>0. built' \in [Roots -> ArchiveLists \cup {<< >>}]
    BY <1>4 DEF VerifyFile
  <2>1. CASE Goto(r, "blocked")
    BY <2>0, <2>1, <1>1a
  <2>2. CASE calls' = [calls EXCEPT ![r].todo = @ \ {f}]
    <3> DEFINE call == [calls[r] EXCEPT !.todo = @ \ {f}]
    <3>1. call \in Calls
      OBVIOUS
    <3>2. calls' = [calls EXCEPT ![r] = call]
      BY <2>2
    <3> HIDE DEF call, Calls
    <3> QED
      BY <2>0, <3>1, <3>2, <1>1c
  <2>3. CASE Return(r, "refused")
    BY <2>0, <2>3, <1>1b
  <2> QED
    BY <1>4, <2>1, <2>2, <2>3 DEF VerifyFile
<1>4a. ASSUME NEW r \in Roots, OpenReturns(r)
       PROVE  MakepkgTypeOK'
  <2>1. Return(r, "refused") /\ built' \in [Roots -> ArchiveLists \cup {<< >>}]
    BY <1>4a DEF OpenReturns
  <2> QED
    BY <2>1, <1>1b
<1>5. ASSUME NEW r \in Roots, Run(r) \/ ListPackages(r) \/ Inspected(r)
      PROVE  MakepkgTypeOK'
  <2>1. CASE Run(r)
    <3>1. Goto(r, "run") \/ Return(r, "refused")
      BY <2>1 DEF Run
    <3>2. built' \in [Roots -> ArchiveLists \cup {<< >>}]
      BY <2>1 DEF Run
    <3> QED
      BY <3>1, <3>2, <1>1a, <1>1b
  <2>2. CASE ListPackages(r)
    <3>1. Goto(r, "inspect") \/ Return(r, "refused")
      BY <2>2 DEF ListPackages
    <3>2. built' \in [Roots -> ArchiveLists \cup {<< >>}]
      BY <2>2 DEF ListPackages
    <3> QED
      BY <3>1, <3>2, <1>1a, <1>1b
  <2>3. CASE Inspected(r)
    <3>1. Return(r, "ok")
      BY <2>3 DEF Inspected
    <3>2. built' \in [Roots -> ArchiveLists \cup {<< >>}]
      BY <2>3 DEF Inspected
    <3> QED
      BY <3>1, <3>2, <1>1b
  <2> QED
    BY <1>5, <2>1, <2>2, <2>3
<1>6. ASSUME NEW r \in Roots, MakepkgReturns(r)
      PROVE  MakepkgTypeOK'
  <2>1. built' \in [Roots -> ArchiveLists \cup {<< >>}]
    <3>1. CASE calls[r].kind = "build"
      <4>1. PICK list \in ArchiveLists : built' = [built EXCEPT ![r] = list]
        BY <1>6, <3>1 DEF MakepkgReturns
      <4> QED
        BY <4>1
    <3>2. CASE calls[r].kind # "build"
      BY <1>6, <3>2 DEF MakepkgReturns
    <3> QED
      BY <3>1, <3>2
  <2>2. \/ \E status \in {"failed", "ok"} : Return(r, status)
        \/ Goto(r, "recheck")
    BY <1>6 DEF MakepkgReturns
  <2> QED
    BY <2>1, <2>2, <1>1a, <1>1b
<1>7. ASSUME NEW r \in Roots, Inspect(r)
      PROVE  MakepkgTypeOK'
  <2>0. built' \in [Roots -> ArchiveLists \cup {<< >>}]
    BY <1>7 DEF Inspect
  <2>1. Len(built[r]) \in 0 .. MaxArchives
    <3>1. built[r] \in ArchiveLists \cup {<< >>}
      OBVIOUS
    <3>2. CASE built[r] = << >>
      BY <3>2
    <3>3. CASE built[r] \in ArchiveLists
      <4>1. PICK n \in 1 .. MaxArchives : built[r] \in [1 .. n -> Archives]
        BY <3>3 DEF ArchiveLists
      <4> QED
        BY <4>1
    <3> QED
      BY <3>1, <3>2, <3>3
  <2>2. CASE calls' = [calls EXCEPT ![r].next = @ + 1]
    <3>1. calls[r].next \in 1 .. MaxArchives
      BY <1>7, <2>1 DEF Inspect
    <3>2. calls[r].next + 1 \in 1 .. MaxArchives + 1
      BY <3>1
    <3> DEFINE call == [calls[r] EXCEPT !.next = @ + 1]
    <3>3. call \in Calls
      BY <3>2
    <3>4. calls' = [calls EXCEPT ![r] = call]
      BY <2>2
    <3> HIDE DEF call, Calls
    <3> QED
      BY <2>0, <3>3, <3>4, <1>1c
  <2>3. CASE Return(r, "refused")
    BY <2>0, <2>3, <1>1b
  <2> QED
    BY <1>7, <2>2, <2>3 DEF Inspect
<1>8. ASSUME NEW r \in Roots, CallSteps(r)
      PROVE  MakepkgTypeOK'
  BY <1>8, <1>3, <1>4, <1>4a, <1>5, <1>6, <1>7
  DEF CallSteps, CallNext, CallRuns
<1> QED
  BY <1>1, <1>2, <1>8
  DEF Next, vars, YayRunsHook, HookSteps, YayRunsMakepkg, YayInstalls,
      CheckoutChanges

(* Every step keeps cleared and installed sets of packages.                  *)
LEMMA StepSetsTypeOK ==
  TypeOK /\ [Next]_vars => cleared' \in SUBSET Roots /\ installed' \in SUBSET Roots
  BY DEF TypeOK, Next, vars, YayRunsHook, HookSteps, YayRunsMakepkg,
         CallSteps, YayInstalls, CheckoutChanges

(* The state of a guarded transaction keeps to its types.                    *)
THEOREM TypeCorrect == Spec => []TypeOK
<1>1. TypeOK /\ [Next]_vars => TypeOK'
  BY StepCheckoutTypeOK, StepHookTypeOK, StepMakepkgTypeOK, StepSetsTypeOK
  DEF TypeOK
<1> QED
  BY InitTypeOK, <1>1, PTL DEF Spec

---------------------------------------------------------------------------
(* A review the gate or a person let through, with no blocking finding.      *)
Accepted ==
  /\ DeterministicVerdict(hook.found) # "block"
  /\ hook.verdict = "allow" \/ (hook.verdict = "warn" /\ hook.human)

(* The hook exits with EXIT_ALLOW only when the event is recorded, and makes *)
(* receipts only of accepted reviews.                                        *)
HookInv ==
  /\ hook.exit # "none" <=> hook.pc = "exited"
  /\ audited <=> hook.exit = "allow"
  /\ hook.pc = "prompt" =>
       /\ hook.verdict = "warn" /\ DeterministicVerdict(hook.found) # "block"
       /\ hook.queue = Roots
  /\ hook.pc = "receipts" => Accepted
  /\ \A r \in Roots : receipts[r] # NoReceipt =>
       /\ hook.pc \in {"receipts", "exited"} /\ Accepted
       /\ receipts[r].files = reviewed[r]
  /\ hook.pc = "receipts" =>
       \A r \in Roots \ hook.queue : receipts[r] # NoReceipt
  /\ audited => \A r \in Roots : receipts[r] # NoReceipt

(* A guard call past its first check has a usable receipt, and every covered *)
(* file it is done with is as reviewed or was changed since the checkpoint.  *)
PastCheck == {"verify", "run", "recheck", "reverify", "inspect"}

CallOK(r) ==
  /\ calls[r].pc \in Active => hook.pc = "idle" \/ hook.exit = "allow"
  /\ calls[r].pc \in PastCheck =>
       receipts[r] # NoReceipt /\ receipts[r].identity = identity[r]
  /\ calls[r].pc \in {"run", "recheck", "inspect"} => calls[r].todo = {}
  /\ calls[r].pc \in PastCheck \ {"recheck"} =>
       \A f \in Covered(receipts[r]) \ calls[r].todo :
         AsReviewed(r, f) \/ f \in written[r]

CallInv == \A r \in Roots : CallOK(r)

(* The archives before the next one to inspect are good, and so are all of a *)
(* cleared package, whose archives no building call is replacing.            *)
ArchivesOK(r) ==
  /\ calls[r].pc \in {"recheck", "reverify", "inspect"} =>
       ExpectsPackage(calls[r].kind)
  /\ calls[r].pc \in Active \ {"inspect"} => calls[r].next = 1
  /\ calls[r].pc = "inspect" =>
       /\ built[r] # << >>
       /\ \A i \in 1 .. calls[r].next - 1 : built[r][i] = "good"
  /\ r \in cleared =>
       /\ built[r] # << >>
       /\ \A i \in 1 .. Len(built[r]) : built[r][i] = "good"
       /\ calls[r].pc \in Active => ~ExpectsPackage(calls[r].kind)
       /\ hook.exit = "allow"
  /\ r \in installed => r \in cleared /\ calls[r].pc \notin Active

ArchiveInv == \A r \in Roots : ArchivesOK(r)

SInv == TypeOK /\ HookInv /\ CallInv /\ ArchiveInv

(* The initial states satisfy the invariant.                                 *)
LEMMA InitSInv == Init => SInv
<1> SUFFICES ASSUME Init PROVE SInv
  OBVIOUS
<1>1. HookInv
  BY DEF Init, HookInit, CheckoutInit, HookInv
<1>2. CallInv
  BY DEF Init, MakepkgInit, CallInv, CallOK, Active, CallStages, PastCheck
<1>3. ArchiveInv
  BY DEF Init, MakepkgInit, ArchiveInv, ArchivesOK, Active, CallStages
<1> QED
  BY <1>1, <1>2, <1>3, InitTypeOK DEF SInv

(* The hook's steps all lie between its start and its exit.                  *)
LEMMA HookBusy ==
  ASSUME HookSteps
  PROVE  hook.pc \notin {"idle", "exited"}
  BY HookStepCases
  DEF ListRoot, StatFile, ReadFile, FifoOpened, RootScanned, ScanEnds, Gate,
      GateFails, WriteReceipt, ReceiptFails, WriteAudit, RefusalEnds, Accept, Decline,
      HookDies

(* Guard calls only run while the hook is not, so that no receipt appears or *)
(* changes under them.                                                       *)
LEMMA StepHookInv == SInv /\ [Next]_vars => HookInv'
<1> SUFFICES ASSUME SInv, [Next]_vars PROVE HookInv'
  OBVIOUS
<1>0. hook \in [pc : HookStages, queue : SUBSET Roots, root : Roots,
                todo : SUBSET Files, file : Files,
                seen : Version \cup {NotRead}, found : SUBSET Severities,
                verdict : Verdicts \cup {"none"}, human : BOOLEAN,
                exit : {"none", "allow", "block", "error"}]
  BY DEF SInv, TypeOK, HookTypeOK
<1> USE <1>0 DEF SInv, HookInv, Accepted
<1>1. CASE UNCHANGED <<hook, reviewed, audited, receipts>>
  BY <1>1
<1>2. CASE StartHook
  BY <1>2 DEF StartHook, HookExits, checkoutVars
<1>3. ASSUME NEW r \in Roots, ListRoot(r)
      PROVE  HookInv'
  BY <1>3 DEF ListRoot, checkoutVars
<1>4. ASSUME NEW f \in Files, StatFile(f)
      PROVE  HookInv'
  BY <1>4 DEF StatFile, Report, checkoutVars
<1>5. CASE ReadFile
  BY <1>5 DEF ReadFile, Report, checkoutVars
<1>5a. CASE FifoOpened
  BY <1>5a DEF FifoOpened, Report, checkoutVars
<1>6. CASE RootScanned \/ ScanEnds
  <2>1. CASE RootScanned
    BY <2>1 DEF RootScanned, checkoutVars
  <2>2. CASE ScanEnds
    <3>1. /\ hook.pc = "list" /\ hook'.pc = "gate" /\ hook'.exit = hook.exit
          /\ UNCHANGED <<reviewed, audited, receipts>>
      BY <2>2 DEF ScanEnds, checkoutVars
    <3> QED
      BY <3>1
  <2> QED
    BY <1>6, <2>1, <2>2
<1>7. CASE Gate
  <2>1. PICK v \in GateVerdicts(hook.found) :
          hook' = [hook EXCEPT
            !.verdict = v, !.queue = Roots,
            !.pc = CASE v = "allow" -> "receipts"
                     [] v = "warn"  -> "prompt"
                     [] v = "block" -> "refused"]
    BY <1>7 DEF Gate
  <2>2. v \in Verdicts
    BY DEF GateVerdicts, Verdicts
  <2>3. v # "block" => DeterministicVerdict(hook.found) # "block"
    BY DEF GateVerdicts
  <2>4. hook.pc = "gate" /\ UNCHANGED <<reviewed, audited, receipts>>
    BY <1>7 DEF Gate, checkoutVars
  <2>5. CASE v = "allow"
    BY <2>1, <2>3, <2>4, <2>5
  <2>6. CASE v = "warn"
    BY <2>1, <2>3, <2>4, <2>6
  <2>7. CASE v = "block"
    BY <2>1, <2>4, <2>7
  <2> QED
    BY <2>2, <2>5, <2>6, <2>7 DEF Verdicts
<1>8. CASE GateFails \/ ReceiptFails \/ RefusalEnds \/ Accept \/ Decline \/ HookDies
  <2>1. CASE GateFails
    BY <2>1 DEF GateFails, HookExits, checkoutVars
  <2>1a. CASE ReceiptFails
    BY <2>1a DEF ReceiptFails, HookExits, checkoutVars
  <2>2. CASE RefusalEnds
    BY <2>2 DEF RefusalEnds, HookExits, checkoutVars
  <2>3. CASE HookDies
    BY <2>3 DEF HookDies, HookExits, checkoutVars
  <2>4. CASE Accept
    BY <2>4 DEF Accept, checkoutVars
  <2>5. CASE Decline
    BY <2>5 DEF Decline, checkoutVars
  <2> QED
    BY <1>8, <2>1, <2>1a, <2>2, <2>3, <2>4, <2>5
<1>9. ASSUME NEW r \in Roots, WriteReceipt(r)
      PROVE  HookInv'
  <2>1. receipts'[r] # NoReceipt /\ receipts'[r].files = reviewed[r]
    <3>1. receipts'[r] = [identity |-> identity[r], files |-> reviewed[r]]
      BY <1>9 DEF WriteReceipt, TypeOK, CheckoutTypeOK
    <3>2. receipts'[r] \in Receipt
      BY <3>1 DEF Receipt, TypeOK, CheckoutTypeOK, HookTypeOK
    <3> QED
      BY <3>1, <3>2, CheckoutAssumption
  <2>2. \A q \in Roots \ {r} : receipts'[q] = receipts[q]
    BY <1>9 DEF WriteReceipt, TypeOK, CheckoutTypeOK
  <2>3. /\ hook.pc = "receipts" /\ hook' = [hook EXCEPT !.queue = @ \ {r}]
        /\ UNCHANGED <<reviewed, audited>>
    BY <1>9 DEF WriteReceipt
  <2> QED
    BY <2>1, <2>2, <2>3
<1>10. CASE WriteAudit
  BY <1>10 DEF WriteAudit, HookExits, checkoutVars
<1>11. CASE HookSteps
  BY <1>11, <1>3, <1>4, <1>5, <1>5a, <1>6, <1>7, <1>8, <1>9, <1>10,
     HookStepCases
<1>12. ASSUME NEW r \in Roots, CallSteps(r)
       PROVE  UNCHANGED <<hook, reviewed, audited, receipts>>
  BY <1>12
  DEF CallSteps, CallNext, CallRuns, CheckReceipt, VerifyFile, OpenReturns, Run,
      MakepkgReturns, ListPackages, Inspect, Inspected, checkoutVars, hookVars
<1>13. CASE CheckoutChanges
  BY <1>13, <1>1 DEF CheckoutChanges, Edit, Replace, hookVars
<1>14. ASSUME NEW r \in Roots, NEW kind \in Kinds, YayRunsMakepkg(r, kind)
       PROVE  UNCHANGED <<hook, reviewed, audited, receipts>>
  BY <1>14 DEF YayRunsMakepkg, Invoke, hookVars
<1>15. ASSUME NEW r \in Roots, YayInstalls(r)
       PROVE  UNCHANGED <<hook, reviewed, audited, receipts>>
  BY <1>15 DEF YayInstalls, hookVars, checkoutVars
<1>16. CASE UNCHANGED vars
  BY <1>16, <1>1 DEF vars, hookVars, checkoutVars
<1> QED
  BY <1>1, <1>2, <1>11, <1>12, <1>13, <1>14, <1>15, <1>16
  DEF Next, YayRunsHook

(* Verification: what a call has dealt with, and what has changed since,     *)
(* together are all it has to deal with.                                     *)
LEMMA StepCallInv == SInv /\ [Next]_vars => CallInv'
<1> SUFFICES ASSUME SInv, [Next]_vars, NEW r \in Roots
             PROVE  CallOK(r)'
  BY DEF CallInv
<1> USE DEF CallOK, PastCheck, Active, CallStages, AsReviewed
<1>0. /\ CallOK(r)
      /\ calls \in [Roots ->
            [pc : CallStages, kind : Kinds, todo : SUBSET Files,
             next : 1 .. MaxArchives + 1,
             status : {"none", "ok", "failed", "refused"}]]
      /\ disk \in [Roots -> [Files -> Entry]]
      /\ written \in [Roots -> SUBSET Files]
      /\ identity \in [Roots -> Nat]
  BY DEF SInv, CallInv, TypeOK, MakepkgTypeOK, CheckoutTypeOK
(* What concerns r is left alone.                                            *)
<1>1. ASSUME calls'[r] = calls[r], receipts'[r] = receipts[r],
             identity'[r] = identity[r], disk'[r] = disk[r],
             written'[r] = written[r], UNCHANGED hook
      PROVE  CallOK(r)'
  BY <1>0, <1>1 DEF Covered
<1>2. ASSUME calls[r].pc \notin Active, calls'[r] = calls[r]
      PROVE  CallOK(r)'
  BY <1>2
<1>3. CASE YayRunsHook
  BY <1>3, <1>2 DEF YayRunsHook, Idle, makepkgVars
<1>4. CASE HookSteps
  <2>1. calls[r].pc \notin Active
    BY <1>4, <1>0, HookBusy DEF SInv, HookInv
  <2> QED
    BY <1>4, <2>1, <1>2 DEF HookSteps, makepkgVars
<1>5. ASSUME NEW q \in Roots, NEW kind \in Kinds, YayRunsMakepkg(q, kind)
      PROVE  CallOK(r)'
  <2>1. CASE q = r
    BY <1>0, <1>5, <2>1 DEF YayRunsMakepkg, Invoke, hookVars
  <2>2. CASE q # r
    BY <1>0, <1>1, <1>5, <2>2 DEF YayRunsMakepkg, Invoke, hookVars
  <2> QED
    BY <2>1, <2>2
<1>6. ASSUME NEW q \in Roots, CallSteps(q)
      PROVE  CallOK(r)'
  <2>0. CallNext(q) /\ UNCHANGED hook
    BY <1>6 DEF CallSteps, hookVars
  <2>1. CASE q # r
    BY <1>0, <1>1, <2>0, <2>1
    DEF CallNext, CallRuns, CheckReceipt, VerifyFile, OpenReturns, Run, MakepkgReturns,
        ListPackages, Inspect, Inspected, Goto, Return, checkoutVars
  <2>2. ASSUME q = r, CheckReceipt(r)
        PROVE  CallOK(r)'
    <3>1. UNCHANGED <<disk, receipts, written, identity>>
      BY <2>2 DEF CheckReceipt, checkoutVars
    <3>2. CASE ReceiptUsable(r)
      <4>1. /\ calls'[r].pc \in {"verify", "reverify"}
            /\ calls'[r].todo = Covered(receipts[r])
        BY <1>0, <2>2, <3>2 DEF CheckReceipt
      <4>2. calls[r].pc \in {"check", "recheck"}
        BY <2>2 DEF CheckReceipt
      <4> QED
        BY <1>0, <2>0, <3>1, <3>2, <4>1, <4>2 DEF ReceiptUsable, Covered
    <3>3. CASE ~ReceiptUsable(r)
      BY <1>0, <2>2, <3>3 DEF CheckReceipt, Return
    <3> QED
      BY <3>2, <3>3
  <2>3. ASSUME q = r, NEW f \in Files, VerifyFile(r, f)
        PROVE  CallOK(r)'
    <3>1. UNCHANGED <<disk, receipts, written, identity>>
      BY <2>3 DEF VerifyFile, checkoutVars
    <3>2. CASE /\ FileMatches(r, f)
               /\ calls' = [calls EXCEPT ![r].todo = @ \ {f}]
      BY <1>0, <2>0, <2>3, <3>1, <3>2 DEF VerifyFile, FileMatches, Covered
    <3>3. CASE Return(r, "refused")
      BY <1>0, <3>3 DEF Return
    <3>4. CASE Goto(r, "blocked")
      <4>1. calls'[r].pc = "blocked" /\ calls[r].pc \in Active
        BY <1>0, <2>3, <3>4 DEF Goto, VerifyFile
      <4> QED
        BY <1>0, <2>0, <4>1
    <3> QED
      BY <2>3, <3>2, <3>3, <3>4 DEF VerifyFile
  <2>3a. ASSUME q = r, OpenReturns(r)
         PROVE  CallOK(r)'
    <3>1. calls'[r].pc = "returned"
      BY <1>0, <2>3a DEF OpenReturns, Return
    <3> QED
      BY <3>1
  <2>4. ASSUME q = r, Run(r)
        PROVE  CallOK(r)'
    <3>1. UNCHANGED <<disk, receipts, written, identity>>
      BY <2>4 DEF Run, checkoutVars
    <3>2. calls[r].pc = "verify" /\ calls[r].todo = {}
      BY <2>4 DEF Run
    <3>3. CASE Goto(r, "run")
      <4>1. calls'[r].pc = "run" /\ calls'[r].todo = {}
        BY <1>0, <3>2, <3>3 DEF Goto
      <4> QED
        BY <1>0, <2>0, <3>1, <3>2, <4>1 DEF Covered
    <3>4. CASE Return(r, "refused")
      <4>1. calls'[r].pc = "returned"
        BY <1>0, <3>4 DEF Return
      <4> QED
        BY <4>1
    <3> QED
      BY <2>4, <3>3, <3>4 DEF Run
  <2>5. ASSUME q = r, MakepkgReturns(r)
        PROVE  CallOK(r)'
    <3>1. /\ UNCHANGED <<disk, receipts, identity>>
          /\ calls[r].pc = "run" /\ calls[r].todo = {}
      BY <1>0, <2>5 DEF MakepkgReturns
    <3>2. CASE Goto(r, "recheck")
      <4>1. calls'[r].pc = "recheck" /\ calls'[r].todo = {}
        BY <1>0, <3>1, <3>2 DEF Goto
      <4> QED
        BY <1>0, <2>0, <3>1, <4>1
    <3>3. CASE Return(r, "failed") \/ Return(r, "ok")
      <4>1. calls'[r].pc = "returned"
        BY <1>0, <3>3 DEF Return
      <4> QED
        BY <4>1
    <3> QED
      BY <2>5, <3>2, <3>3 DEF MakepkgReturns
  <2>6. ASSUME q = r, ListPackages(r)
        PROVE  CallOK(r)'
    <3>1. UNCHANGED <<disk, receipts, written, identity>>
      BY <2>6 DEF ListPackages, checkoutVars
    <3>2. calls[r].pc = "reverify" /\ calls[r].todo = {}
      BY <2>6 DEF ListPackages
    <3>3. CASE Goto(r, "inspect")
      <4>1. calls'[r].pc = "inspect" /\ calls'[r].todo = {}
        BY <1>0, <3>2, <3>3 DEF Goto
      <4> QED
        BY <1>0, <2>0, <3>1, <3>2, <4>1 DEF Covered
    <3>4. CASE Return(r, "refused")
      <4>1. calls'[r].pc = "returned"
        BY <1>0, <3>4 DEF Return
      <4> QED
        BY <4>1
    <3> QED
      BY <2>6, <3>3, <3>4 DEF ListPackages
  <2>7. ASSUME q = r, Inspect(r) \/ Inspected(r)
        PROVE  CallOK(r)'
    <3>1. UNCHANGED <<disk, receipts, written, identity>>
      BY <2>7 DEF Inspect, Inspected, checkoutVars
    <3>2. /\ calls[r].pc = "inspect"
          /\ \/ calls'[r].pc = "returned"
             \/ calls'[r].pc = "inspect" /\ calls'[r].todo = calls[r].todo
      BY <1>0, <2>7 DEF Inspect, Inspected, Return
    <3> QED
      BY <1>0, <2>0, <3>1, <3>2 DEF Covered
  <2> QED
    BY <2>0, <2>1, <2>2, <2>3, <2>3a, <2>4, <2>5, <2>6, <2>7
    DEF CallNext, CallRuns
<1>7. ASSUME NEW q \in Roots, NEW f \in Files, Edit(q, f), UNCHANGED <<hook, calls>>
      PROVE  CallOK(r)'
  <2>1. CASE q = r
    <3>1. /\ \A g \in Files \ {f} : disk'[r][g] = disk[r][g]
          /\ written'[r] = written[r] \cup {f}
          /\ UNCHANGED <<receipts, identity>>
      BY <1>0, <1>7, <2>1 DEF Edit
    <3> QED
      BY <1>0, <1>7, <3>1 DEF Covered
  <2>2. CASE q # r
    BY <1>0, <1>1, <1>7, <2>2 DEF Edit
  <2> QED
    BY <2>1, <2>2
<1>8. ASSUME NEW q \in Roots, Idle(q), Replace(q), UNCHANGED <<hook, calls>>
      PROVE  CallOK(r)'
  <2>1. CASE q = r
    BY <1>2, <1>8, <2>1 DEF Idle
  <2>2. CASE q # r
    BY <1>0, <1>1, <1>8, <2>2 DEF Replace
  <2> QED
    BY <2>1, <2>2
<1>9. ASSUME NEW q \in Roots, YayInstalls(q)
      PROVE  CallOK(r)'
  BY <1>1, <1>9 DEF YayInstalls, makepkgVars, checkoutVars, hookVars
<1>10. CASE UNCHANGED vars
  BY <1>1, <1>10 DEF vars, makepkgVars, checkoutVars, hookVars
<1> QED
  BY <1>3, <1>4, <1>5, <1>6, <1>7, <1>8, <1>9, <1>10
  DEF Next, CheckoutChanges, hookVars, makepkgVars

(* Inspection: the archives a call has gone past are good, and a cleared     *)
(* package keeps the archives it was cleared with.                           *)
LEMMA StepArchiveInv == SInv /\ [Next]_vars => ArchiveInv'
<1> SUFFICES ASSUME SInv, [Next]_vars, NEW r \in Roots
             PROVE  ArchivesOK(r)'
  BY DEF ArchiveInv
<1> USE DEF ArchivesOK, Active, CallStages
<1>0. /\ ArchivesOK(r)
      /\ calls \in [Roots ->
            [pc : CallStages, kind : Kinds, todo : SUBSET Files,
             next : 1 .. MaxArchives + 1,
             status : {"none", "ok", "failed", "refused"}]]
      /\ built \in [Roots -> ArchiveLists \cup {<< >>}]
      /\ calls[r].next \in Nat \ {0}
  BY DEF SInv, ArchiveInv, TypeOK, MakepkgTypeOK
<1>1. ASSUME calls'[r] = calls[r], built'[r] = built[r], UNCHANGED hook,
             r \in cleared' => r \in cleared,
             r \in cleared => r \in cleared', UNCHANGED installed
      PROVE  ArchivesOK(r)'
  BY <1>0, <1>1
<1>2. CASE YayRunsHook
  <2>1. hook.exit # "allow"
    BY <1>2 DEF YayRunsHook, StartHook, SInv, HookInv
  <2> QED
    BY <1>0, <1>2, <2>1 DEF YayRunsHook, makepkgVars
<1>3. CASE HookSteps
  <2>1. hook.exit # "allow"
    BY <1>3, HookBusy DEF SInv, HookInv
  <2>2. calls[r].pc \notin Active
    BY <1>3, HookBusy DEF SInv, HookInv, CallInv, CallOK
  <2> QED
    BY <1>0, <1>3, <2>1, <2>2 DEF HookSteps, makepkgVars
<1>4. ASSUME NEW q \in Roots, NEW kind \in Kinds, YayRunsMakepkg(q, kind)
      PROVE  ArchivesOK(r)'
  <2>1. CASE q = r
    BY <1>0, <1>4, <2>1 DEF YayRunsMakepkg, Invoke, ExpectsPackage, hookVars
  <2>2. CASE q # r
    BY <1>0, <1>1, <1>4, <2>2 DEF YayRunsMakepkg, Invoke, hookVars
  <2> QED
    BY <2>1, <2>2
<1>5. ASSUME NEW q \in Roots, CallSteps(q)
      PROVE  ArchivesOK(r)'
  <2>0. CallNext(q) /\ UNCHANGED <<hook, installed>>
    BY <1>5 DEF CallSteps, hookVars
  <2>1. CASE q # r
    <3>1. calls'[r] = calls[r] /\ built'[r] = built[r]
      BY <1>0, <2>0, <2>1
      DEF CallNext, CallRuns, CheckReceipt, VerifyFile, OpenReturns, Run, MakepkgReturns,
          ListPackages, Inspect, Inspected, Goto, Return
    <3> QED
      BY <1>1, <1>5, <2>0, <2>1, <3>1 DEF CallSteps
  <2>2. ASSUME q = r, ~(calls'[r].pc = "returned" /\ calls'[r].status = "ok")
               \/ ~ExpectsPackage(calls[r].kind)
        PROVE  cleared' = cleared
    BY <1>5, <2>2 DEF CallSteps
  <2>3. ASSUME q = r, CheckReceipt(r)
        PROVE  ArchivesOK(r)'
    <3>1. /\ calls[r].pc \in {"check", "recheck"} /\ built' = built
          /\ \/ calls[r].pc = "check" /\ calls'[r].pc = "verify"
             \/ calls[r].pc = "recheck" /\ calls'[r].pc = "reverify"
             \/ calls'[r].pc = "returned" /\ calls'[r].status = "refused"
          /\ calls'[r].kind = calls[r].kind /\ calls'[r].next = calls[r].next
      BY <1>0, <2>3 DEF CheckReceipt, Return
    <3> QED
      BY <1>0, <2>0, <2>2, <2>3, <3>1
  <2>4. ASSUME q = r, NEW f \in Files, VerifyFile(r, f)
        PROVE  ArchivesOK(r)'
    <3>1. /\ calls[r].pc \in {"verify", "reverify"} /\ built' = built
          /\ \/ calls'[r].pc \in {calls[r].pc, "blocked"}
             \/ calls'[r].pc = "returned" /\ calls'[r].status = "refused"
          /\ calls'[r].kind = calls[r].kind /\ calls'[r].next = calls[r].next
      BY <1>0, <2>4 DEF VerifyFile, Goto, Return
    <3> QED
      BY <1>0, <2>0, <2>2, <2>4, <3>1
  <2>4a. ASSUME q = r, OpenReturns(r)
         PROVE  ArchivesOK(r)'
    <3>1. /\ calls[r].pc = "blocked" /\ built' = built
          /\ calls'[r].pc = "returned" /\ calls'[r].status = "refused"
          /\ calls'[r].kind = calls[r].kind /\ calls'[r].next = calls[r].next
      BY <1>0, <2>4a DEF OpenReturns, Return
    <3> QED
      BY <1>0, <2>0, <2>2, <2>4a, <3>1
  <2>5. ASSUME q = r, Run(r)
        PROVE  ArchivesOK(r)'
    <3>1. /\ calls[r].pc = "verify" /\ built' = built
          /\ \/ calls'[r].pc = "run"
             \/ calls'[r].pc = "returned" /\ calls'[r].status = "refused"
          /\ calls'[r].kind = calls[r].kind /\ calls'[r].next = calls[r].next
      BY <1>0, <2>5 DEF Run, Goto, Return
    <3> QED
      BY <1>0, <2>0, <2>2, <2>5, <3>1
  <2>6. ASSUME q = r, MakepkgReturns(r)
        PROVE  ArchivesOK(r)'
    <3>1. /\ calls[r].pc = "run"
          /\ \/ calls'[r].pc = "recheck" /\ ExpectsPackage(calls[r].kind)
             \/ calls'[r].pc = "returned"
                  /\ \/ calls'[r].status = "failed"
                     \/ ~ExpectsPackage(calls[r].kind)
          /\ calls'[r].kind = calls[r].kind /\ calls'[r].next = calls[r].next
      BY <1>0, <2>6 DEF MakepkgReturns, Goto, Return
    <3>2. ~ExpectsPackage(calls[r].kind) => built' = built
      BY <2>6 DEF MakepkgReturns, ExpectsPackage
    <3>3. cleared' = cleared
      BY <2>2, <2>6, <3>1
    <3>4. r \in cleared => ~ExpectsPackage(calls[r].kind)
      BY <1>0, <3>1
    <3> QED
      BY <1>0, <2>0, <3>1, <3>2, <3>3, <3>4
  <2>7. ASSUME q = r, ListPackages(r)
        PROVE  ArchivesOK(r)'
    <3>1. /\ calls[r].pc = "reverify" /\ built' = built
          /\ \/ calls'[r].pc = "inspect" /\ built[r] # << >>
             \/ calls'[r].pc = "returned" /\ calls'[r].status = "refused"
          /\ calls'[r].kind = calls[r].kind /\ calls'[r].next = calls[r].next
      BY <1>0, <2>7 DEF ListPackages, Goto, Return
    <3> QED
      BY <1>0, <2>0, <2>2, <2>7, <3>1
  <2>8. ASSUME q = r, Inspect(r)
        PROVE  ArchivesOK(r)'
    <3>1. /\ calls[r].pc = "inspect" /\ built' = built
          /\ calls'[r].kind = calls[r].kind
          /\ \/ /\ calls'[r].pc = "inspect"
                /\ calls'[r].next = calls[r].next + 1
                /\ built[r][calls[r].next] = "good"
             \/ calls'[r].pc = "returned" /\ calls'[r].status = "refused"
      BY <1>0, <2>8 DEF Inspect, Return
    <3> QED
      BY <1>0, <2>0, <2>2, <2>8, <3>1
  <2>9. ASSUME q = r, Inspected(r)
        PROVE  ArchivesOK(r)'
    <3>1. /\ calls[r].pc = "inspect" /\ built' = built
          /\ calls[r].next > Len(built[r])
          /\ calls'[r].pc = "returned"
      BY <1>0, <2>9 DEF Inspected, Return
    <3>2. \A i \in 1 .. Len(built[r]) : built[r][i] = "good"
      <4>1. Len(built[r]) \in Nat
        <5>1. CASE built[r] = << >>
          BY <5>1
        <5>2. CASE built[r] \in ArchiveLists
          <6>1. PICK n \in 1 .. MaxArchives : built[r] \in [1 .. n -> Archives]
            BY <5>2 DEF ArchiveLists
          <6> QED
            BY <6>1
        <5> QED
          BY <1>0, <5>1, <5>2
      <4> QED
        BY <1>0, <3>1, <4>1
    <3>3. hook.exit = "allow"
      <4>1. hook.pc # "idle"
        BY <3>1 DEF SInv, HookInv, CallInv, CallOK, PastCheck
      <4> QED
        BY <3>1, <4>1 DEF SInv, CallInv, CallOK
    <3> QED
      BY <1>0, <2>0, <3>1, <3>2, <3>3
  <2> QED
    BY <2>0, <2>1, <2>3, <2>4, <2>4a, <2>5, <2>6, <2>7, <2>8, <2>9
    DEF CallNext, CallRuns
<1>6. CASE CheckoutChanges
  BY <1>1, <1>6 DEF CheckoutChanges, hookVars, makepkgVars
<1>7. ASSUME NEW q \in Roots, YayInstalls(q)
      PROVE  ArchivesOK(r)'
  BY <1>0, <1>7 DEF YayInstalls, Idle, hookVars, makepkgVars
<1>8. CASE UNCHANGED vars
  BY <1>1, <1>8 DEF vars, makepkgVars, hookVars
<1> QED
  BY <1>2, <1>3, <1>4, <1>5, <1>6, <1>7, <1>8 DEF Next

---------------------------------------------------------------------------
(* The inductive invariant of a guarded transaction: what the hook has       *)
(* approved, what each guard call has verified and what each cleared archive *)
(* was found to be (cli.py 138-194, makepkg.py 332-365).                     *)
THEOREM Invariance == Spec => []SInv
<1>1. SInv /\ [Next]_vars => SInv'
  <2>1. TypeOK /\ [Next]_vars => TypeOK'
    BY StepCheckoutTypeOK, StepHookTypeOK, StepMakepkgTypeOK, StepSetsTypeOK
    DEF TypeOK
  <2> QED
    BY <2>1, StepHookInv, StepCallInv, StepArchiveInv DEF SInv
<1> QED
  BY InitSInv, <1>1, PTL DEF Spec

(* A receipt exists only for an accepted review, and holds what it read.     *)
THEOREM Approved == Spec => []ReceiptsAreApproved
<1>1. SInv => ReceiptsAreApproved
  BY DEF SInv, HookInv, Accepted, ReceiptsAreApproved
<1> QED
  BY Invariance, <1>1, PTL

(* makepkg never runs over a reviewed file that was changed before the guard *)
(* was invoked.                                                              *)
THEOREM RunsReviewed == Spec => []RunsReviewedFiles
<1>1. SInv => RunsReviewedFiles
  BY DEF SInv, CallInv, CallOK, PastCheck, RunsReviewedFiles
<1> QED
  BY Invariance, <1>1, PTL

(* makepkg never runs for a review that is not in the audit log.             *)
THEOREM Audited == Spec => []BuildsAreAudited
<1>1. SInv => BuildsAreAudited
  BY DEF SInv, HookInv, CallInv, CallOK, PastCheck, Active, CallStages,
         BuildsAreAudited
<1> QED
  BY Invariance, <1>1, PTL

(* A cleared or installed package has archives, all of them good.            *)
THEOREM GoodArchives == Spec => []ClearedArchivesAreGood
<1>1. ASSUME SInv PROVE ClearedArchivesAreGood
  <2> SUFFICES ASSUME NEW r \in cleared \cup installed
               PROVE  built[r] # << >> /\ Range(built[r]) = {"good"}
    BY DEF ClearedArchivesAreGood
  <2>1. /\ r \in Roots /\ built[r] # << >>
        /\ \A i \in 1 .. Len(built[r]) : built[r][i] = "good"
    BY <1>1 DEF SInv, ArchiveInv, ArchivesOK, TypeOK
  <2>2. PICK n \in 1 .. MaxArchives : built[r] \in [1 .. n -> Archives]
    BY <1>1, <2>1 DEF SInv, TypeOK, MakepkgTypeOK, ArchiveLists
  <2>3. n \in Nat /\ n >= 1 /\ Len(built[r]) = n /\ DOMAIN built[r] = 1 .. n
    BY <2>2, MakepkgAssumption
  <2> QED
    BY <2>1, <2>3 DEF Range
<1> QED
  BY Invariance, <1>1, PTL

(* The guard clears a package only after verifying every reviewed file since *)
(* the build ended.                                                          *)
THEOREM ClearedVerified == Spec => ClearedTreeWasVerified
<1>1. ASSUME SInv, [Next]_vars, NEW r \in Roots,
             ExpectsPackage(calls[r].kind), calls[r].pc # "returned",
             calls'[r].pc = "returned", calls'[r].status = "ok"
      PROVE  \A f \in Covered(receipts[r]) :
               AsReviewed(r, f) \/ f \in written[r]
  <2>0. CallOK(r) /\ TypeOK
    BY <1>1 DEF SInv, CallInv
  <2>1. calls[r].pc = "inspect"
    <3>1. calls'[r] # calls[r]
      BY <1>1
    <3>2. CASE \E q \in Roots : CallSteps(q)
      <4>1. CallNext(r)
        <5>1. PICK q \in Roots : CallSteps(q)
          BY <3>2
        <5>2. CASE q # r
          <6>1. calls'[r] = calls[r]
            BY <2>0, <5>1, <5>2
            DEF CallSteps, CallNext, CallRuns, CheckReceipt, VerifyFile, OpenReturns, Run,
                MakepkgReturns, ListPackages, Inspect, Inspected, Goto, Return,
                TypeOK, MakepkgTypeOK
          <6> QED
            BY <3>1, <6>1
        <5> QED
          BY <5>1, <5>2 DEF CallSteps
      <4> QED
        BY <1>1, <2>0, <4>1
        DEF CallNext, CallRuns, CheckReceipt, VerifyFile, OpenReturns, Run,
            MakepkgReturns, ListPackages, Inspect, Inspected, Goto, Return,
            TypeOK, MakepkgTypeOK
    <3>3. ASSUME NEW q \in Roots, NEW kind \in Kinds, YayRunsMakepkg(q, kind)
          PROVE  FALSE
      BY <1>1, <2>0, <3>1, <3>3
      DEF YayRunsMakepkg, Invoke, TypeOK, MakepkgTypeOK
    <3> QED
      BY <1>1, <3>1, <3>2, <3>3
      DEF Next, vars, makepkgVars, YayRunsHook, HookSteps, YayInstalls,
          CheckoutChanges
  <2> QED
    BY <2>0, <2>1 DEF CallOK, PastCheck
<1>2. SInv /\ [Next]_vars =>
        [\A r \in Roots :
           ExpectsPackage(calls[r].kind) /\ calls[r].pc # "returned"
             /\ calls'[r].pc = "returned" /\ calls'[r].status = "ok" =>
           \A f \in Covered(receipts[r]) :
             AsReviewed(r, f) \/ f \in written[r]]_vars
  BY <1>1
<1> QED
  BY Invariance, <1>2, PTL DEF Spec, ClearedTreeWasVerified

---------------------------------------------------------------------------
(* Two further results, which rest on the same invariant: no listed path is  *)
(* left out of a receipt, and the transaction implements the abstract        *)
(* promise of module Approval.                                               *)

(* models.py: the deterministic verdict is "block" exactly when some finding *)
(* is high or critical.                                                      *)
LEMMA BlockingFindings ==
  ASSUME NEW found \in SUBSET Severities
  PROVE  DeterministicVerdict(found) = "block"
           <=> "high" \in found \/ "critical" \in found
<1> DEFINE all == found \cup {"info"}
           s == HighestSeverity(found)
<1>1. /\ SeverityRank["info"] = 0 /\ SeverityRank["low"] = 1
      /\ SeverityRank["medium"] = 2 /\ SeverityRank["high"] = 3
      /\ SeverityRank["critical"] = 4
  BY DEF SeverityRank
<1>2. \E t \in all : \A u \in all : SeverityRank[u] <= SeverityRank[t]
  <2>0. all \subseteq {"info", "low", "medium", "high", "critical"} /\ "info" \in all
    BY DEF Severities
  <2>1. CASE "critical" \in all
    BY <1>1, <2>0, <2>1
  <2>2. CASE "critical" \notin all /\ "high" \in all
    BY <1>1, <2>0, <2>2
  <2>3. CASE "critical" \notin all /\ "high" \notin all /\ "medium" \in all
    BY <1>1, <2>0, <2>3
  <2>4. CASE /\ "critical" \notin all /\ "high" \notin all
             /\ "medium" \notin all /\ "low" \in all
    BY <1>1, <2>0, <2>4
  <2>5. CASE /\ "critical" \notin all /\ "high" \notin all
             /\ "medium" \notin all /\ "low" \notin all
    BY <1>1, <2>0, <2>5
  <2> HIDE DEF all
  <2> QED
    BY <2>1, <2>2, <2>3, <2>4, <2>5
<1>3. s \in all /\ \A u \in found : SeverityRank[u] <= SeverityRank[s]
  <2>1. \E t \in all : \A u \in found : SeverityRank[u] <= SeverityRank[t]
    BY <1>2
  <2> QED
    BY <2>1, Zenon DEF HighestSeverity
<1>4. DeterministicVerdict(found) = "block" <=> SeverityRank[s] >= 3
  BY <1>1 DEF DeterministicVerdict
<1>5. s \in Severities
  BY <1>3 DEF Severities
<1>6. SeverityRank[s] >= 3 <=> s \in {"high", "critical"}
  BY <1>1, <1>5 DEF Severities
<1> HIDE DEF s
<1>7. "high" \in found \/ "critical" \in found => SeverityRank[s] >= 3
  <2>1. SeverityRank[s] \in Nat
    BY <1>1, <1>5 DEF Severities
  <2> QED
    BY <1>1, <1>3, <2>1
<1> QED
  BY <1>3, <1>4, <1>6, <1>7

---------------------------------------------------------------------------
(* While a directory is scanned, every file that was listed has been read or *)
(* found to be a subdirectory, is still to be read, or has left a finding    *)
(* that blocks.                                                              *)
Blocked == DeterministicVerdict(hook.found) = "block"
Handled(r) == {f \in Files : reviewed[r][f] # Absent} \cup folders[r]
Pending(r) == IF r = hook.root /\ hook.pc \in {"stat", "read", "blocked"}
              THEN hook.todo ELSE {}

ScanOK(r) ==
  /\ hook.pc \in {"read", "blocked"} => hook.file \in hook.todo
  /\ hook.pc \in {"list", "stat", "read", "blocked"} /\ r \notin hook.queue =>
       Blocked \/ listed[r] \subseteq Handled(r) \cup Pending(r)
  /\ hook.pc \in {"gate", "prompt", "receipts"} =>
       Blocked \/ listed[r] \subseteq Handled(r)
  /\ receipts[r] # NoReceipt => listed[r] \subseteq Handled(r)

ScanInv == \A r \in Roots : ScanOK(r)

(* Nothing has been listed or approved in the beginning.                     *)
LEMMA InitScanInv == Init => ScanInv
  BY DEF Init, HookInit, CheckoutInit, ScanInv, ScanOK

(* Every step keeps the scan's account of the listed files; only the hook's  *)
(* steps touch it.                                                           *)
LEMMA StepScanInv == SInv /\ ScanInv /\ [Next]_vars => ScanInv'
<1> SUFFICES ASSUME SInv, ScanInv, [Next]_vars, NEW r \in Roots
             PROVE  ScanOK(r)'
  BY DEF ScanInv
<1> USE DEF ScanOK, Handled, Pending
<1>0. /\ ScanOK(r) /\ TypeOK /\ HookInv
      /\ hook \in [pc : HookStages, queue : SUBSET Roots, root : Roots,
                   todo : SUBSET Files, file : Files,
                   seen : Version \cup {NotRead}, found : SUBSET Severities,
                   verdict : Verdicts \cup {"none"}, human : BOOLEAN,
                   exit : {"none", "allow", "block", "error"}]
      /\ hook.found \in SUBSET Severities
      /\ listed \in [Roots -> SUBSET Files]
      /\ folders \in [Roots -> SUBSET Files]
      /\ reviewed \in [Roots -> [Files -> Version \cup {Absent}]]
  BY DEF SInv, ScanInv, TypeOK, HookTypeOK
<1>1. ASSUME UNCHANGED <<hook, reviewed, listed, folders, receipts>>
      PROVE  ScanOK(r)'
  BY <1>0, <1>1 DEF Blocked
<1>1a. hook.pc \notin {"receipts", "exited"} => receipts[r] = NoReceipt
  BY <1>0 DEF HookInv
<1>2. CASE StartHook
  BY <1>0, <1>1a, <1>2 DEF StartHook, HookExits, checkoutVars
<1>3. ASSUME NEW q \in Roots, ListRoot(q)
      PROVE  ScanOK(r)'
  <2>1. /\ hook.pc = "list" /\ hook'.pc = "stat" /\ hook'.root = q
        /\ hook'.queue = hook.queue \ {q} /\ hook'.found = hook.found
        /\ listed'[q] \subseteq hook'.todo /\ UNCHANGED <<reviewed, folders, receipts>>
    BY <1>0, <1>3 DEF ListRoot, checkoutVars
  <2>2. CASE q = r
    BY <1>0, <1>1a, <2>1, <2>2 DEF Blocked
  <2>3. CASE q # r
    <3>1. listed'[r] = listed[r]
      BY <1>0, <1>3, <2>3 DEF ListRoot
    <3> QED
      BY <1>0, <1>1a, <2>1, <2>3, <3>1 DEF Blocked
  <2> QED
    BY <2>2, <2>3
(* A path is done with: it was read, or the finding it leaves blocks.        *)
<1>4. ASSUME NEW f \in Files, NEW S \in SUBSET Severities, Report(f, S),
             hook.pc \in {"stat", "read", "blocked"}, UNCHANGED <<listed, folders, receipts>>,
             \/ S \subseteq {"high", "critical"} /\ UNCHANGED reviewed
             \/ \E v \in Version :
                  reviewed' = [reviewed EXCEPT ![hook.root][f] = v]
      PROVE  ScanOK(r)'
  <2>1. PICK s \in S :
          /\ hook'.pc = "stat" /\ hook'.todo = hook.todo \ {f}
          /\ hook'.root = hook.root /\ hook'.queue = hook.queue
          /\ hook'.found = hook.found \cup {s}
    BY <1>0, <1>4 DEF Report
  <2>2. hook'.found \in SUBSET Severities /\ (Blocked => Blocked')
    BY <1>0, <2>1, BlockingFindings DEF Blocked
  <2>3. CASE S \subseteq {"high", "critical"} /\ UNCHANGED reviewed
    <3>1. Blocked'
      BY <2>1, <2>2, <2>3, BlockingFindings DEF Blocked
    <3> QED
      BY <1>0, <1>1a, <1>4, <2>1, <3>1
  <2>4. CASE \E v \in Version :
               reviewed' = [reviewed EXCEPT ![hook.root][f] = v]
    <3>1. Handled(r) \subseteq Handled(r)'
      BY <1>0, <1>4, <2>4, CheckoutAssumption
    <3>2. r = hook.root => f \in Handled(r)'
      BY <1>0, <1>4, <2>4, CheckoutAssumption
    <3> QED
      BY <1>0, <1>1a, <1>4, <2>1, <2>2, <3>1, <3>2
  <2> QED
    BY <1>4, <2>3, <2>4
<1>5. ASSUME NEW f \in Files, StatFile(f)
      PROVE  ScanOK(r)'
  <2> DEFINE entry == disk[hook.root][f]
  <2>0. /\ hook.pc = "stat" /\ f \in hook.todo /\ hook.root \in Roots
        /\ UNCHANGED <<reviewed, listed, receipts>>
    BY <1>0, <1>5 DEF StatFile, checkoutVars
  <2>1. CASE /\ hook' = [hook EXCEPT !.todo = @ \ {f}]
             /\ folders' = [folders EXCEPT ![hook.root] = @ \cup {f}]
    <3>1. /\ hook'.pc = "stat" /\ hook'.todo = hook.todo \ {f}
          /\ hook'.root = hook.root /\ hook'.queue = hook.queue
          /\ hook'.found = hook.found
      BY <1>0, <2>0, <2>1
    <3>2. Handled(r) \subseteq Handled(r)' /\ (r = hook.root => f \in Handled(r)')
      BY <1>0, <2>0, <2>1
    <3> QED
      BY <1>0, <1>1a, <2>0, <3>1, <3>2 DEF Blocked
  <2>2. CASE /\ Readable(entry) /\ UNCHANGED folders
             /\ hook' = [hook EXCEPT !.pc = "read", !.file = f, !.seen = entry]
    <3>1. /\ hook'.pc = "read" /\ hook'.file = f /\ hook'.todo = hook.todo
          /\ hook'.root = hook.root /\ hook'.queue = hook.queue
          /\ hook'.found = hook.found
      BY <1>0, <2>2
    <3> QED
      BY <1>0, <1>1a, <2>0, <2>2, <3>1 DEF Blocked
  <2>3. CASE Report(f, Unreviewable) /\ UNCHANGED folders
    <3>1. Unreviewable \in SUBSET Severities /\ Unreviewable \subseteq {"high", "critical"}
      BY DEF Severities, Unreviewable
    <3> QED
      BY <2>0, <2>3, <3>1, <1>4
  <2> QED
    BY <1>5, <2>1, <2>2, <2>3 DEF StatFile
<1>6. CASE ReadFile
  <2> DEFINE f == hook.file
             entry == disk[hook.root][f]
  <2>0. /\ f \in Files /\ hook.pc = "read" /\ UNCHANGED <<listed, folders, receipts>>
        /\ {"high"} \in SUBSET Severities /\ {"critical"} \in SUBSET Severities
        /\ RuleFindings \in SUBSET Severities
    BY <1>0, <1>6, HookAssumption DEF ReadFile, checkoutVars, Severities
  <2>1. CASE Report(f, Unreviewable) /\ UNCHANGED reviewed
    BY <2>0, <2>1, <1>4 DEF Unreviewable
  <2>2. CASE Report(f, {"critical"}) /\ UNCHANGED reviewed
    BY <2>0, <2>2, <1>4
  <2>3. CASE /\ Readable(entry) /\ Report(f, RuleFindings)
             /\ reviewed' = [reviewed EXCEPT ![hook.root][f] = entry]
    BY <2>0, <2>3, <1>4 DEF Readable
  <2>4. CASE hook' = [hook EXCEPT !.pc = "blocked"] /\ UNCHANGED reviewed
    <3>1. /\ hook'.pc = "blocked" /\ hook'.file = hook.file
          /\ hook'.todo = hook.todo /\ hook'.root = hook.root
          /\ hook'.queue = hook.queue /\ hook'.found = hook.found
      BY <1>0, <2>4
    <3> QED
      BY <1>0, <1>1a, <2>0, <2>4, <3>1 DEF Blocked
  <2> QED
    BY <1>6, <2>1, <2>2, <2>3, <2>4 DEF ReadFile
<1>6a. CASE FifoOpened
  <2>1. /\ hook.pc = "blocked" /\ hook.file \in Files
        /\ UNCHANGED <<reviewed, listed, folders, receipts>>
        /\ {"critical"} \in SUBSET Severities
    BY <1>0, <1>6a DEF FifoOpened, checkoutVars, Severities
  <2> QED
    BY <1>4, <1>6a, <2>1 DEF FifoOpened
<1>7. CASE RootScanned
  <2>1. /\ hook.pc = "stat" /\ hook.todo = {} /\ hook'.pc = "list"
        /\ hook'.queue = hook.queue /\ hook'.found = hook.found
        /\ UNCHANGED <<reviewed, listed, folders, receipts>>
    BY <1>0, <1>7 DEF RootScanned, checkoutVars
  <2> QED
    BY <1>0, <1>1a, <2>1 DEF Blocked
<1>8. CASE ScanEnds
  <2>1. /\ hook.pc = "list" /\ hook.queue = {} /\ hook'.pc = "gate"
        /\ UNCHANGED <<reviewed, listed, folders, receipts>>
        /\ \/ hook'.found = hook.found
           \/ hook'.found = hook.found \cup {"critical"}
    BY <1>0, <1>8 DEF ScanEnds, checkoutVars
  <2>2. Blocked => Blocked'
    <3>1. hook'.found \in SUBSET Severities
      BY <1>0, <2>1 DEF Severities
    <3> QED
      BY <1>0, <2>1, <3>1, BlockingFindings DEF Blocked
  <2> QED
    BY <1>0, <1>1a, <2>1, <2>2
<1>9. CASE Gate
  <2>1. /\ hook.pc = "gate" /\ hook'.found = hook.found
        /\ hook'.pc \in {"receipts", "prompt", "refused"}
        /\ UNCHANGED <<reviewed, listed, folders, receipts>>
    BY <1>0, <1>9 DEF Gate, GateVerdicts, Verdicts, checkoutVars
  <2> QED
    BY <1>0, <1>1a, <2>1 DEF Blocked
<1>10. ASSUME NEW q \in Roots, WriteReceipt(q)
       PROVE  ScanOK(r)'
  <2>1. /\ hook.pc = "receipts" /\ hook'.pc = "receipts"
        /\ hook'.found = hook.found /\ UNCHANGED <<reviewed, listed, folders>>
    BY <1>0, <1>10 DEF WriteReceipt
  <2>2. ~Blocked
    BY <1>0, <2>1 DEF HookInv, Accepted, Blocked
  <2> QED
    BY <1>0, <2>1, <2>2
<1>11. CASE Accept \/ Decline
  <2>1. /\ hook.pc = "prompt" /\ hook'.found = hook.found
        /\ hook'.pc \in {"receipts", "refused"}
        /\ UNCHANGED <<reviewed, listed, folders, receipts>>
    BY <1>0, <1>11 DEF Accept, Decline, checkoutVars
  <2> QED
    BY <1>0, <1>1a, <2>1 DEF Blocked
<1>12. CASE GateFails \/ ReceiptFails \/ WriteAudit \/ RefusalEnds \/ HookDies
  <2>1. hook'.pc = "exited" /\ UNCHANGED <<reviewed, listed, folders, receipts>>
    BY <1>0, <1>12
    DEF GateFails, ReceiptFails, WriteAudit, RefusalEnds, HookDies, HookExits,
        checkoutVars
  <2> QED
    BY <1>0, <2>1
<1>13. CASE HookSteps
  BY <1>13, <1>3, <1>5, <1>6, <1>6a, <1>7, <1>8, <1>9, <1>10, <1>11, <1>12,
     HookStepCases
<1>14. ASSUME NEW q \in Roots, CallSteps(q)
       PROVE  UNCHANGED <<hook, reviewed, listed, folders, receipts>>
  BY <1>14
  DEF CallSteps, CallNext, CallRuns, CheckReceipt, VerifyFile, OpenReturns, Run,
      MakepkgReturns, ListPackages, Inspect, Inspected, checkoutVars, hookVars
<1>15. CASE CheckoutChanges
  BY <1>1, <1>15 DEF CheckoutChanges, Edit, Replace, hookVars
<1>16. ASSUME NEW q \in Roots, NEW kind \in Kinds, YayRunsMakepkg(q, kind)
       PROVE  UNCHANGED <<hook, reviewed, listed, folders, receipts>>
  BY <1>16 DEF YayRunsMakepkg, Invoke, hookVars
<1>17. ASSUME NEW q \in Roots, YayInstalls(q)
       PROVE  UNCHANGED <<hook, reviewed, listed, folders, receipts>>
  BY <1>17 DEF YayInstalls, hookVars, checkoutVars
<1>18. CASE UNCHANGED vars
  BY <1>1, <1>18 DEF vars, hookVars, checkoutVars
<1> QED
  BY <1>1, <1>2, <1>13, <1>14, <1>15, <1>16, <1>17, <1>18 DEF Next, YayRunsHook

(* A receipt covers every file that was listed when its directory was        *)
(* scanned, unless it had become a subdirectory, however the files changed   *)
(* meanwhile.                                                                *)
THEOREM CompleteReceipts == Spec => []ReceiptsAreComplete
<1>1. SInv /\ ScanInv /\ [Next]_vars => ScanInv'
  BY StepScanInv
<1>2. SInv /\ ScanInv => ReceiptsAreComplete
  BY DEF SInv, HookInv, ScanInv, ScanOK, Handled, ReceiptsAreComplete, Covered
<1> QED
  BY Invariance, InitScanInv, <1>1, <1>2, PTL DEF Spec
---------------------------------------------------------------------------
(* A step that leaves receipts, cleared, installed and audited alone is a    *)
(* stuttering step of the promise.                                           *)
LEMMA PromiseStutters ==
  ASSUME UNCHANGED <<receipts, cleared, installed, audited>>
  PROVE  UNCHANGED Promise!vars
  BY DEF Promise!vars, StageOf

(* Each step of a guarded transaction is a step of the promise, or leaves it *)
(* alone.                                                                    *)
LEMMA StepPromise == SInv /\ [Next]_vars => [Promise!Next]_Promise!vars
<1> SUFFICES ASSUME SInv, [Next]_vars
             PROVE  Promise!Next \/ UNCHANGED Promise!vars
  OBVIOUS
<1> DEFINE stage == [r \in Roots |-> StageOf(r)]
<1>0. /\ HookInv /\ TypeOK
      /\ receipts \in [Roots -> Receipt \cup {NoReceipt}]
      /\ calls \in [Roots ->
           [pc : CallStages, kind : Kinds, todo : SUBSET Files,
            next : 1 .. MaxArchives + 1,
            status : {"none", "ok", "failed", "refused"}]]
      /\ NoReceipt \notin Receipt
  BY CheckoutAssumption DEF SInv, TypeOK, CheckoutTypeOK, MakepkgTypeOK
<1>0a. \A r \in Roots :
         /\ r \in cleared => hook.exit = "allow" /\ receipts[r] # NoReceipt
         /\ r \in installed => r \in cleared
         /\ calls[r].pc \in {"run", "inspect"} =>
              hook.exit = "allow" /\ receipts[r] # NoReceipt
  BY DEF SInv, HookInv, CallInv, CallOK, ArchiveInv, ArchivesOK, PastCheck,
         Active, CallStages
<1>1. CASE UNCHANGED <<receipts, cleared, installed, audited>>
  BY <1>1, PromiseStutters
(* A receipt is an approval, unless the directory has one already.           *)
<1>2. ASSUME NEW r \in Roots, WriteReceipt(r),
             UNCHANGED <<cleared, installed>>
      PROVE  Promise!Next \/ UNCHANGED Promise!vars
  <2>1. /\ hook.pc = "receipts" /\ UNCHANGED audited /\ ~audited
        /\ r \notin cleared /\ r \notin installed
    BY <1>0, <1>0a, <1>2 DEF WriteReceipt, HookInv
  <2>2. /\ \A q \in Roots \ {r} : receipts'[q] = receipts[q]
        /\ receipts'[r] # NoReceipt
    <3>1. receipts'[r] \in Receipt
      <4>1. receipts'[r] = [identity |-> identity[r], files |-> reviewed[r]]
        BY <1>0, <1>2 DEF WriteReceipt
      <4> QED
        BY <1>0, <4>1 DEF TypeOK, CheckoutTypeOK, HookTypeOK, Receipt
    <3> QED
      BY <1>0, <1>2, <3>1 DEF WriteReceipt
  <2>3. stage' = [stage EXCEPT ![r] = "approved"]
    BY <1>2, <2>1, <2>2 DEF StageOf
  <2>4. CASE receipts[r] = NoReceipt
    <3>1. stage[r] = "unreviewed"
      BY <2>1, <2>4 DEF StageOf
    <3> QED
      BY <2>1, <2>3, <3>1 DEF Promise!Next, Promise!Approve
  <2>5. CASE receipts[r] # NoReceipt
    <3>1. stage[r] = "approved"
      BY <2>1, <2>5 DEF StageOf
    <3>2. stage' = stage
      BY <2>3, <3>1
    <3> QED
      BY <2>1, <3>2 DEF Promise!vars
  <2> QED
    BY <2>4, <2>5
<1>3. ASSUME WriteAudit, UNCHANGED <<cleared, installed>>
      PROVE  Promise!Next \/ UNCHANGED Promise!vars
  <2>1. /\ hook.pc = "receipts" /\ hook.queue = {} /\ ~audited
        /\ UNCHANGED receipts /\ audited' \in BOOLEAN
    BY <1>0, <1>3 DEF WriteAudit, HookInv, checkoutVars
  <2>2. \A r \in Roots : StageOf(r) = "approved"
    BY <1>0, <1>0a, <2>1 DEF HookInv, StageOf
  <2>3. CASE audited'
    <3>1. stage' = stage
      BY <1>3, <2>1 DEF StageOf
    <3>2. \A r \in Roots : stage[r] = "approved"
      BY <2>2
    <3>3. audited' = TRUE
      BY <2>1, <2>3
    <3> QED
      BY <3>1, <3>2, <3>3 DEF Promise!Next, Promise!Record
  <2>4. CASE ~audited'
    <3>1. audited \in BOOLEAN
      BY <1>0 DEF TypeOK, HookTypeOK
    <3>2. audited' = audited
      BY <2>1, <2>4, <3>1, Zenon
    <3> QED
      BY <1>1, <1>3, <2>1, <3>2
  <2> QED
    BY <2>3, <2>4
(* The cleared set changes: a building call has returned 0.                  *)
<1>4. ASSUME NEW r \in Roots, CallSteps(r)
      PROVE  Promise!Next \/ UNCHANGED Promise!vars
  <2>1. UNCHANGED <<receipts, audited, installed>>
    BY <1>4
    DEF CallSteps, CallNext, CallRuns, CheckReceipt, VerifyFile, OpenReturns, Run,
        MakepkgReturns, ListPackages, Inspect, Inspected, checkoutVars, hookVars
  <2>2. CASE /\ cleared' = cleared \cup {r} /\ r \notin cleared
             /\ ExpectsPackage(calls[r].kind)
             /\ calls'[r].pc = "returned" /\ calls'[r].status = "ok"
    <3>1. calls[r].pc \in {"run", "inspect"}
      BY <1>0, <1>4, <2>2
      DEF CallSteps, CallNext, CallRuns, CheckReceipt, VerifyFile, OpenReturns, Run,
          MakepkgReturns, ListPackages, Inspect, Inspected, Goto, Return
    <3>2. StageOf(r) = "approved" /\ audited
      BY <1>0, <1>0a, <2>2, <3>1 DEF StageOf, HookInv
    <3>3. stage' = [stage EXCEPT ![r] = "built"]
      BY <1>0a, <2>1, <2>2 DEF StageOf
    <3> QED
      BY <2>1, <3>2, <3>3 DEF Promise!Next, Promise!Build
  <2>3. CASE cleared' = cleared
    BY <1>1, <2>1, <2>3
  <2>4. cleared' = cleared
          \/ /\ cleared' = cleared \cup {r} /\ r \notin cleared
             /\ ExpectsPackage(calls[r].kind)
             /\ calls'[r].pc = "returned" /\ calls'[r].status = "ok"
    <3>1. CASE r \in cleared
      <4>1. cleared \cup {r} = cleared
        BY <3>1
      <4> QED
        BY <1>4, <4>1 DEF CallSteps
    <3>2. CASE r \notin cleared
      BY <1>4, <3>2 DEF CallSteps
    <3> QED
      BY <3>1, <3>2
  <2> QED
    BY <2>2, <2>3, <2>4
(* A new building call takes a cleared package back.                         *)
<1>5. ASSUME NEW r \in Roots, NEW kind \in Kinds, YayRunsMakepkg(r, kind)
      PROVE  Promise!Next \/ UNCHANGED Promise!vars
  <2>1. UNCHANGED <<receipts, audited, installed>> /\ r \notin installed
    BY <1>5 DEF YayRunsMakepkg, Invoke, hookVars
  <2>2. CASE cleared' = cleared \ {r} /\ r \in cleared
    <3>1. StageOf(r) = "built"
      BY <2>1, <2>2 DEF StageOf
    <3>2. stage' = [stage EXCEPT ![r] = "approved"]
      BY <1>0a, <2>1, <2>2 DEF StageOf
    <3> QED
      BY <2>1, <3>1, <3>2 DEF Promise!Next, Promise!Fail
  <2>3. CASE cleared' = cleared
    BY <1>1, <2>1, <2>3
  <2>4. cleared' = cleared \/ (cleared' = cleared \ {r} /\ r \in cleared)
    <3>1. CASE r \notin cleared
      <4>1. cleared \ {r} = cleared
        BY <3>1
      <4> QED
        BY <1>5, <4>1 DEF YayRunsMakepkg
    <3>2. CASE r \in cleared
      BY <1>5, <3>2 DEF YayRunsMakepkg
    <3> QED
      BY <3>1, <3>2
  <2> QED
    BY <2>2, <2>3, <2>4
<1>6. ASSUME NEW r \in Roots, YayInstalls(r)
      PROVE  Promise!Next \/ UNCHANGED Promise!vars
  <2>1. /\ UNCHANGED <<receipts, audited, cleared>>
        /\ r \in cleared /\ r \notin installed
        /\ installed' = installed \cup {r}
    BY <1>6 DEF YayInstalls, checkoutVars, hookVars
  <2>2. StageOf(r) = "built"
    BY <2>1 DEF StageOf
  <2>3. stage' = [stage EXCEPT ![r] = "installed"]
    BY <2>1 DEF StageOf
  <2> QED
    BY <2>1, <2>2, <2>3 DEF Promise!Next, Promise!Install
<1>7. CASE YayRunsHook
  BY <1>1, <1>7 DEF YayRunsHook, StartHook, checkoutVars
<1>8. CASE HookSteps
  <2>1. UNCHANGED <<cleared, installed>>
    BY <1>8 DEF HookSteps
  <2> QED
    BY <1>1, <1>2, <1>3, <1>8, <2>1, HookStepCases
    DEF ListRoot, StatFile, ReadFile, FifoOpened, RootScanned, ScanEnds, Gate,
        GateFails, ReceiptFails, RefusalEnds, Accept, Decline, HookDies,
        checkoutVars
<1>9. CASE CheckoutChanges
  BY <1>1, <1>9 DEF CheckoutChanges, Edit, Replace, hookVars
<1>10. CASE UNCHANGED vars
  BY <1>1, <1>10 DEF vars, hookVars, checkoutVars
<1> QED
  BY <1>4, <1>5, <1>6, <1>7, <1>8, <1>9, <1>10 DEF Next

(* The hook and the makepkg guard keep the abstract promise: a package is    *)
(* built only after its transaction's review was approved and recorded, and  *)
(* installed only after a build the guard let through.                       *)
THEOREM Refinement == Spec => KeepsPromise
<1>1. Init => Promise!Init
  BY DEF Init, CheckoutInit, HookInit, Promise!Init, StageOf
<1> QED
  BY Invariance, <1>1, StepPromise, PTL DEF Spec, KeepsPromise, Promise!Spec
=============================================================================
