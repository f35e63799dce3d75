--------------------------- MODULE CodexReviewProofs ---------------------------
(* The safety of one Codex review, for any packages, any reports Codex may   *)
(* give, any timeout and any grace period.                                   *)
(*                                                                           *)
(* Timing ties each timer to the shared deadline, Processes says what is     *)
(* left of Codex at each stage, and Progress that a batch is only started    *)
(* while one is missing.  None of the properties is inductive without them.  *)
EXTENDS CodexReview, FunctionTheorems, FiniteSetTheorems, TLAPS

Timing ==
  /\ limit <= Timeout + Grace
  /\ pc = "communicate" => limit = Timeout

Progress ==
  /\ pc \in Waiting \cup {"killed"} => Len(reviews) < Len(Batches)
  /\ outcome = "report" => Len(reviews) = Len(Batches)
  /\ pc # "done" => outcome = "none"

Processes ==
  /\ pc \in {"validate", "loop"} => leader \in {"none", "reaped"}
  /\ pc \in Waiting => leader \in {"running", "exited"}
  /\ pc = "done" /\ outcome # "interrupted" => leader \in {"none", "reaped"}
  /\ pc = "killed" => leader = "exited" /\ helper = "none"

IInv == TypeOK /\ Timing /\ Progress /\ Processes

USE DEF Waiting

LEMMA InitIInv == Init => IInv
  BY CodexAssumption DEF Init, IInv, TypeOK, Timing, Progress, Processes

(* A further report is still one for a package.                              *)
LEMMA OneMoreReport ==
  ASSUME TypeOK, Len(reviews) < Len(Batches), NEW answer \in Answers
  PROVE  /\ Append(reviews, answer) \in Seq(Answers)
         /\ Len(Append(reviews, answer)) <= Len(Batches)
<1>1. reviews \in Seq(Answers) /\ Len(reviews) \in Nat /\ Len(Batches) \in Nat
  BY CodexAssumption DEF TypeOK
<1> QED
  BY <1>1

(* Every step keeps the variables in their types.                            *)
LEMMA StepTypeOK == IInv /\ [Next]_vars => TypeOK'
<1> SUFFICES ASSUME IInv, [Next]_vars PROVE TypeOK'
  OBVIOUS
<1> USE CodexAssumption DEF TypeOK, IInv, Progress, Timing
<1>1. CASE UNCHANGED vars
  BY <1>1 DEF vars
<1>2. CASE Validate \/ OutOfTime \/ StartFails \/ Finish
  BY <1>2 DEF Validate, OutOfTime, StartFails, Finish, End
<1>3. CASE StartBatch
  BY <1>3 DEF StartBatch, Remaining
<1>4. CASE Collect
  BY <1>4, OneMoreReport DEF Collect, End
<1>5. CASE TimeOut \/ Reap \/ SigKill \/ Interrupt
  BY <1>5 DEF TimeOut, Reap, SigKill, Interrupt, End
<1>6. CASE Spawn \/ LeaderExits \/ HelperExits \/ Tick
  BY <1>6 DEF Spawn, LeaderExits, HelperExits, Tick
<1> QED
  BY <1>1, <1>2, <1>3, <1>4, <1>5, <1>6 DEF Next, Guard

(* Timers stay within the deadline and its grace period.                     *)
LEMMA StepTiming == IInv /\ [Next]_vars => Timing'
<1> SUFFICES ASSUME IInv, [Next]_vars PROVE Timing'
  OBVIOUS
<1> USE CodexAssumption DEF TypeOK, IInv, Timing
<1>1. CASE UNCHANGED vars
  BY <1>1 DEF vars
<1>2. CASE Validate \/ OutOfTime \/ StartFails \/ Finish
  BY <1>2 DEF Validate, OutOfTime, StartFails, Finish, End
<1>3. CASE StartBatch
  BY <1>3 DEF StartBatch, Remaining
<1>4. CASE Collect
  BY <1>4 DEF Collect, End
<1>5. CASE TimeOut \/ Reap \/ SigKill \/ Interrupt
  BY <1>5 DEF TimeOut, Reap, SigKill, Interrupt, End
<1>6. CASE Spawn \/ LeaderExits \/ HelperExits \/ Tick
  BY <1>6 DEF Spawn, LeaderExits, HelperExits, Tick
<1> QED
  BY <1>1, <1>2, <1>3, <1>4, <1>5, <1>6 DEF Next, Guard

(* What is left of Codex and of the packages at each stage.                  *)
LEMMA StepStages == IInv /\ [Next]_vars => Progress' /\ Processes'
<1> SUFFICES ASSUME IInv, [Next]_vars PROVE Progress' /\ Processes'
  OBVIOUS
<1> USE CodexAssumption DEF TypeOK, IInv, Progress, Processes
<1>1. CASE UNCHANGED vars
  BY <1>1 DEF vars
<1>2. CASE Validate \/ OutOfTime \/ StartFails \/ Finish
  BY <1>2 DEF Validate, OutOfTime, StartFails, Finish, End
<1>3. CASE StartBatch
  BY <1>3 DEF StartBatch
<1>4. CASE Collect
  BY <1>4, OneMoreReport DEF Collect, End
<1>5. CASE TimeOut \/ Reap \/ SigKill \/ Interrupt
  BY <1>5 DEF TimeOut, Reap, SigKill, Interrupt, End
<1>6. CASE Spawn \/ LeaderExits \/ HelperExits \/ Tick
  BY <1>6 DEF Spawn, LeaderExits, HelperExits, Tick
<1> QED
  BY <1>1, <1>2, <1>3, <1>4, <1>5, <1>6 DEF Next, Guard

LEMMA Invariance == Spec => []IInv
<1>1. IInv /\ [Next]_vars => IInv'
  BY StepTypeOK, StepTiming, StepStages DEF IInv
<1> QED
  BY InitIInv, <1>1, PTL DEF Spec

(* The variables of a Codex review keep to their types; in particular the    *)
(* clock never passes a pending timer.                                       *)
THEOREM TypeCorrect == Spec => []TypeOK
<1>1. IInv => TypeOK
  BY DEF IInv
<1> QED
  BY Invariance, <1>1, PTL

(* One deadline for all packages, and one grace period after it, however     *)
(* many packages there are and whatever Codex does.                          *)
THEOREM InTime == Spec => []DeadlineRespected
<1>1. IInv => DeadlineRespected
  BY CodexAssumption DEF IInv, TypeOK, Timing, DeadlineRespected
<1> QED
  BY Invariance, <1>1, PTL

(* Without Ctrl-C no Codex leader outlives the review, and SIGKILL leaves    *)
(* none of its group.                                                        *)
THEOREM LeavesNone == Spec => []NoOrphans
<1>1. IInv => NoOrphans
  BY DEF IInv, Processes, NoOrphans
<1> QED
  BY Invariance, <1>1, PTL

---------------------------------------------------------------------------
(* The verdict of all reports together is one of them and none is worse.     *)
LEMMA WorstOfAll ==
  ASSUME NEW n \in Nat \ {0}, NEW r, DOMAIN r = 1 .. n,
         \A i \in 1 .. n : r[i].verdict \in Verdicts
  PROVE  /\ \E i \in 1 .. n : r[i].verdict = WorstVerdict(r)
         /\ \A i \in 1 .. n : VerdictOrder[r[i].verdict] <= VerdictOrder[WorstVerdict(r)]
<1> DEFINE given == {r[i].verdict : i \in DOMAIN r}
<1>1. given \subseteq Verdicts /\ r[1].verdict \in given
  OBVIOUS
<1>2. \E v \in given : \A w \in given : VerdictOrder[w] <= VerdictOrder[v]
  <2>1. VerdictOrder["allow"] = 0 /\ VerdictOrder["warn"] = 1 /\ VerdictOrder["block"] = 2
    BY DEF VerdictOrder
  <2>2. CASE "block" \in given
    BY <1>1, <2>1, <2>2 DEF Verdicts
  <2>3. CASE "block" \notin given /\ "warn" \in given
    BY <1>1, <2>1, <2>3 DEF Verdicts
  <2>4. CASE "block" \notin given /\ "warn" \notin given
    BY <1>1, <2>1, <2>4 DEF Verdicts
  <2> QED
    BY <2>2, <2>3, <2>4
<1>3. WorstVerdict(r) = CHOOSE v \in given : \A w \in given :
                          VerdictOrder[w] <= VerdictOrder[v]
  BY DEF WorstVerdict
<1>4. /\ WorstVerdict(r) \in given
      /\ \A w \in given : VerdictOrder[w] <= VerdictOrder[WorstVerdict(r)]
  BY <1>2, <1>3
<1> QED
  BY <1>4

(* The confidence of all reports together is one of them and none is less.   *)
LEMMA LeastOfAll ==
  ASSUME NEW n \in Nat \ {0}, NEW r, DOMAIN r = 1 .. n,
         \A i \in 1 .. n : r[i].confidence \in Confidences
  PROVE  /\ \E i \in 1 .. n : r[i].confidence = LeastConfidence(r)
         /\ \A i \in 1 .. n :
              ConfidenceOrder[LeastConfidence(r)] <= ConfidenceOrder[r[i].confidence]
<1> DEFINE given == {r[i].confidence : i \in DOMAIN r}
<1>1. given \subseteq Confidences /\ r[1].confidence \in given
  OBVIOUS
<1>2. \E c \in given : \A d \in given : ConfidenceOrder[c] <= ConfidenceOrder[d]
  <2>1. /\ ConfidenceOrder["low"] = 0 /\ ConfidenceOrder["medium"] = 1
        /\ ConfidenceOrder["high"] = 2
    BY DEF ConfidenceOrder
  <2>2. CASE "low" \in given
    BY <1>1, <2>1, <2>2 DEF Confidences
  <2>3. CASE "low" \notin given /\ "medium" \in given
    BY <1>1, <2>1, <2>3 DEF Confidences
  <2>4. CASE "low" \notin given /\ "medium" \notin given
    BY <1>1, <2>1, <2>4 DEF Confidences
  <2> QED
    BY <2>2, <2>3, <2>4
<1>3. LeastConfidence(r) = CHOOSE c \in given : \A d \in given :
                             ConfidenceOrder[c] <= ConfidenceOrder[d]
  BY DEF LeastConfidence
<1>4. /\ LeastConfidence(r) \in given
      /\ \A d \in given : ConfidenceOrder[LeastConfidence(r)] <= ConfidenceOrder[d]
  BY <1>2, <1>3
<1> QED
  BY <1>4

(* Where there is a report there is one of each package.                     *)
LEMMA AllReported ==
  ASSUME IInv, outcome = "report"
  PROVE  /\ Len(reviews) = Len(Batches) /\ Len(reviews) \in Nat \ {0}
         /\ DOMAIN reviews = 1 .. Len(reviews)
         /\ \A i \in 1 .. Len(reviews) : reviews[i] \in Review(Paths)
<1>1. reviews \in Seq(Answers) /\ Len(reviews) = Len(Batches)
  BY DEF IInv, TypeOK, Progress
<1>2. Len(Batches) \in Nat \ {0}
  BY CodexAssumption
<1> QED
  BY <1>1, <1>2, CodexAssumption

(* What the gate asks of the combined report holds of each package's.        *)
LEMMA EachReport ==
  ASSUME IInv, outcome = "report", ~Closed(Expected, Combine(reviews)),
         NEW i \in DOMAIN reviews
  PROVE  /\ reviews[i].verdict \in {"allow", "warn"}
         /\ reviews[i].confidence \in {"medium", "high"}
         /\ reviews[i].complete /\ ~reviews[i].limitations
         /\ Combine(reviews).verdict = "allow" => reviews[i].verdict = "allow"
         /\ Combine(reviews).confidence = "high" => reviews[i].confidence = "high"
<1>1. /\ Len(reviews) \in Nat \ {0} /\ DOMAIN reviews = 1 .. Len(reviews)
      /\ \A k \in 1 .. Len(reviews) :
           reviews[k].verdict \in Verdicts /\ reviews[k].confidence \in Confidences
  BY AllReported DEF Review
<1>2. /\ WorstVerdict(reviews) \in Verdicts
      /\ VerdictOrder[reviews[i].verdict] <= VerdictOrder[WorstVerdict(reviews)]
  BY <1>1, WorstOfAll
<1>3. /\ LeastConfidence(reviews) \in Confidences
      /\ ConfidenceOrder[LeastConfidence(reviews)]
           <= ConfidenceOrder[reviews[i].confidence]
  BY <1>1, LeastOfAll
<1>4. /\ Combine(reviews).verdict = WorstVerdict(reviews)
      /\ Combine(reviews).confidence = LeastConfidence(reviews)
      /\ Combine(reviews).complete = (\A k \in DOMAIN reviews : reviews[k].complete)
      /\ Combine(reviews).limitations = (\E k \in DOMAIN reviews : reviews[k].limitations)
  BY DEF Combine
<1>5. /\ WorstVerdict(reviews) # "block" /\ LeastConfidence(reviews) # "low"
      /\ reviews[i].complete /\ ~reviews[i].limitations
  BY <1>4 DEF Closed
<1>6. /\ reviews[i].verdict \in {"allow", "warn"}
      /\ WorstVerdict(reviews) = "allow" => reviews[i].verdict = "allow"
  BY <1>1, <1>2, <1>5 DEF Verdicts, VerdictOrder
<1>7. /\ reviews[i].confidence \in {"medium", "high"}
      /\ LeastConfidence(reviews) = "high" => reviews[i].confidence = "high"
  BY <1>1, <1>3, <1>5 DEF Confidences, ConfidenceOrder
<1> QED
  BY <1>4, <1>5, <1>6, <1>7

(* A person is asked only about reviews that are complete, without           *)
(* limitations and of at least medium confidence for every package, for any  *)
(* number of packages and any reports.                                       *)
THEOREM Asked == Spec => []OverridableWarning
<1>1. IInv => OverridableWarning
  <2> SUFFICES ASSUME IInv, GateVerdict = "warn" PROVE
        /\ Len(reviews) = Len(Batches)
        /\ \A i \in DOMAIN reviews :
             /\ reviews[i].verdict \in {"allow", "warn"}
             /\ reviews[i].confidence \in {"medium", "high"}
             /\ reviews[i].complete /\ ~reviews[i].limitations
        /\ \E i \in DOMAIN reviews : reviews[i].verdict = "warn"
    BY DEF OverridableWarning
  <2>1. /\ outcome = "report" /\ ~Closed(Expected, Combine(reviews))
        /\ Combine(reviews).verdict = "warn"
    BY DEF GateVerdict, CodexGate
  <2>2. \E i \in DOMAIN reviews : reviews[i].verdict = "warn"
    BY <2>1, AllReported, WorstOfAll DEF Review, Combine
  <2> QED
    BY <2>1, <2>2, AllReported, EachReport
<1> QED
  BY Invariance, <1>1, PTL

(* The places of the combined list are finitely many.                        *)
LEMMA PlacesAreFinite ==
  ASSUME NEW n \in Nat, NEW r, DOMAIN r = 1 .. n,
         \A i \in 1 .. n : r[i].files \in Seq(Paths)
  PROVE  IsFiniteSet(Places(r))
<1> DEFINE places == [i \in 1 .. n |-> {i} \X DOMAIN r[i].files]
           parts == {places[i] : i \in 1 .. n}
<1>1. places \in Surjection(1 .. n, parts)
  BY DEF Surjection
<1>2. IsFiniteSet(1 .. n)
  BY FS_Interval
<1> HIDE DEF places, parts
<1>3. IsFiniteSet(parts)
  BY <1>1, <1>2, FS_Surjection
<1> USE DEF places, parts
<1>4. ASSUME NEW part \in parts PROVE IsFiniteSet(part)
  <2>1. PICK i \in 1 .. n : part = {i} \X DOMAIN r[i].files
    OBVIOUS
  <2>2. DOMAIN r[i].files = 1 .. Len(r[i].files) /\ Len(r[i].files) \in Nat
    OBVIOUS
  <2>3. IsFiniteSet({i})
    BY FS_Singleton
  <2>4. IsFiniteSet(1 .. Len(r[i].files))
    BY <2>2, FS_Interval
  <2> QED
    BY <2>1, <2>2, <2>3, <2>4, FS_Product
<1>5. Places(r) = UNION parts
  BY DEF Places
<1> HIDE DEF places, parts
<1> QED
  BY <1>3, <1>4, <1>5, FS_UNION

(* As many entries as there are expected files, and no other file: each is   *)
(* listed once, by one package.                                              *)
LEMMA ListedOnce ==
  ASSUME NEW n \in Nat, NEW r, DOMAIN r = 1 .. n,
         \A i \in 1 .. n : r[i].files \in Seq(Paths),
         NEW expected, ExactManifest(expected, AllFiles(r))
  PROVE  /\ UNION {Range(r[i].files) : i \in DOMAIN r} = expected
         /\ \A i, k \in DOMAIN r :
              \A j \in DOMAIN r[i].files, l \in DOMAIN r[k].files :
                r[i].files[j] = r[k].files[l] => i = k /\ j = l
<1> DEFINE all == AllFiles(r)
<1>1. \A i \in 1 .. n : \A j \in DOMAIN r[i].files :
        <<i, j>> \in Places(r) /\ all[<<i, j>>] = r[i].files[j]
  BY DEF AllFiles, Places
<1>2. \A p \in Places(r) : \E i \in 1 .. n : \E j \in DOMAIN r[i].files :
        p = <<i, j>>
  BY DEF Places
<1>3. DOMAIN all = Places(r) /\ all = [p \in Places(r) |-> all[p]]
  BY DEF AllFiles
<1>4. {all[p] : p \in Places(r)} = expected
  BY <1>3 DEF ExactManifest, Range
<1>5. all \in Surjection(Places(r), expected)
  BY <1>3, <1>4 DEF Surjection
<1>6. Cardinality(Places(r)) = Cardinality(expected)
  BY <1>3 DEF ExactManifest
<1> HIDE DEF all
<1>7. all \in Injection(Places(r), expected)
  BY <1>5, <1>6, PlacesAreFinite, FS_SurjSameCardinalityImpliesInj
<1>8. \A p, q \in Places(r) : all[p] = all[q] => p = q
  BY <1>7 DEF Injection, IsInjective
<1>9. UNION {Range(r[i].files) : i \in DOMAIN r} = expected
  <2>1. \A x : x \in UNION {Range(r[i].files) : i \in DOMAIN r}
                 <=> \E i \in 1 .. n : \E j \in DOMAIN r[i].files : x = r[i].files[j]
    BY DEF Range
  <2>2. \A x : x \in expected
                 <=> \E i \in 1 .. n : \E j \in DOMAIN r[i].files : x = r[i].files[j]
    <3>1. ASSUME NEW x \in expected
          PROVE  \E i \in 1 .. n : \E j \in DOMAIN r[i].files : x = r[i].files[j]
      <4>1. PICK p \in Places(r) : x = all[p]
        BY <1>4, <3>1
      <4>2. PICK i \in 1 .. n : \E j \in DOMAIN r[i].files : p = <<i, j>>
        BY <1>2
      <4> QED
        BY <1>1, <4>1, <4>2
    <3>2. ASSUME NEW i \in 1 .. n, NEW j \in DOMAIN r[i].files
          PROVE  r[i].files[j] \in expected
      BY <1>1, <1>4
    <3> QED
      BY <3>1, <3>2
  <2> QED
    BY <2>1, <2>2
<1>10. ASSUME NEW i \in 1 .. n, NEW k \in 1 .. n,
              NEW j \in DOMAIN r[i].files, NEW l \in DOMAIN r[k].files,
              r[i].files[j] = r[k].files[l]
       PROVE  i = k /\ j = l
  <2>1. /\ <<i, j>> \in Places(r) /\ all[<<i, j>>] = r[i].files[j]
        /\ <<k, l>> \in Places(r) /\ all[<<k, l>>] = r[k].files[l]
    BY <1>1
  <2>2. all[<<i, j>>] = all[<<k, l>>]
    BY <1>10, <2>1
  <2>3. <<i, j>> = <<k, l>>
    BY <1>8, <2>1, <2>2
  <2> QED
    BY <2>3
<1> QED
  BY <1>9, <1>10

(* The gate opens by itself only if each package has a complete,             *)
(* high-confidence allow with neither findings nor limitations, and the      *)
(* reports list each expected file once, for any number of packages, files   *)
(* and reports (gate.py 50-114).                                             *)
THEOREM Unanimous == Spec => []AllowIsUnanimous
<1>1. IInv => AllowIsUnanimous
  <2> SUFFICES ASSUME IInv, GateVerdict = "allow" PROVE
        /\ Len(reviews) = Len(Batches)
        /\ \A i \in DOMAIN reviews :
             /\ reviews[i].verdict = "allow" /\ reviews[i].confidence = "high"
             /\ reviews[i].complete
             /\ ~reviews[i].findings /\ ~reviews[i].limitations
        /\ UNION {Range(reviews[i].files) : i \in DOMAIN reviews} = Expected
        /\ \A i, k \in DOMAIN reviews :
             \A j \in DOMAIN reviews[i].files, l \in DOMAIN reviews[k].files :
               reviews[i].files[j] = reviews[k].files[l] => i = k /\ j = l
    BY DEF AllowIsUnanimous
  <2>1. /\ outcome = "report" /\ ~Closed(Expected, Combine(reviews))
        /\ Combine(reviews).verdict \notin {"block", "warn"}
        /\ Combine(reviews).confidence = "high" /\ ~Combine(reviews).findings
    BY DEF GateVerdict, CodexGate, Closed
  <2>2. Combine(reviews).verdict = "allow"
    BY <2>1, AllReported, WorstOfAll DEF Review, Combine, Verdicts
  <2>3. \A i \in DOMAIN reviews : ~reviews[i].findings
    BY <2>1 DEF Combine
  <2>4. ExactManifest(Expected, AllFiles(reviews))
    BY <2>1 DEF Closed, Combine
  <2>5. /\ Len(reviews) \in Nat /\ DOMAIN reviews = 1 .. Len(reviews)
        /\ \A i \in 1 .. Len(reviews) : reviews[i].files \in Seq(Paths)
    BY <2>1, AllReported DEF Review
  <2> QED
    BY <2>1, <2>2, <2>3, <2>4, <2>5, AllReported, EachReport, ListedOnce
<1> QED
  BY Invariance, <1>1, PTL
===============================================================================
