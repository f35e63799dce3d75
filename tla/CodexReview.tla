---------------------------- MODULE CodexReview ----------------------------
(* One review of a transaction's packages by Codex:                          *)
(* aur_codex_guard/codex_review.py, review_with_codex with _review_once and  *)
(* _kill_process_group, and the part of gate.py's review_packages that turns *)
(* its result into a verdict.                                                *)
(*                                                                           *)
(* Batches are reviewed one after the other; each runs the Codex CLI as the  *)
(* leader of a process group of its own.  Codex may start one more process   *)
(* in that group (helper), which either inherits Codex's pipes ("attached",  *)
(* so that communicate keeps reading after the leader has exited) or not     *)
(* ("detached").  All batches share one deadline.                            *)
(*                                                                           *)
(* Time is in seconds from the moment the deadline is computed, and passes   *)
(* only while the guard waits: everything else it does is instantaneous.     *)
(* A process may exit at any time or never, whatever signal it was sent,     *)
(* except SIGKILL.  The reports Codex may print are the constant Answers.    *)
EXTENDS ReviewPolicy

CONSTANTS
  Paths,    \* display paths of the reviewed files
  Batches,  \* the expected manifest of each package, in order
  Answers,  \* well-formed reports the CLI may print
  Timeout,  \* seconds allowed for all batches together
  Grace     \* seconds between SIGTERM and SIGKILL (2 in the code)

ASSUME CodexAssumption ==
  /\ Batches \in Seq(SUBSET Paths) /\ Len(Batches) > 0
  /\ Answers \subseteq Review(Paths)
  /\ Timeout \in Nat \ {0} /\ Grace \in Nat \ {0}

VARIABLES
  pc,       \* where the guard is
  now,      \* the monotonic clock
  limit,    \* when the timer of the current wait fires
  leader,   \* the Codex process of the current batch
  helper,   \* the other process of its group
  reviews,  \* the reports of the batches done so far
  outcome   \* how review_with_codex ended
vars == <<pc, now, limit, leader, helper, reviews, outcome>>

Waiting == {"communicate", "terminating"}

TypeOK ==
  /\ pc \in Waiting \cup {"validate", "loop", "killed", "done"}
  /\ now \in Nat /\ limit \in Nat /\ now <= limit
  /\ leader \in {"none", "running", "exited", "reaped"}
  /\ helper \in {"none", "attached", "detached"}
  /\ reviews \in Seq(Answers) /\ Len(reviews) <= Len(Batches)
  /\ outcome \in {"none", "report", "error", "oserror", "interrupted"}

Init ==
  /\ pc = "validate" /\ now = 0 /\ limit = 0
  /\ leader = "none" /\ helper = "none"
  /\ reviews = << >> /\ outcome = "none"

---------------------------------------------------------------------------
End(how) == pc' = "done" /\ outcome' = how

(* validate_codex_support: the CLI is found, new enough and complete, or     *)
(* CodexReviewError is raised.                                               *)
Validate ==
  /\ pc = "validate"
  /\ \/ pc' = "loop" /\ UNCHANGED outcome
     \/ End("error")
  /\ UNCHANGED <<now, limit, leader, helper, reviews>>

(* Mutant: every batch has the whole timeout.                                *)
Remaining_PerBatch(t) == Timeout

(* What is left of the shared deadline.                                      *)
Remaining(t) == Timeout - t

OutOfTime ==
  /\ pc = "loop" /\ Len(reviews) < Len(Batches)
  /\ Remaining(now) <= 0
  /\ End("error")
  /\ UNCHANGED <<now, limit, leader, helper, reviews>>

(* Mutant: one batch too many.                                               *)
StartBatch_OneMore ==
  /\ pc = "loop" /\ Len(reviews) <= Len(Batches)
  /\ Remaining(now) > 0
  /\ pc' = "communicate"
  /\ leader' = "running" /\ helper' = "none"
  /\ limit' = now + Remaining(now)
  /\ UNCHANGED <<now, reviews, outcome>>

(* _review_once: Popen starts a new session and communicate starts reading.  *)
StartBatch ==
  /\ pc = "loop" /\ Len(reviews) < Len(Batches)
  /\ Remaining(now) > 0
  /\ pc' = "communicate"
  /\ leader' = "running" /\ helper' = "none"
  /\ limit' = now + Remaining(now)
  /\ UNCHANGED <<now, reviews, outcome>>

(* Popen fails: the CLI has gone (FileNotFoundError, turned into an error),  *)
(* or any other OSError, which nothing in this module catches.               *)
StartFails ==
  /\ pc = "loop" /\ Len(reviews) < Len(Batches)
  /\ Remaining(now) > 0
  /\ End("error") \/ End("oserror")
  /\ UNCHANGED <<now, limit, leader, helper, reviews>>

(* communicate returns: the leader has exited and every pipe is closed.      *)
(* A zero exit status with a well-formed report is a review; a non-zero      *)
(* status, text that is not JSON or an ill-formed report is an error.        *)
PipesClosed == leader = "exited" /\ helper # "attached"

Collect ==
  /\ pc = "communicate" /\ PipesClosed
  /\ leader' = "reaped"
  /\ \/ \E answer \in Answers :
          /\ reviews' = Append(reviews, answer)
          /\ pc' = "loop" /\ UNCHANGED outcome
     \/ End("error") /\ UNCHANGED reviews
  /\ UNCHANGED <<now, limit, helper>>

(* communicate times out and _kill_process_group begins: poll, which reaps a *)
(* leader that has exited and leaves it at that, or SIGTERM to the group.    *)
TimeOut ==
  /\ pc = "communicate" /\ now >= limit
  /\ \/ /\ leader = "exited"
        /\ leader' = "reaped" /\ End("error") /\ UNCHANGED limit
     \/ /\ leader = "running"
        /\ pc' = "terminating" /\ limit' = now + Grace
        /\ UNCHANGED <<leader, outcome>>
  /\ UNCHANGED <<now, helper, reviews>>

(* process.wait after SIGTERM or SIGKILL sees the leader exit.               *)
Reap ==
  /\ pc \in {"terminating", "killed"} /\ leader = "exited"
  /\ leader' = "reaped" /\ End("error")
  /\ UNCHANGED <<now, limit, helper, reviews>>

(* Mutant: SIGTERM again, which may be ignored.                              *)
SigKill_Term ==
  /\ pc = "terminating" /\ now >= limit /\ leader = "running"
  /\ pc' = "killed"
  /\ UNCHANGED <<now, limit, leader, helper, reviews, outcome>>

(* Mutant: the leader is killed and not its group.                           *)
SigKill_LeaderOnly ==
  /\ pc = "terminating" /\ now >= limit /\ leader = "running"
  /\ leader' = "exited"
  /\ pc' = "killed"
  /\ UNCHANGED <<now, limit, helper, reviews, outcome>>

(* The wait after SIGTERM times out: SIGKILL to the whole group.             *)
SigKill ==
  /\ pc = "terminating" /\ now >= limit /\ leader = "running"
  /\ leader' = "exited" /\ helper' = "none"
  /\ pc' = "killed"
  /\ UNCHANGED <<now, limit, reviews, outcome>>

(* Ctrl-C while the guard waits.  Codex is in another session: it gets no    *)
(* signal, and KeyboardInterrupt is not caught here.                         *)
Interrupt ==
  /\ pc \in Waiting
  /\ End("interrupted")
  /\ UNCHANGED <<now, limit, leader, helper, reviews>>

(* All batches are reviewed.                                                 *)
Finish ==
  /\ pc = "loop" /\ Len(reviews) = Len(Batches)
  /\ End("report")
  /\ UNCHANGED <<now, limit, leader, helper, reviews>>

---------------------------------------------------------------------------
(* The Codex processes and the clock.                                        *)
Spawn ==
  /\ leader = "running" /\ helper = "none"
  /\ helper' \in {"attached", "detached"}
  /\ UNCHANGED <<pc, now, limit, leader, reviews, outcome>>

LeaderExits ==
  /\ leader = "running"
  /\ leader' = "exited"
  /\ UNCHANGED <<pc, now, limit, helper, reviews, outcome>>

HelperExits ==
  /\ helper # "none"
  /\ helper' = "none"
  /\ UNCHANGED <<pc, now, limit, leader, reviews, outcome>>

(* A pending timer fires before the clock moves past it.                     *)
Tick ==
  /\ pc \in Waiting /\ now < limit
  /\ now' = now + 1
  /\ UNCHANGED <<pc, limit, leader, helper, reviews, outcome>>

Guard ==
  \/ Validate \/ OutOfTime \/ StartBatch \/ StartFails \/ Collect
  \/ TimeOut \/ Reap \/ SigKill \/ Finish

Next ==
  \/ Guard \/ Interrupt
  \/ Spawn \/ LeaderExits \/ HelperExits \/ Tick

(* The guard runs whenever it can and time passes; nothing is assumed of     *)
(* Codex, and Ctrl-C may never come.                                         *)
Spec == Init /\ [][Next]_vars /\ WF_vars(Guard) /\ WF_vars(Tick)

---------------------------------------------------------------------------
(* gate.py: the verdict over the result.  A CodexReviewError blocks; any     *)
(* other exception propagates and there is no verdict.                       *)
Expected == UNION Range(Batches)

GateVerdict ==
  CASE outcome = "report" -> CodexGate(Expected, Combine(reviews))
    [] outcome = "error"  -> "block"
    [] OTHER              -> "none"

(* The gate opens by itself only if Codex answered for every package, every  *)
(* answer was a complete, high-confidence allow with neither findings nor    *)
(* limitations, and the answers together list each expected file once        *)
(* (gate.py 50-114 over the aggregation of codex_review.py 518-531).         *)
AllowIsUnanimous ==
  GateVerdict = "allow" =>
    /\ Len(reviews) = Len(Batches)
    /\ \A i \in DOMAIN reviews :
         /\ reviews[i].verdict = "allow" /\ reviews[i].confidence = "high"
         /\ reviews[i].complete
         /\ ~reviews[i].findings /\ ~reviews[i].limitations
    /\ UNION {Range(reviews[i].files) : i \in DOMAIN reviews} = Expected
    /\ \A i, k \in DOMAIN reviews :
         \A j \in DOMAIN reviews[i].files, l \in DOMAIN reviews[k].files :
           reviews[i].files[j] = reviews[k].files[l] => i = k /\ j = l

(* A person is asked only about a review that is complete, without           *)
(* limitations and of at least medium confidence for every package, where no *)
(* package was blocked and at least one was warned about (gate.py 50-87).    *)
OverridableWarning ==
  GateVerdict = "warn" =>
    /\ Len(reviews) = Len(Batches)
    /\ \A i \in DOMAIN reviews :
         /\ reviews[i].verdict \in {"allow", "warn"}
         /\ reviews[i].confidence \in {"medium", "high"}
         /\ reviews[i].complete /\ ~reviews[i].limitations
    /\ \E i \in DOMAIN reviews : reviews[i].verdict = "warn"

(* However many packages there are, communicate never waits past the one     *)
(* shared deadline, and the guard is done a grace period after it            *)
(* (codex_review.py 504-516 and 225-237).                                    *)
DeadlineRespected ==
  /\ pc = "communicate" => now <= Timeout
  /\ now <= Timeout + Grace

(* Unless the user interrupts it, the guard leaves no Codex leader running   *)
(* or unreaped, and never has two at once; and where SIGKILL was needed no   *)
(* process of the group is left (codex_review.py 225-237).  Excepted is what *)
(* a leader that exits by itself or on SIGTERM leaves behind in its group.   *)
NoOrphans ==
  /\ pc = "done" /\ outcome # "interrupted" => leader \in {"none", "reaped"}
  /\ pc = "loop" => leader \in {"none", "reaped"}
  /\ pc = "killed" => leader = "exited" /\ helper = "none"

(* The review always ends, whatever Codex does with its signals and pipes.   *)
ReviewEnds == <>(pc = "done")
=============================================================================
