---------------------------- MODULE ReviewPolicy ----------------------------
(* The decision the gate takes over one review: aur_codex_guard/models.py    *)
(* (severities, reports) and aur_codex_guard/gate.py (the cascade of early   *)
(* returns), with the aggregation of per-package reports at the end of       *)
(* review_with_codex.  Pure operators: no state.                             *)
(*                                                                           *)
(* A Codex report is a record [verdict, confidence, files, complete,         *)
(* findings, limitations]; of its findings and limitations the gate only     *)
(* asks whether there are any, so both are Booleans here.  The summary text  *)
(* is left out.                                                              *)
EXTENDS Naturals, Sequences, FiniteSets, Functions

Verdicts == {"allow", "warn", "block"}
Confidences == {"low", "medium", "high"}
Severities == {"info", "low", "medium", "high", "critical"}

SeverityRank ==
  [info |-> 0, low |-> 1, medium |-> 2, high |-> 3, critical |-> 4]
VerdictOrder == [allow |-> 0, warn |-> 1, block |-> 2]
ConfidenceOrder == [low |-> 0, medium |-> 1, high |-> 2]

Review(Paths) ==
  [verdict : Verdicts, confidence : Confidences, files : Seq(Paths),
   complete : BOOLEAN, findings : BOOLEAN, limitations : BOOLEAN]

---------------------------------------------------------------------------
(* models.py: a report's severity is the highest of its findings, "info"     *)
(* when there are none.  found is the set of severities of the findings.     *)
HighestSeverity(found) ==
  CHOOSE s \in found \cup {"info"} :
    \A t \in found : SeverityRank[t] <= SeverityRank[s]

DeterministicVerdict(found) ==
  LET rank == SeverityRank[HighestSeverity(found)]
  IN  IF rank >= SeverityRank["high"] THEN "block"
      ELSE IF rank >= SeverityRank["medium"] THEN "warn"
      ELSE "allow"

---------------------------------------------------------------------------
(* review_with_codex: the reports of all packages become one, with the worst *)
(* verdict, the least confidence and the concatenation of the lists.         *)

(* Mutant: the verdict of the last package counts.                           *)
WorstVerdict_Last(reviews) == reviews[Len(reviews)].verdict

WorstVerdict(reviews) ==
  LET given == {reviews[i].verdict : i \in DOMAIN reviews}
  IN  CHOOSE v \in given : \A w \in given : VerdictOrder[w] <= VerdictOrder[v]

LeastConfidence(reviews) ==
  LET given == {reviews[i].confidence : i \in DOMAIN reviews}
  IN  CHOOSE c \in given :
        \A d \in given : ConfidenceOrder[c] <= ConfidenceOrder[d]

(* The concatenated list of files, of which only the content and the length  *)
(* are ever used: each entry is at its place <<package, place in its report>>*)
(* instead of at a number.                                                   *)
Places(reviews) ==
  UNION {{i} \X DOMAIN reviews[i].files : i \in DOMAIN reviews}

AllFiles(reviews) ==
  [p \in Places(reviews) |-> reviews[p[1]].files[p[2]]]

Combine(reviews) ==
  [verdict     |-> WorstVerdict(reviews),
   confidence  |-> LeastConfidence(reviews),
   files       |-> AllFiles(reviews),
   complete    |-> \A i \in DOMAIN reviews : reviews[i].complete,
   findings    |-> \E i \in DOMAIN reviews : reviews[i].findings,
   limitations |-> \E i \in DOMAIN reviews : reviews[i].limitations]

---------------------------------------------------------------------------
(* gate.py: what closes the gate beyond a person's power to override it.     *)
ExactManifest(expected, files) ==
  /\ Range(files) = expected
  /\ Cardinality(DOMAIN files) = Cardinality(expected)

(* Mutant: a warning with limitations is left to a person.                   *)
Closed_LimitationsAsked(expected, codex) ==
  \/ codex.verdict = "block"
  \/ codex.confidence = "low"
  \/ ~codex.complete
  \/ ~ExactManifest(expected, codex.files)

Closed(expected, codex) ==
  \/ codex.verdict = "block"
  \/ codex.confidence = "low"
  \/ ~codex.complete
  \/ ~ExactManifest(expected, codex.files)
  \/ codex.limitations

(* The cascade over a complete Codex report: a warning that does not close   *)
(* the gate is left to a person; an allow opens it only with high confidence *)
(* and no finding.                                                           *)
CodexGate(expected, codex) ==
  IF Closed(expected, codex) THEN "block"
  ELSE IF codex.verdict = "warn" THEN "warn"
  ELSE IF codex.confidence = "high" /\ ~codex.findings THEN "allow"
  ELSE "block"
=============================================================================
