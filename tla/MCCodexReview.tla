--------------------------- MODULE MCCodexReview ---------------------------
(* Two packages, one with two files; Codex answers with the right report or  *)
(* with one that differs from it in one respect.                             *)
EXTENDS CodexReview

MCPaths == {"a/PKGBUILD", "a/x", "b/PKGBUILD"}
MCBatches == << {"a/PKGBUILD", "a/x"}, {"b/PKGBUILD"} >>

Right(files) ==
  [verdict |-> "allow", confidence |-> "high", files |-> files,
   complete |-> TRUE, findings |-> FALSE, limitations |-> FALSE]

RightA == Right(<<"a/x", "a/PKGBUILD">>)
RightB == Right(<<"b/PKGBUILD">>)

Variants(r) ==
  {[r EXCEPT !.verdict = v] : v \in Verdicts}
    \cup {[r EXCEPT !.confidence = c] : c \in Confidences}
    \cup {[r EXCEPT !.complete = FALSE], [r EXCEPT !.findings = TRUE],
          [r EXCEPT !.limitations = TRUE],
          [r EXCEPT !.verdict = "warn", !.confidence = "medium",
                    !.findings = TRUE]}

MCAnswers ==
  Variants(RightA) \cup Variants(RightB)
    \cup {Right(<< >>), Right(<<"a/PKGBUILD">>),
          Right(<<"b/PKGBUILD", "a/x">>), Right(<<"a/x", "a/x">>),
          Right(<<"b/PKGBUILD", "b/PKGBUILD">>)}
=============================================================================
