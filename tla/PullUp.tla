--------------------------------- MODULE PullUp ---------------------------------
(***************************************************************************)
(* The innovation pull-up of vistalith-sddk-bridge: how an evaluation of a *)
(* feature is classified, and how a caller's wish for a classification is  *)
(* checked.  The two are written independently of each other in the code.  *)
(***************************************************************************)

\* The focus test has five criteria, which only count together.
Criteria == {"focus-test"}

\* A horizon that is given may still be blank.
Horizons == {"none", "blank", "given"}

Evaluation == [failed : SUBSET Criteria, evidence : BOOLEAN, horizon : Horizons]

Classifications ==
  {"vistalith-only", "sddk-watch", "sddk-spike-candidate", "sddk-proposal"}

\* Mutant of Classify: a blank horizon counts as one.
ClassifyAnyHorizon(e) ==
  IF e.failed # {} THEN "vistalith-only"
  ELSE IF ~e.evidence THEN "sddk-watch"
  ELSE IF e.horizon # "none" THEN "sddk-proposal" ELSE "sddk-spike-candidate"

\* PullUpEvaluation::classify; validate never refuses what it returns.
Classify(e) ==
  IF e.failed # {} THEN "vistalith-only"
  ELSE IF ~e.evidence THEN "sddk-watch"
  ELSE IF e.horizon = "given" THEN "sddk-proposal" ELSE "sddk-spike-candidate"

\* PullUpEvaluation::validate_for: what it answers for a desired classification.
ValidateFor(e, desired) ==
  CASE desired \in {"sddk-proposal", "sddk-spike-candidate"} /\ ~e.evidence
         -> "missing-evidence"
    [] desired = "sddk-proposal" /\ e.evidence /\ e.horizon # "given"
         -> "horizon-required"
    [] desired = "sddk-spike-candidate" /\ e.evidence /\ e.horizon # "none"
         -> "horizon-not-allowed"
    [] OTHER -> IF Classify(e) = desired THEN "ok" ELSE "classified-otherwise"
=============================================================================
