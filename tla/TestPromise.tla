---------------------------- MODULE TestPromise ----------------------------
(***************************************************************************)
(* What a test of test_mck promises, whatever it does to find out: on a    *)
(* kernel it is made for and that is good it ends with ok; on a kernel     *)
(* with the defect it looks for it never does.  Any other kernel may make  *)
(* it end either way, die, or wait for ever.                               *)
(***************************************************************************)
CONSTANT Verdicts

VARIABLES kernel, verdict

vars == <<kernel, verdict>>

Init == kernel \in {"good", "bad", "other"} /\ verdict = "none"

\* tp_assert() or the last return of RUN_FUNC(), once
Decide ==
  /\ verdict = "none"
  /\ verdict' \in Verdicts
  /\ kernel = "good" => verdict' = "ok"
  /\ kernel = "bad" => verdict' # "ok"
  /\ UNCHANGED kernel

DecideGood == kernel = "good" /\ Decide

Spec == Init /\ [][Decide]_vars /\ WF_vars(DecideGood)
=============================================================================
