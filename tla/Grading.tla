------------------------------ MODULE Grading ------------------------------
(***************************************************************************)
(* How one pre-check measurement is judged (prechecks/grade.py), what the  *)
(* judgements make of the gate's exit code, and what the Coordinator reads *)
(* in the same verdict (coordinator/policy.py).  Bandwidths and latencies  *)
(* are integers; a threshold in percent of the expected value is compared  *)
(* after multiplying by 100.                                               *)
(***************************************************************************)
EXTENDS Integers

CONSTANT Missing   \* no number: the benchmark errored, or nothing is expected

Policies == {"abort", "continue"}
Statuses == {"pass", "warn", "fail"}

grade_error(measured, expected, tolerance_pct) ==               \* mutant
  IF measured = Missing THEN "error" ELSE "pass"
\* Without an expected value or a tolerance a measurement is informational.  A
\* negative tolerance means that higher is better, any other that lower is.
grade(measured, expected, tolerance_pct) ==
  IF measured = Missing THEN "fail"
  ELSE IF Missing \in {expected, tolerance_pct} THEN "pass"
  ELSE LET fails == IF tolerance_pct < 0 THEN 100 * measured < 50 * expected
                    ELSE measured > 2 * expected
           warns == IF tolerance_pct < 0
                    THEN 100 * measured < (100 + tolerance_pct) * expected
                    ELSE 100 * measured > (100 + tolerance_pct) * expected
       IN IF fails THEN "fail" ELSE IF warns THEN "warn" ELSE "pass"

outcome_ignoring_warnings(statuses, on_warn, on_fail) ==        \* mutant
  IF "fail" \in statuses /\ on_fail = "abort" THEN 4 ELSE 0
\* The exit code of the gate, from the set of its rows' statuses.
outcome_exit_code(statuses, on_warn, on_fail) ==
  IF "fail" \in statuses /\ on_fail = "abort" THEN 4
  ELSE IF "warn" \in statuses /\ on_warn = "abort" THEN 3
  ELSE 0

\* decide_on_precheck's proceed: the worst status alone decides.
proceed(statuses, on_warn, on_fail) ==
  IF "fail" \in statuses THEN on_fail = "continue"
  ELSE IF "warn" \in statuses THEN on_warn = "continue"
  ELSE TRUE

=============================================================================
