----------------------------- MODULE Judgement -----------------------------
(***************************************************************************)
(* The same rate sweep judged twice: level by level by the driver, which   *)
(* stops it early (orchestrator.py, in plain Python), and afterwards from  *)
(* the results DB by the report, which derives lambda* and the load the    *)
(* deployment carries (reports/analysis.py, in pandas).                    *)
(*                                                                         *)
(* Times are integers; a percentile is kept as a hundredfold.  A session   *)
(* is of one class and of one level, as the levels draw from one pool;     *)
(* rates may repeat.  What else may make a level saturated, its queue, is  *)
(* in Experiment.                                                          *)
(***************************************************************************)
EXTENDS Integers, FiniteSets, Sequences, FiniteSetsExt

CONSTANTS
  RateLevels, \* values of rate_levels to consider
  SLOs,       \* values of slos to consider
  Tables(_),  \* the sets of requests that run_step may return, per level
  StopAfter,  \* stop_after_saturated_levels
  Warmup, Measured, \* the ends of the warmup and of the measurement window
  Unknown     \* a metric that a request lacks; no lambda*

\* What is read from each request.
Metric(slo) == slo.metric \in {"ttft_ms", "tpot_ms", "e2e_ms"}

ASSUME JudgementAssumption ==
  /\ StopAfter \in Nat \ {0} /\ Unknown \notin Int
  /\ RateLevels \subseteq Seq(Int) \ {<<>>}
  /\ \A objectives \in SLOs : \A slo \in objectives :
       /\ Metric(slo) \/ slo.metric \in {"session_e2e_ms", "error_rate_pct"}
       /\ slo.threshold \in Int
       /\ slo.metric # "error_rate_pct" => slo.percentile \in 0 .. 100
  /\ \A levels \in RateLevels : \A i \in DOMAIN levels : \A requests \in Tables(i) :
       /\ IsFiniteSet(requests)
       /\ \A r \in requests : r.issued \in Int /\ r.e2e_ms \in Int
       /\ \A objectives \in SLOs : \A slo \in objectives : \A r \in requests :
            Metric(slo) => r[slo.metric] \in Int \cup {Unknown}
       /\ \A r, q \in requests : r.session = q.session => r.scenario = q.scenario
       /\ \A j \in DOMAIN levels : \A others \in Tables(j) :
            i # j => \A r \in requests, q \in others : r.session # q.session

VARIABLES
  rate_levels, slos, \* the configuration
  swept,  \* the requests of each level that was run
  consec_saturated,
  judging, \* sweep, report, done
  lambda   \* the report's lambda*

judgementVars == <<rate_levels, slos, swept, consec_saturated, judging, lambda>>

JudgementInit ==
  /\ rate_levels \in RateLevels /\ slos \in SLOs
  /\ swept = <<>> /\ consec_saturated = 0
  /\ judging = "sweep" /\ lambda = Unknown

\* Both read the requests issued in the measurement window.
measurement_requests(requests) == {r \in requests : Warmup <= r.issued /\ r.issued < Measured}
Selected(requests, scenario) == {r \in requests : scenario \in {"all", r.scenario}}
Failures(requests) == {r \in requests : ~r.success}

\* Per successful request that has the metric: its value.
Values(requests, metric) ==
  [r \in {q \in requests : q.success /\ q[metric] # Unknown} |-> r[metric]]
Span(requests) ==
  Max({r.issued + r.e2e_ms : r \in requests}) - Min({r.issued : r \in requests})

(***************************************************************************)
(* The driver.                                                             *)
(***************************************************************************)

\* A hundred times the percentile of values in ascending order.
percentile_linear(vals, p) ==
  LET idx == p * (Len(vals) - 1)
      lo  == idx \div 100
  IN IF lo + 1 >= Len(vals) THEN 100 * vals[Len(vals)]
     ELSE 100 * vals[lo + 1] + (idx % 100) * (vals[lo + 2] - vals[lo + 1])

\* The keys of f, in the orders in which its values ascend.
SortedKeys(f) ==
  {keys \in Bijection(1 .. Cardinality(DOMAIN f), DOMAIN f) :
     \A i, j \in DOMAIN keys : i < j => f[keys[i]] <= f[keys[j]]}
Ascending(f) ==
  LET keys == CHOOSE keys \in SortedKeys(f) : TRUE
  IN [i \in 1 .. Cardinality(DOMAIN f) |-> f[keys[i]]]

\* Sessions, cut ones as well, by what is in the window of them.
Spans(requests) ==
  [s \in {r.session : r \in requests} |-> Span({r \in requests : r.session = s})]

breached_all_phases(requests, slo) ==                           \* mutant
  LET sel == Selected(requests, slo.scenario)
      f == IF slo.metric = "session_e2e_ms" THEN Spans(sel) ELSE Values(sel, slo.metric)
  IN /\ sel # {} /\ slo.metric # "error_rate_pct" /\ DOMAIN f # {}
     /\ percentile_linear(Ascending(f), slo.percentile) > 100 * slo.threshold
\* Without data there is no breach.
breached(requests, slo) ==
  LET sel == Selected(measurement_requests(requests), slo.scenario) IN
  IF slo.metric = "error_rate_pct"
  THEN 100 * Cardinality(Failures(sel)) > slo.threshold * Cardinality(sel)
  ELSE LET f == IF slo.metric = "session_e2e_ms" THEN Spans(sel)
                ELSE Values(sel, slo.metric)
       IN /\ DOMAIN f # {}
          /\ percentile_linear(Ascending(f), slo.percentile) > 100 * slo.threshold
step_slo_breaches(requests) == {slo \in slos : breached(requests, slo)}

SweepLevelWithoutBreak ==                                       \* mutant
  /\ judging = "sweep"
  /\ \E requests \in Tables(Len(swept) + 1) :
       /\ swept' = Append(swept, requests)
       /\ consec_saturated' =
            IF step_slo_breaches(requests) # {} THEN consec_saturated + 1 ELSE 0
       /\ judging' = IF Len(swept) + 1 = Len(rate_levels) THEN "report" ELSE "sweep"
  /\ UNCHANGED <<rate_levels, slos, lambda>>

SweepLevelWithoutReset ==                                       \* mutant
  /\ judging = "sweep"
  /\ \E requests \in Tables(Len(swept) + 1) :
       LET saturated == step_slo_breaches(requests) # {}
           consec == IF saturated THEN consec_saturated + 1 ELSE consec_saturated
       IN /\ swept' = Append(swept, requests)
          /\ consec_saturated' = consec
          /\ judging' = IF consec >= StopAfter \/ Len(swept) + 1 = Len(rate_levels)
                        THEN "report" ELSE "sweep"
  /\ UNCHANGED <<rate_levels, slos, lambda>>

\* One level: swept, persisted and judged.
SweepLevel ==
  /\ judging = "sweep"
  /\ \E requests \in Tables(Len(swept) + 1) :
       LET saturated == step_slo_breaches(requests) # {}
           consec == IF saturated THEN consec_saturated + 1 ELSE 0
       IN /\ swept' = Append(swept, requests)
          /\ consec_saturated' = consec
          /\ judging' = IF consec >= StopAfter \/ Len(swept) + 1 = Len(rate_levels)
                        THEN "report" ELSE "sweep"
  /\ UNCHANGED <<rate_levels, slos, lambda>>

(***************************************************************************)
(* The report.  A row of the requests table: [rate, request].              *)
(***************************************************************************)

RequestsTable ==
  UNION {{[rate |-> rate_levels[i], request |-> r] : r \in swept[i]} : i \in DOMAIN swept}
OfRate(rows, rate) == {row \in rows : row.rate = rate}
Requests(rows) == {row.request : row \in rows}
InWindow == {row \in RequestsTable : row.request \in measurement_requests({row.request})}

\* The quantile of pandas, by order statistics: linear between the two nearest.
Statistic(f, k) ==
  CHOOSE v \in {f[x] : x \in DOMAIN f} :
    /\ Cardinality({x \in DOMAIN f : f[x] < v}) <= k
    /\ k < Cardinality({x \in DOMAIN f : f[x] <= v})
quantile(f, p) ==
  LET virtual == p * (Cardinality(DOMAIN f) - 1)
      lower == Statistic(f, virtual \div 100)
      upper == Statistic(f, (virtual + 99) \div 100)
  IN 100 * lower + (virtual % 100) * (upper - lower)

SessionKey(row) == <<row.rate, row.request.scenario, row.request.session>>
\* The spans of the completed sessions, per rate, scenario and session.
session_metrics(rows) ==
  [k \in {SessionKey(row) : row \in {q \in rows : q.request.final}} |->
     Span(Requests({row \in rows : SessionKey(row) = k}))]

attained_without_data(rows, slo) ==                             \* mutant
  LET sel == Selected(Requests(rows), slo.scenario) IN
  \/ sel = {}
  \/ slo.metric = "error_rate_pct"
       /\ 100 * Cardinality(Failures(sel)) <= slo.threshold * Cardinality(sel)
  \/ slo.metric \notin {"error_rate_pct", "session_e2e_ms"}
       /\ DOMAIN Values(sel, slo.metric) # {}
       /\ quantile(Values(sel, slo.metric), slo.percentile) <= 100 * slo.threshold
\* Without data an objective is not attained.
evaluate_slo(rows, slo) ==
  LET sel == {row \in rows : slo.scenario \in {"all", row.request.scenario}} IN
  IF slo.metric = "error_rate_pct"
  THEN /\ sel # {}
       /\ 100 * Cardinality(Failures(Requests(sel))) <= slo.threshold * Cardinality(sel)
  ELSE LET f == IF slo.metric = "session_e2e_ms" THEN session_metrics(sel)
                ELSE Values(Requests(sel), slo.metric)
       IN DOMAIN f # {} /\ quantile(f, slo.percentile) <= 100 * slo.threshold

attained(rate) == \A slo \in slos : evaluate_slo(OfRate(InWindow, rate), slo)
Rates == {rate_levels[i] : i \in DOMAIN rate_levels}
lambda_star ==
  LET ok == {rate \in Rates : attained(rate)}
  IN IF slos = {} \/ ok = {} THEN Unknown ELSE Max(ok)

\* Little's law per class: sessions started in the window, and the wall times of
\* the completed ones, whose mean is taken.
Starts(rows, scenario) ==
  {row \in rows : row.request.turn = 0 /\ row.request.scenario = scenario}
Classes(rows) == {row.request.scenario : row \in {q \in rows : q.request.turn = 0}}
Walls(metrics, rate, scenario) ==
  [k \in {k \in DOMAIN metrics : k[1] = rate /\ k[2] = scenario} |-> metrics[k]]

applied_load_all(rate) ==                                       \* mutant
  LET metrics == session_metrics(RequestsTable)
      rows == OfRate(InWindow, rate)
  IN {<<c, Cardinality(Starts(rows, c)), Walls(metrics, rate, c)>> : c \in Classes(rows)}
\* From the sessions of all rates, then one rate's.
applied_load(rate) ==
  LET metrics == session_metrics(InWindow)
      rows == OfRate(InWindow, rate)
  IN {<<c, Cardinality(Starts(rows, c)), Walls(metrics, rate, c)>> : c \in Classes(rows)}
\* From the requests of one rate, then its sessions.
supportable_users(rate) ==
  LET rows == OfRate(InWindow, rate)
      metrics == session_metrics(rows)
  IN {<<c, Cardinality(Starts(rows, c)), Walls(metrics, rate, c)>> : c \in Classes(rows)}

Report ==
  /\ judging = "report"
  /\ judging' = "done"
  /\ lambda' = lambda_star
  /\ UNCHANGED <<rate_levels, slos, swept, consec_saturated>>

JudgementNext == SweepLevel \/ Report

JudgementSpec == JudgementInit /\ [][JudgementNext]_judgementVars

(***************************************************************************)
(* Properties.                                                             *)
(***************************************************************************)

JudgementTypeOK ==
  /\ rate_levels \in RateLevels /\ slos \in SLOs
  /\ swept \in Seq(UNION {Tables(i) : i \in DOMAIN rate_levels})
  /\ Len(swept) <= Len(rate_levels) /\ \A i \in DOMAIN swept : swept[i] \in Tables(i)
  /\ consec_saturated \in 0 .. Len(swept) /\ consec_saturated <= StopAfter
  /\ judging \in {"sweep", "report", "done"}
  /\ lambda \in Rates \cup {Unknown}

\* A session of the level that has turns in the window, but not its last one.
HasCutSession(requests) ==
  LET rows == measurement_requests(requests) IN
  \E r \in rows : \A q \in rows : q.session = r.session => ~q.final

\* No other level that was run has the rate of this one.
OnlyOfItsRate(i) == \A j \in DOMAIN swept : rate_levels[j] = rate_levels[i] => j = i

\* BreachMeansFail: the two judgements agree where the driver acts: an objective
\* the driver saw breached is not attained in the report, with two exceptions: the
\* driver counts the sessions that the window cut, and the report leaves them out;
\* and the report judges levels of one rate, which validation allows, together.
BreachMeansFail ==
  judging = "done" => \A i \in DOMAIN swept : \A slo \in step_slo_breaches(swept[i]) :
    \/ slo.metric = "session_e2e_ms" /\ HasCutSession(swept[i])
    \/ ~OnlyOfItsRate(i)
    \/ ~evaluate_slo(OfRate(InWindow, rate_levels[i]), slo)

\* SkippedIsNotStar: lambda* is the rate of a level that was run, although the
\* report goes through all of rate_levels, the skipped ones included.
SkippedIsNotStar ==
  lambda # Unknown => \E i \in DOMAIN swept : rate_levels[i] = lambda

\* StopCostsNoStar: when the driver has stopped the sweep early, none of the levels
\* it counted as saturated is lambda*, with the same exceptions.
StopCostsNoStar ==
  judging = "done" /\ Len(swept) < Len(rate_levels) =>
    \A i \in Len(swept) - StopAfter + 1 .. Len(swept) :
      rate_levels[i] # lambda \/ HasCutSession(swept[i]) \/ ~OnlyOfItsRate(i)

\* LoadFiguresAgree: "one definition of concurrent sessions across the report": the
\* load figure of lambda* is the one behind its supportable users.
LoadFiguresAgree == lambda # Unknown => applied_load(lambda) = supportable_users(lambda)

=============================================================================
