--------------------------- MODULE MCPrecheckGate ---------------------------
(* Two collectives at their thresholds, one where more and one where less    *)
(* is better, and an NVSHMEM test just beyond its own.                      *)
EXTENDS PrecheckGate, TLC

MCReferences ==
  ("busbw"   :> [expected |-> 100, tolerance_pct |-> -10, values |-> {90}]) @@
  ("latency" :> [expected |-> 100, tolerance_pct |-> 10, values |-> {110}])

MCOptionalReferences ==
  "alltoall_latency" :> [expected |-> 100, tolerance_pct |-> 10, values |-> {111}]

MCPolicies == {[on_warn |-> "abort", on_fail |-> f] : f \in Policies}

=============================================================================
