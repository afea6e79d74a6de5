--------------------------- MODULE BenchmarkerJob ---------------------------
(***************************************************************************)
(* What the Coordinator sees of a Benchmarker job, and all it relies on:   *)
(* the status of its SLURM job, the engine it launched, and the per-run DB *)
(* it opened and filled.  These are the cluster actions of module          *)
(* Coordinator for one job, as a specification of their own.               *)
(***************************************************************************)
EXTENDS Naturals

VARIABLES
  status,   \* running, completed, failed
  engine,   \* none, live, gone
  opened,   \* the per-run DB: none, file, memory
  rows      \* commits in its file

jobVars == <<status, engine, opened, rows>>

Init == status = "running" /\ engine = "none" /\ opened = "none" /\ rows = 0

Launch ==
  /\ status = "running" /\ engine = "none"
  /\ engine' = "live"
  /\ UNCHANGED <<status, opened, rows>>

\* Not before the engine was launched, and only once.
Open ==
  /\ status = "running" /\ engine # "none" /\ opened = "none"
  /\ \/ opened' = "memory" /\ UNCHANGED rows
     \/ opened' = "file" /\ rows' > rows
  /\ UNCHANGED <<status, engine>>

Commit ==
  /\ status = "running" /\ opened = "file"
  /\ rows' > rows
  /\ UNCHANGED <<status, engine, opened>>

\* A job that completes has opened its DB.
End ==
  /\ status = "running"
  /\ status' \in {"completed", "failed"}
  /\ status' = "completed" => opened # "none"
  /\ engine' \in {engine, IF engine = "live" THEN "gone" ELSE engine}
  /\ UNCHANGED <<opened, rows>>

EngineEnds ==
  /\ engine = "live"
  /\ engine' = "gone"
  /\ UNCHANGED <<status, opened, rows>>

Next == Launch \/ Open \/ Commit \/ End \/ EngineEnds

Spec == Init /\ [][Next]_jobVars

=============================================================================
