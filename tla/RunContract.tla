---------------------------- MODULE RunContract ----------------------------
(***************************************************************************)
(* What one experiment run promises its operator, seen only through what   *)
(* is durable on the laptop: the phase and error of the run's state file   *)
(* and the rows of the run in the central results DB.                      *)
(*                                                                         *)
(* A run completes its phases one at a time.  Only a run with a recorded   *)
(* error may jump ahead, to salvage what there is, and it is closed either *)
(* after a merge or with the error on record.                              *)
(***************************************************************************)
EXTENDS Naturals

CONSTANT MaxRows        \* bound: rows a run can contribute

VARIABLES phase, error, central

contractVars == <<phase, error, central>>

\* The phase each phase is followed by when nothing goes wrong.
Successor == [created   |-> "staged",
              staged    |-> "submitted",
              submitted |-> "completed",
              completed |-> "collected",
              collected |-> "merged"]

Init ==
  /\ phase = "created"
  /\ error = FALSE
  /\ central = 0

\* The next phase is completed; "merged" only once the run has rows.
Advance ==
  /\ phase \in DOMAIN Successor
  /\ phase' = Successor[phase]
  /\ phase' = "merged" => central > 0
  /\ UNCHANGED <<error, central>>

\* An error is recorded; the phase stays.
Fail ==
  /\ phase # "torn_down"
  /\ error' = TRUE
  /\ UNCHANGED <<phase, central>>

\* A failed run goes straight to collecting what it left behind.
Salvage ==
  /\ error
  /\ phase \in {"created", "staged", "submitted", "completed"}
  /\ phase' = "collected"
  /\ UNCHANGED <<error, central>>

\* The rows of a collected run are put into the central DB.
Publish ==
  /\ phase = "collected"
  /\ central' \in 1 .. MaxRows
  /\ central # 0 => central' = central
  /\ UNCHANGED <<phase, error>>

\* The run is closed: merged, or failed.
Close ==
  /\ phase # "torn_down"
  /\ phase = "merged" \/ error
  /\ phase' = "torn_down"
  /\ UNCHANGED <<error, central>>

Next == Advance \/ Fail \/ Salvage \/ Publish \/ Close

Spec == Init /\ [][Next]_contractVars

=============================================================================
