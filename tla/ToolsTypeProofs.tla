-------------------------- MODULE ToolsTypeProofs --------------------------
(***************************************************************************)
(* The composition of the sequential parts: a tool in use takes the steps  *)
(* of its own specification, and the others stand still, so that each part *)
(* keeps, beside the others, whatever its own module's theorems say of it. *)
(***************************************************************************)
EXTENDS MCLaptopTools, JudgementProofs, CleanerProofs, ToolsProofs

\* Every behaviour of the composition is one of each of its parts.
LEMMA PartsBehave ==
  Spec => JudgementSpec /\ CleanerSpec /\ PlannerSpec /\ DatasetSpec /\ SamplerSpec
<1> DEFINE allVars == <<tool, judgementVars, cleanerVars, plannerVars, datasetVars, samplerVars>>
<1>1. Init => JudgementInit /\ CleanerInit /\ PlannerInit /\ DatasetInit /\ SamplerInit
  BY DEF Init
<1>2. [Next]_allVars => /\ [JudgementNext]_judgementVars
                        /\ [CleanerNext]_cleanerVars
                        /\ [PlannerNext]_plannerVars
                        /\ [DatasetNext]_datasetVars
                        /\ [SamplerNext]_samplerVars
  BY DEF Next
<1> QED
  BY <1>1, <1>2, PTL DEF Spec, JudgementSpec, CleanerSpec, PlannerSpec, DatasetSpec, SamplerSpec

\* The parts of the composition keep their types.
THEOREM ToolsTypeCorrect == Spec => []ToolsTypeOK
<1>1. ToolsTypeOK <=>
        JudgementTypeOK /\ CleanerTypeOK /\ PlannerTypeOK /\ DatasetTypeOK /\ SamplerTypeOK
  BY DEF ToolsTypeOK
<1> QED
  BY <1>1, PartsBehave, JudgementTypeCorrect, CleanerTypeCorrect, PlannerTypeCorrect,
     DatasetTypeCorrect, SamplerTypeCorrect, PTL

=============================================================================
